CONSTANTS
    Clients = {c1, c2}
    nodes = nodes
    drones = drones
    Services = {nodes, drones}
    SnapshotReads <- MCSnapshotReads
    Limits = {0, 1}
    BusSize = 1
    SendSize = 1
    MaxEvents = 3
SPECIFICATION Spec
INVARIANTS
    TypeOK
PROPERTIES
    GaplessStream
    HubServes
CHECK_DEADLOCK FALSE
