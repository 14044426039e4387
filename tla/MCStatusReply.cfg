CONSTANTS
    Nodes = {n1, n2}
    NoNode = NoNode
    Blank = Blank
    MaxPackets = 2
    MaxRequests = 1
    MaxRestarts = 1
SPECIFICATION Spec
INVARIANTS
    LocalPinned
PROPERTIES
    SensorSticky
    StatusAnswered
CHECK_DEADLOCK FALSE
