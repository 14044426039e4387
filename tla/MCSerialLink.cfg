CONSTANTS
    Boot = boot
    Requests = {req}
    BaseDelay = 2
    MaxDelay = 4
    JitterPercent = 25
    MaxStops = 1
    MaxWakes = 1
    MaxUnplugs = 1
    MaxHandles = 7
SPECIFICATION FairSpec
INVARIANTS
    TypeOK
    PortIsOpen
PROPERTIES
    Reconnects
CHECK_DEADLOCK FALSE
