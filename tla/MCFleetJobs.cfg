CONSTANTS
    DebouncedWork <- MCDebouncedWork
    DirectWork <- MCDirectWork
    Callers = {c1, c2}
    NoWork = NoWork
    JobTimeout = 1
    StaleThreshold = 1
    MaxJobs = 3
    MaxCrashes = 2
    MaxDbFaults = 1
SPECIFICATION FairSpec
INVARIANTS
    TypeOK
    LeaseHeld
    FifoOrder
    RerunOnlyAfterCrash
    DebounceBound
PROPERTIES
    TerminalIsFinal
    QueuedIsTaken
CHECK_DEADLOCK FALSE
