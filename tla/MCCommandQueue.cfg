CONSTANTS
    Nodes = {n1}
    All = All
    IssueTargets = {All}
    Issued <- MCIssued
    MaxIssued = 2
    MaxCommands = 4
SPECIFICATION FairSpec
INVARIANTS
    TypeOK
    FinishedLeavesQueue
    RawOffOncePerScan
PROPERTIES
    ProbeScansEnd
CHECK_DEADLOCK FALSE
