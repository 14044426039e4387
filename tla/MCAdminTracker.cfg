CONSTANTS
    Ids = {k1, k2}
    Remotes = {r}
    Local = local
    MaxSessions = 2
SPECIFICATION FairSpec
INVARIANTS
    TypeOK
    ExactlyOneReply
    NoFalseSuccess
    GetReturnsData
    RefusedKeyDropped
PROPERTIES
    CallsReturn
CHECK_DEADLOCK FALSE
