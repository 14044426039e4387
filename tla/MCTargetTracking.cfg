CONSTANTS
    Ids = {t1, t2}
    Macs = {m1}
    NoMac = NoMac
    MaxFrames = 2
    MaxRequests = 3
    MaxFaults = 1
SYMMETRY Symmetry
SPECIFICATION Spec
INVARIANTS
    HitFallback
    NoHiddenTarget
CHECK_DEADLOCK FALSE
