CONSTANTS
    Nodes = {alpha}
    Enrolled = {alpha}
    RecoverySlots = {2}
    Overlap = FALSE
    MaxRotations = 1
    MaxRetries = 0
    MaxLostFrames = 0
    MaxRadioFaults = 1
    MaxDbFaults = 0
    MaxCrashes = 0
    MaxFaults = 1
SPECIFICATION Spec
INVARIANTS
    RetiredMeansPromoted
CHECK_DEADLOCK FALSE
