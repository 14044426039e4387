CONSTANTS
    Nodes = {alpha, beta}
    Enrolled = {alpha, beta}
    RecoverySlots = {2}
    Overlap = FALSE
    MaxRotations = 1
    MaxRetries = 0
    MaxLostFrames = 0
    MaxRadioFaults = 0
    MaxDbFaults = 0
    MaxCrashes = 0
    MaxFaults = 0
SPECIFICATION Spec
INVARIANTS
    NoManagedNodeLeftBehind
SYMMETRY NodeSymmetry
CHECK_DEADLOCK FALSE
