CONSTANTS
    Nodes = {alpha}
    Enrolled = {alpha}
    RecoverySlots = {2}
    Overlap = FALSE
    MaxRotations = 2
    MaxRetries = 1
    MaxLostFrames = 1
    MaxRadioFaults = 1
    MaxDbFaults = 1
    MaxCrashes = 1
    MaxFaults = 1
SPECIFICATION Spec
INVARIANTS
    TypeOK
    PiCanonical
    PiHearsFleet
    StrandedRecoverable
    OnePhaseBPerNode
    DoneOnProof
CHECK_DEADLOCK FALSE
