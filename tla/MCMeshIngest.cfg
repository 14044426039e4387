CONSTANTS
    Senders = {n1}
    Self = self
    MaxTexts = 2
    Bodies <- MCBodies
    CacheMax = 1
    CacheKeep = 1
    MaxRepeats = 1
    MaxAges = 1
SPECIFICATION IngestSpec
INVARIANTS
    IngestTypeOK
    GatedOnce
    FrameDelivered
CHECK_DEADLOCK FALSE
