SPECIFICATION FairSpec
CONSTANTS
    Session = {s1, s2}
    s1 = s1
    s2 = s2
    None = None
    Hangs = FALSE
CHECK_DEADLOCK FALSE
INVARIANTS
    NoOrphan
PROPERTIES
    StreamsStop
    ReinitProceeds
    CaptureReplaced
