SPECIFICATION Spec
CONSTANTS
    Session = {s1, s2}
    Launch = {l1}
    Handler = {h1}
    Stream = {av}
    None = None
SYMMETRY Symmetry
CHECK_DEADLOCK FALSE
INVARIANTS
    NoDanglingSession
    ContextCoversUsers
    CountExact
    JoinProgresses
PROPERTIES
    HonoursContract
