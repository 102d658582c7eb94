SPECIFICATION FairSpec
CONSTANTS
    Session = {s1}
    Launch = {l1}
    Handler = {h1}
    Stream = {v, a}
    None = None
CHECK_DEADLOCK FALSE
PROPERTIES
    StopCompletes
    CancelAnswered
