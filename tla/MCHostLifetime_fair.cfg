SPECIFICATION FairSpec
CONSTANTS
    Session = {s1, s2}
    s1 = s1
    s2 = s2
    Home = s1
    Proc = {1, 2}
    Values = {v1, v2}
    v1 = v1
    v2 = v2
    First = v1
    Ours = Ours
    None = None
    MaxEvents = 3
CHECK_DEADLOCK FALSE
INVARIANTS
    Recoverable
PROPERTIES
    ConsoleServed
    StopHonoured
    QuitStopsService
