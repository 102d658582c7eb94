SPECIFICATION Spec
CONSTANTS
    Session = {s1, s2}
    Key = {k, m}
    k = k
    m = m
    Modifier = m
    Addr = {a1, a2, a3}
    Limit = 2
    MaxMessages = 4
    Device <- Devices
    Shortcut <- Shortcuts
SYMMETRY Symmetry
CHECK_DEADLOCK FALSE
INVARIANTS
    LeftOwed
    RepeatNamed
    QueueServed
    KeysReleased
