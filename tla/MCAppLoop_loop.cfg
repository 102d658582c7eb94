SPECIFICATION FairSpec
CONSTANTS
    Hosts = {h1}
    Blank = blank
    HasTray = TRUE
INVARIANTS
    PairingIsWatched
    LabelNamesTheHost
PROPERTIES
    StreamIsShown
    QuitStops
