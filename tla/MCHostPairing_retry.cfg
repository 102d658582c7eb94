SPECIFICATION FairSpec
CONSTANTS
    Clients = {c1}
    MaxAttempts = 7
    MaxTimeouts = 2
    MaxRestarts = 0
    Diligent = TRUE
PROPERTIES
    RetriesPair
CHECK_DEADLOCK FALSE
