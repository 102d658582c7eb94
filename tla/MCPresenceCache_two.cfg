SPECIFICATION FairSpec
CONSTANTS
    Hosts = {1, 2}
    Movers = {}
    Hashes = {a}
    MaxLaunches = 1
INVARIANTS
    ForgottenStaysGone
PROPERTIES
    NoStarvation
