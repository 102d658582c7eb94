SPECIFICATION HealthySpec
CONSTANTS
    Hosts = {1}
    Movers = {1}
    Hashes = {a, b}
    MaxLaunches = 2
PROPERTIES
    PruneKeepsIndexed
    CacheConverges
    StopReturns
