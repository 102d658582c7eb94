SPECIFICATION Spec
CONSTANTS
    Hosts = {h1, h2}
    MaxDisplays = 2
SYMMETRY HostSymmetry
INVARIANTS
    CurlExclusive
    JoinExclusive
    RestIsQuiet
PROPERTIES
    SelectionSticks
    ImplementsContract
