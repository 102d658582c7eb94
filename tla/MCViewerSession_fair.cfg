SPECIFICATION FairSpec
CONSTANTS
    Hosts = {h1}
    MaxDisplays = 1
PROPERTIES
    EndedComesToRest
    TerminatedComesToRest
    MainComesBack
