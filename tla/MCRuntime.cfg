SPECIFICATION FairSpec
CONSTANTS
    Admins = {a1}
    Keys = {k1}
    QuickRestart = FALSE
    MaxFailures = 1
    MaxCrashes = 1
INVARIANTS
    TypeOK
PROPERTIES
    StopIsTrue
    RetiredStartUndone
    CommandSettles
    ProjectionConverges
