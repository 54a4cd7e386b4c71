SPECIFICATION FairSpec
CONSTANTS
    Admins = {a1}
    Keys = {k1}
    QuickRestart = FALSE
    MaxFailures = 0
    MaxCrashes = 0
PROPERTIES
    ServerStops
