SPECIFICATION FairSpec
CONSTANTS
    Admins = {a1}
    Keys = {k1}
    QuickRestart = TRUE
    MaxFailures = 0
    MaxCrashes = 1
PROPERTIES
    CommandSettles
