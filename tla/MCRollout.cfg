SPECIFICATION FairSpec
CONSTANTS
    Installations = {i1, i2}
    MaxRollouts = 2
    Releases = {v1}
    Legacy = legacy
    MaxFailures = 2
INVARIANTS
    TypeOK
    SingleReplacement
    CanaryFirst
PROPERTIES
    OutcomeIsTrue
    RollbackCompletes
    RolloutSettles
CHECK_DEADLOCK FALSE
