SPECIFICATION FairSpec
CONSTANTS
    Reconcilers = {worker, admin}
    Worker = worker
    Kinds = {"member", "deleted", "compensation"}
    OddAnswers = TRUE
    MaxFailures = 4
INVARIANTS
    TypeOK
    ConfirmedMeansRefunded
    ResubmittedOnlyIfDisturbed
    BothOnlyIfDisturbed
PROPERTIES
    RefundSeen
CHECK_DEADLOCK FALSE
