SPECIFICATION Spec
CONSTANTS
    Reconcilers = {worker, admin}
    Worker = worker
    Kinds = {"compensation"}
    OddAnswers = FALSE
    MaxFailures = 2
CHECK_DEADLOCK FALSE
INVARIANT NeverResubmitted
