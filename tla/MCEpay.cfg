SPECIFICATION FairSpec
CONSTANTS
    Attempts = {p1, p2}
    Handlers = {h1, h2}
    Broken = {p2}
    MaxFailures = 1
    MaxChanges = 2
INVARIANTS
    TypeOK
    AbandonedNotFulfilled
    SettledIsAnswered
PROPERTIES
    OutcomeSpec
    PaidSettles
CHECK_DEADLOCK FALSE
