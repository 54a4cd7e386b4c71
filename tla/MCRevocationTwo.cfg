SPECIFICATION FairSpec
CONSTANTS
    Workers = {w1, w2}
    Syncers = {w1, w2}
    Nobody = Nobody
    Users = {u1}
    MaxChanges = 3
    MaxFailures = 2
INVARIANTS
    TypeOK
    NoStaleSnapshot
    SucceededMeansKicked
PROPERTIES
    Disconnected
    Reconnected
CHECK_DEADLOCK FALSE
