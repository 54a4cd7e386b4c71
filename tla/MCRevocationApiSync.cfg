SPECIFICATION Spec
CONSTANTS
    Workers = {w1}
    Syncers = {w1, api}
    Nobody = Nobody
    Users = {u1}
    MaxChanges = 3
    MaxFailures = 2
INVARIANTS
    NoStaleProvision
CHECK_DEADLOCK FALSE
