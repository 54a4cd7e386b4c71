CONSTANTS
    Users = {u1, u2, u3}
    MaxGroups = 1
    MaxAttempts = 3
    MaxRecorders = 1
SPECIFICATION FairSpec
INVARIANTS
    RewardsTogether
    PaidOnce
PROPERTY
    PurchaseUnblocked
CHECK_DEADLOCK FALSE
