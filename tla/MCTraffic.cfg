SPECIFICATION FairSpec
CONSTANTS
    Procs = {worker, api}
    Nobody = Nobody
    Users = {u1}
    InitialQuota = 1
    MaxTraffic = 3
    MaxQuota = 2
    MaxBatches = 2
    MaxFailures = 2
INVARIANTS
    TypeOK
    Conservation
    RetrySameBatch
    RestrictedIsQueued
    AckedIsDropped
PROPERTIES
    MeterSpec
    BatchSettles
    RestrictionReachesQueue
CHECK_DEADLOCK FALSE
