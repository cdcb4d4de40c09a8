SPECIFICATION FairSpec
CONSTANTS
    t1 = t1
    k1 = k1
    k2 = k2
    pooled = pooled
    Topics = {t1}
    Keys = {k1, k2}
    Hash <- MCHash
    Calls = {1, 2}
    Subs = {pooled}
    Limit <- MCLimit
    MaxPartitions = 2
    MaxRecords = 3
    MaxDisconnects = 1
INVARIANTS
    TypeOK
    GivenInOrder
    NothingSkipped
    PoolIsExact
PROPERTIES QueueDrains RefinesRecordDelivery
