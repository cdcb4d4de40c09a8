SPECIFICATION FairSpec
CONSTANTS
    ann = ann
    bob = bob
    Customers = {ann}
    MaxOrders = 2
    MaxProduced = 1
    MaxDeletes = 2
    MaxFaults = 1
    Avro = FALSE
    Foreign = TRUE
INVARIANTS
    TypeOK
    CaughtUpShowsLast
    SnapshotsAccumulate
    NewestSnapshotWins
PROPERTY ViewCatchesUp
CHECK_DEADLOCK FALSE
