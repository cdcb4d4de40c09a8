SPECIFICATION FairSpec
CONSTANTS
    Kinds = {"good", "corrupt", "poison"}
    Slots = {s1, s2}
    Transactional = TRUE
    BatchSize = 2
    Faults = {"crash", "lostAck", "markFails"}
    MaxRows = 3
    MaxFaults = 3
    MaxStarts = 2
INVARIANTS TypeOK SettledAreDelivered DuplicatesNeedFaults
PROPERTIES NeverResent RefinesOutboxDelivery EveryRowSettled
CHECK_DEADLOCK FALSE
