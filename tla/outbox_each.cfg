SPECIFICATION FairSpec
CONSTANTS
    Kinds = {"good", "corrupt"}
    Slots = {s1, s2}
    Transactional = FALSE
    BatchSize = 3
    Faults = {"crash", "lostAck", "markFails"}
    MaxRows = 3
    MaxFaults = 2
    MaxStarts = 2
INVARIANT DeliveredInOrder
PROPERTY EveryRowDelivered
CHECK_DEADLOCK FALSE
