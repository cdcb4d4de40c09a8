SPECIFICATION FairSpec
CONSTANTS
    Kinds = {"good"}
    Slots = {s1, s2}
    Transactional = TRUE
    BatchSize = 2
    Faults = {"markFails"}
    MaxRows = 3
    MaxFaults = 1
    MaxStarts = 1
PROPERTIES EveryRowDelivered
CHECK_DEADLOCK FALSE
