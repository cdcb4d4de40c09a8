SPECIFICATION Spec
CONSTANTS
    ann = ann
    bob = bob
    Customers = {ann}
    MaxOrders = 2
    MaxProduced = 0
    MaxDeletes = 0
    MaxFaults = 1
    Avro = FALSE
    Foreign = FALSE
INVARIANT Rebuilt
CHECK_DEADLOCK FALSE
