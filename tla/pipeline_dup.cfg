SPECIFICATION Spec
CONSTANTS
    Events = {e1}
    Invalid = {}
    Refused = {}
    WithRetryTopic = TRUE
    Replay = FALSE
    Delays <- Ladder
    MaxDeliveries = 2
    FilterSize = 2
    MaxPublished = 2
    MaxFaults = 0
INVARIANT EffectivelyOnce
CHECK_DEADLOCK FALSE
