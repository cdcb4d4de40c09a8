SPECIFICATION FairSpec
CONSTANTS
    Events = {e1, e2, e3, e4}
    Invalid = {e3, e4}
    Refused = {e4}
    WithRetryTopic = TRUE
    Replay = TRUE
    Delays <- Ladder
    MaxDeliveries = 2
    FilterSize = 1
    MaxPublished = 2
    MaxFaults = 1
INVARIANTS TypeOK NoLoss RetriesBeforeDlq RetriesAreBounded OneOutcomePerDelivery HopsAreThrottled MetricCountsAttempts
PROPERTY TopicsDrain
CHECK_DEADLOCK FALSE
