SPECIFICATION FairSpec
CONSTANTS
    b1 = b1
    b2 = b2
    Browsers = {b1, b2}
INVARIANTS
    TypeOK
    UsersGoFirst
    ClosedInReverse
PROPERTY SignalEndsProcess
CHECK_DEADLOCK FALSE
