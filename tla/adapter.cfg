SPECIFICATION FairSpec
CONSTANTS
    Callers = {c1, c2}
    Consumers = {k1}
    Kinds = {"producer", "admin"}
    Subjects <- TwoSubjects
    AutoConnect = TRUE
INVARIANTS TypeOK HandlersKeepTheirClients CleanDisconnect FlagsAreExact EncodedAreRegistered
PROPERTIES CallsReturn
