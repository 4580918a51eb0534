SPECIFICATION Spec
CONSTANTS
    Caller = {c1, c2}
    MaxAttempts = 3
    MaxLosses = 3
    FewLosses = 2
    Request = {"r1", "r2", "r3"}
    Lookup = {"r1", "r2"}
    Service = {"s1", "s2"}
    Misconfigured = {"s2"}
    MaxTables = 3
    File = {"small", "large"}
    Writer = {"r1", "r2"}
    Size <- Sizes
    MaxChunks = 2
    MaxFaults = 3
INVARIANTS
    NeverGivesUp
    TableIsWhatIsLive
    
    StoredAsSent
PROPERTIES
    DisposedStaysClosed
    AdapterComesBack
CHECK_DEADLOCK FALSE
