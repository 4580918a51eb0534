SPECIFICATION Spec
CONSTANTS
    None = None
    Word = {"a", "b"}
    NoWord = ""
    MaxSearches = 5
    MaxErrors = 1
    CoreRows <- Resources
    ServiceRows <- Items
    Addressed <- Enquiry
    NoRow = ""
    PrivateRows = {"order", "reply"}
    OwnRows = {"page"}
    DeclarableRows = {"order"}
    PushedRows <- TwoResources
    MaxStamps = 4
    MaxPushed = 3
    MaxCuts = 1
    Listed <- TwoRecords
    RecordPages = {"list", "detail"}
    MaxOvertaking = 2
    MaxInOrder = 3
    MaxRefreshes = 1
    MaxLost = 1
INVARIANTS
    AddressCarriesInstructions
CHECK_DEADLOCK FALSE
