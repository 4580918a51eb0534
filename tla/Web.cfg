SPECIFICATION Spec
CONSTANTS
    None = None
    PageRecord = "page"
    RowRecords = {"a", "b"}
    FirstRecords = {"a"}
    Settings <- FourSettings
    MaxStamps = 12
    CanvasPages = {"p", "q"}
    CanvasRows = {"a", "c", "d"}
    CanvasContainers = {"c", "d"}
    StartRows <- TwoPages
    StartPages <- OnePage
    MaxCanvasDrops = 3
    FlowPages <- TwoFlows
    RowPaths <- ThreePaths
    RowPages <- ThreePages
    FirstFlow = "f"
    Addresses <- FiveAddresses
    MaxChoices = 5
    MaxGone = 2
    PagePlaces <- SideBySide
    ActivePlace = 8
    PageWidths <- TwoWidths
    Middle = 24
    PanelInset = 4
    FitPadding = 4
    PanStep = 4
    FirstShown <- FlowOrPage
    MaxPaces = 5
    NoPage = NoPage

    
    
    
    
    
    
PROPERTIES
    NoConflictAlone
    
CHECK_DEADLOCK FALSE
