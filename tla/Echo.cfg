SPECIFICATION Spec
CONSTANTS
    Page = "page"
    Row = {"a", "b"}
    First = {"a"}
    Settings <- OneBuilder
    MaxClock = 12
    Prompt = TRUE
PROPERTIES
    EchoIsIgnored
CHECK_DEADLOCK FALSE
