SPECIFICATION FairSpec
CONSTANTS
    Caller = {c1}
    Reconnector = {r1, r2}
    None = None
    MaxSockets = 3
INVARIANTS
    WaitsOnTheCurrentSocket
    OneReconnection
PROPERTIES
    OnlyALostSocketIsTornDown
    EveryCallEnds
