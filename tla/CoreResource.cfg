SPECIFICATION Spec
CONSTANTS
    Row = {r1, r2}
    Request = {q1, q2, q3}
    TicksPerMs = 2
    Registered = {"create", "update", "delete"}
SYMMETRY Symmetry
CHECK_DEADLOCK FALSE
INVARIANTS
    OneCreatorOneDeleter
    ComparedWithACurrentVersion
    BroadcastsAreTheStoredVersions
PROPERTY
    RowsHaveALifecycle
