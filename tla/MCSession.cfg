CONSTANTS
    PageSize = 2
    TopPage = 1
    ByteSize = 2
    Widths = {1, 2}
    LoadAddr = 1
    Images <- MCImages
    Pcs = {0, 1}
    StoreTo = {1, 3}
    Values = {1}
SPECIFICATION Spec
INVARIANTS SnapshotCurrent ScreenCurrent EngineShown RunningIsLive
PROPERTY RefinesFlat
CHECK_DEADLOCK FALSE
