SPECIFICATION Spec
CONSTANTS
    Segments = {"s1", "s2"}
    SegmentList <- TwoSegments
    Slices = {1, 2}
    Points = {1, 2}
    OnDisk <- Rows
    MaxStamp = 2
INVARIANTS
    EditsBelongToTheTool
    UndoRestores
    RunsStartFromTheCurve
    UnsavedIsFlagged
    PenDrawsOnTheNew
CHECK_DEADLOCK FALSE
