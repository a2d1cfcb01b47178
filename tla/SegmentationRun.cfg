\* Up to two starts of runs and two touches between them.
SPECIFICATION Spec
CONSTANTS
    NumSlices = 5
    Width = 2
    Segments <- MCSegments
    Ends = {0, 3}
    MaxStarts = 2
    MaxTouches = 2
INVARIANTS
    CloudsAgree
    RunsKeepBetweenAnchors
PROPERTIES
    AnchorsAreProtected
    OnlyEarlyRunsUnmark
    OnlyEarlyRunsOverrun
\* A write beside the annotation cloud leaves the program undefined: the model stops.
CHECK_DEADLOCK FALSE
