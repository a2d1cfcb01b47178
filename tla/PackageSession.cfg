SPECIFICATION FairSpec
CONSTANTS
    Volumes = {v1, v2}
    Segments = {s1}
    Renders = {r1}
    Heights <- ThreeSlices
    MaxCrashes = 2
INVARIANTS
    BrokenOnlyByFatal
    AnnotationsAlign
CHECK_DEADLOCK FALSE
PROPERTY
    UpgradeConverges
