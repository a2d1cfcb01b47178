CONSTANTS
    manual = manual
    seg = seg
    xy = xy
    segmentation = segmentation
    visible = visible
    fine = fine
    coarse = coarse
    flat = flat
    a = a
    b = b
    bad = bad
    here = here
    None = None
    Views <- MCViews
    Segmentation = segmentation
    Crop = visible
    ManualPlane = manual
    SegPlanes <- MCSegPlanes
    Volumes = {fine, coarse, flat}
    Scales <- MCScales
    Packages <- MCPackages
    Paths = {a, b, bad}
    Readable = {a, b}
    Points = {here}
    Normals = {here}
    Centres = {0, 2}
    Margin = 1
    MaxZoom = 2
    MaxOffset = 1
    MaxOps = 1
    MaxInputs = 5
SPECIFICATION Spec
INVARIANTS
    ImagesAreCurrent
    LinesAreCurrent
    NoSignalFeedsItself
PROPERTIES
    OnlyNewVolumesLackLevels
SYMMETRY MCSymmetry
CHECK_DEADLOCK FALSE
