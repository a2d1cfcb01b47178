SPECIFICATION FairViewerSpec
CONSTANTS
    s1 = s1
    s2 = s2
    x1 = x1
    x2 = x2
    None = None
    SliceSet <- MCSlices
    Settings <- MCSettings
    MaxChanges = 3
PROPERTIES
    EventuallyShowsControls
