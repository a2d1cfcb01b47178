CONSTANTS
    VolA = VolA
    VolB = VolB
    None = None
    Nil = Nil
    Unreadable = Unreadable
    Astray = Astray
    Volumes <- TwoVolumes
    Handles <- TwoHandles
    Ids <- TwoIds
    Prepared <- MCPrepared
    FileTfms <- MCFiles
    MaxParts = 4
    MaxEdits = 3
SPECIFICATION Spec
INVARIANTS
    DefaultsLandInTheVolume
    CountedInItsOwnVoxels
    NormalsFitTheSurface
    MapsFitTheMesh
PROPERTIES
    SimplifyKeepsPoints
    ReopenRestores
CHECK_DEADLOCK FALSE
