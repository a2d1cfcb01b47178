SPECIFICATION FairSpec
CONSTANTS
    NumSlices = 6
    Size = 3
    Steps <- MCSteps
    Fetchers = 2
    MaxInputs = 4
INVARIANTS
    OutwardsFromIndex
    CrashMeansClosedBusy
PROPERTIES
    ExitReturnsOrSleeps
