SPECIFICATION Spec
CONSTANTS
    NumSlices = 6
    Size = 3
    Steps <- MCSteps
    Fetchers = 2
    MaxInputs = 4
INVARIANTS
    StartsAreServed
