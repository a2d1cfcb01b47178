SPECIFICATION FairSpec
CONSTANTS
    p = p
    q = q
    a = a
    b = b
    Clients = {c1, c2}
    Packages = {p, q}
    Ids = {a, b}
    Volumes <- ThreeVolumes
    SliceBytes <- Bytes
    Memory = 9
    DefaultCapacity = 200
    Batches <- FewBatches
INVARIANTS
    AnsweredAsAsked
    NoReadAfterDelete
    AnswersComeFromThePackage
CHECK_DEADLOCK FALSE
PROPERTY
    EveryBatchIsAnswered
