SPECIFICATION Spec
CONSTANTS
    idA = idA
    idB = idB
    grp = grp
    Ids = {idA, idB}
    Groups = {grp}
    NoPrice = NoPrice
    NoQty = NoQty
    NoGroup = NoGroup
    NoId = NoId
    Configs <- ReduceConfigs
    Bars <- ReduceBars
    Submissions <- ReduceCalls
    Closes <- NothingReduce
    Exits <- NothingReduce
    MaxBars <- ThreeReduce
    MaxCalls <- TwoReduce
INVARIANTS
    OcaReduces
