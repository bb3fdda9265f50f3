SPECIFICATION Spec
CONSTANTS
    idA = idA
    idB = idB
    grp = grp
    Ids = {idA, idB}
    Groups = {grp}
    NoPrice = NoPrice
    NoQty = NoQty
    NoGroup = NoGroup
    NoId = NoId
    Configs <- LossConfigs
    Bars <- LossBars
    Submissions <- LossCalls
    Closes <- NothingLoss
    Exits <- NothingLoss
    MaxBars <- ThreeLoss
    MaxCalls <- TwoLoss
INVARIANTS
    LockedNothingFills
