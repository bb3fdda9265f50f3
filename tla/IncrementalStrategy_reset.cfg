SPECIFICATION Spec
CONSTANTS
    idA = idA
    idB = idB
    grp = grp
    Ids = {idA, idB}
    Groups = {grp}
    NoPrice = NoPrice
    NoQty = NoQty
    NoGroup = NoGroup
    NoId = NoId
    Configs <- LossConfigs
    Bars <- DayBars
    Submissions <- DayCalls
    Closes <- NothingLoss
    Exits <- NothingLoss
    MaxBars <- FourLoss
    MaxCalls <- OneLoss
PROPERTIES
    LossLimitResets
