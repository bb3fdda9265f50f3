SPECIFICATION AverageSpec
CONSTANTS
    idA = idA
    idB = idB
    grp = grp
    Ids = {idA, idB}
    Groups = {grp}
    NoPrice = NoPrice
    NoQty = NoQty
    NoGroup = NoGroup
    NoId = NoId
    Configs <- MCConfigs
    Bars <- MCBars
    Submissions <- MCSubmissions
    Closes <- MCCloses
    Exits <- MCExits
    MaxBars <- MCMaxBars
    MaxCalls <- MCMaxCalls
    Cases <- AverageCases
    Histories <- AverageHistories
    Calls <- AverageCalls
    Changes <- NoChanges
    CallLimit <- TwoCalls
INVARIANTS
    AverageOfRemainingLots
CHECK_DEADLOCK FALSE
