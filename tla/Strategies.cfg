SPECIFICATION MCSpec
CONSTANTS
    idA = idA
    idB = idB
    grp = grp
    Ids = {idA, idB}
    Groups = {grp}
    NoPrice = NoPrice
    NoQty = NoQty
    NoGroup = NoGroup
    NoId = NoId
    Configs <- MCConfigs
    Bars <- MCBars
    Submissions <- MCSubmissions
    Closes <- MCCloses
    Exits <- MCExits
    MaxBars <- MCMaxBars
    MaxCalls <- MCMaxCalls
    Cases <- BatchCases
    Histories <- BatchBars
    Calls <- BatchCalls
    Changes <- BatchChanges
    CallLimit <- BatchLength
INVARIANTS
    TypeOK
    BooksBalance
    RiskLimitsHold
    FillsAreDue
    BatchAccountHolds
    OpenTradesByBar
    StepEqualsBatch
    OwnWindowsRestore
    KernelsAreExact
    BatchNeverLooksAhead
PROPERTIES
    LockedNeverGrows
    LossLimitEnforced
    ReplayRepeats
CHECK_DEADLOCK FALSE
