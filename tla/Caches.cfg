SPECIFICATION MCSpec
CONSTANTS
    long = long
    short = short
    x = x
    v1 = v1
    v2 = v2
    t1 = t1
    t2 = t2
    Names <- MCNames
    Threads <- MCThreads
    Limits <- MCLimits
    Ttls <- MCTtls
    Keys <- MCKeys
    Coordinates <- MCCoordinates
    Contents <- MCContents
    Closes <- MCCloses
    Clocks <- MCClocks
    Watermarks <- MCWatermarks
    Step = 1
    MaxBars = 2
    MaxRanges = 2
    NoStep = NoStep
    NoRow = NoRow
    NoClose = NoClose
    NoPromise = NoPromise
    Invalid = Invalid
    NoTtl = NoTtl
    NoEntry = NoEntry
    NoCall = NoCall
    NoSnapshot = NoSnapshot
    MaxTime = 2
    MaxLoads = 2
SYMMETRY MCSymmetry
INVARIANTS
    CachesAreInOrder
    ServesTheProvider
    SweepsHold
    NothingOutlivesItsTtl
PROPERTIES
    FetchesOnlyTheTail
    EvictsColdest
