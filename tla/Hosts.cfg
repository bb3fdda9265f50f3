SPECIFICATION MCSpec
CHECK_DEADLOCK FALSE
CONSTANTS
    k1 = k1
    k2 = k2
    t1 = t1
    t2 = t2
    t3 = t3
    Keys <- TwoKeys
    Threads <- TwoThreads
    NoSession = NoSession
    NoThread = NoThread
    NotIdle = NotIdle
    MaxSessions = 1
    IdleTtl = 1
    Nests <- NestedFactories
    MaxTime = 1
    MaxTokens = 3
    MaxLegacy = 2
    None = None
    NaN = NaN
    Subscribers <- TwoThreads
    Prices <- MCPrices
    Feed <- MCFeed
    History <- MCHistory
    Deadlines = {0, 2}
    MaxClock = 3
    Horizon = 3
    Retentions = {1, 2}
    Names = {"a", "b"}
    MaxEvents = 2
    MaxSlow = 1
    SpanEvents = {TRUE, FALSE}
    MaxSpans = 3
    MaxEmitted = 2
    Programs <- MCPrograms
    Overrides <- MCOverrides
    Members <- MCMembers
INVARIANTS
    TypeOK
    WithinCapacity
    HeldSessionStays
    RefCountCoversHolders
    BalancedReleasesSettle
    CreationsAreSound
    HostsAnswerRight
    DeadlinesIntentsAndFilesHold
PROPERTIES
    ImplementsLeaseTable
    EveryCallReturns
