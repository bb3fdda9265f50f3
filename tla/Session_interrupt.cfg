SPECIFICATION Spec
CONSTANTS
    MaxTime = 2
    MaxPreviews = 2
    Retentions <- MCRetentions
    Budgets <- MCBudgets
    NoLimit = NoLimit
    NoContext = NoContext
    NoSnapshot = NoSnapshot
    Interruptible <- MCInterruptible
    PartialWrites <- MCPartialWrites
    MaxInterrupted = 2
INVARIANTS
    PartialWritesStopTheSession
