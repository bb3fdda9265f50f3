SPECIFICATION Spec
CONSTANTS
    MaxTime = 3
    MaxPreviews = 2
    Retentions <- MCRetentions
    Budgets <- MCBudgets
    NoLimit = NoLimit
    NoContext = NoContext
    NoSnapshot = NoSnapshot
    Interruptible <- MCInterruptible
    PartialWrites <- MCPartialWrites
    MaxInterrupted = 2
INVARIANTS
    TypeOK
    CommittedStateIsTheFeed
    RecordingIsTheFeed
    OwnCheckpointsRestore
    PreviewIsIntrabar
PROPERTIES
    IsNewIsTrue
