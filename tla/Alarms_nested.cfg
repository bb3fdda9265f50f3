SPECIFICATION Spec
CHECK_DEADLOCK FALSE
CONSTANTS
    Delays = {1}
    Periods = {0}
    Budgets = {2, 4}
    Callers = {"returns"}
    Off = Off
    MaxDepth = 2
    MaxNow = 6
INVARIANTS
    DeadlinesSurvive
