SPECIFICATION MCSpec
CHECK_DEADLOCK FALSE
INVARIANTS
    StoresStaySound
    EnginesShowTheSame
PROPERTIES
    ViewsActAsLists
    CopiesAreDetached
    RequestsAreSteady
