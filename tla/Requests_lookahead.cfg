SPECIFICATION MCSpec
CHECK_DEADLOCK FALSE
INVARIANTS
    DocumentedLookahead
