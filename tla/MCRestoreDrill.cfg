SPECIFICATION DrillSpec
INVARIANT NothingLeftBehind
CHECK_DEADLOCK FALSE
