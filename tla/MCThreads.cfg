SPECIFICATION Spec
CHECK_DEADLOCK FALSE
INVARIANTS  NoneLeftBehind
PROPERTIES RunServes GuardedServes WaitsEnd
