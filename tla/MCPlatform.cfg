SPECIFICATION Spec
CHECK_DEADLOCK FALSE
INVARIANTS   UpdatesKept
PROPERTIES  CallsAnswered
