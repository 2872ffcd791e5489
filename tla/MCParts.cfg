SPECIFICATION PartsSpec
CONSTANTS
  Numbered = {1, 2}
  Plain = {4}
  Hash <- KeyHash
  IndexThreshold = 1
  MinCap = 6
  MaxLeaves = 4
CHECK_DEADLOCK FALSE
INVARIANTS CollectsExactly SignalsHold HelpersHold  RunsEveryEffect 
  LooksBackTruly ArgumentsArrive
PROPERTIES  PlanExact
