SPECIFICATION Spec
CONSTANTS
  Jobs = {j1, j2, j3}
  Workers = {w1, w2}
  Stoppers = {grace, barrier, dtor}
  Graced = {grace, dtor}
  Dtor = dtor
  Wedged = {}
  NoJob = none
SYMMETRY Symmetry
CHECK_DEADLOCK FALSE
INVARIANTS Barrier EveryoneAsked NoJobMissed
PROPERTIES ImplementsExecutor
