SPECIFICATION FairSpec
CONSTANTS
  Jobs = {j1, j2}
  Workers = {w1}
  Stoppers = {grace, barrier, dtor}
  Graced = {grace, dtor}
  Dtor = dtor
  Wedged = {j2}
  NoJob = none
CHECK_DEADLOCK FALSE
PROPERTIES GraceReturns BarrierReturns
