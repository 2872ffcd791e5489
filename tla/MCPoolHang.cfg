SPECIFICATION FairSpec
CONSTANTS
  Jobs = {j1}
  Workers = {w1}
  Stoppers = {barrier, dtor}
  Graced = {dtor}
  Dtor = dtor
  Wedged = {}
  NoJob = none
CHECK_DEADLOCK FALSE
PROPERTY ShutdownEnds
