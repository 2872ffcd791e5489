SPECIFICATION OldestSpec
CONSTANTS
  Loop = loop
  Senders = {s1, s2}
  Helpers = {}
  NoThread = none
  Capacity = 2
  OnFull = "drop_oldest"
  HasWake = TRUE
  MaxOrigins = 1
  BySender = 2
  ByHelper = 0
  ByLoop = 1
  MaxSends <- SendBounds
SYMMETRY Symmetry
INVARIANTS NoLostWake WakeReachesReactor 
PROPERTIES ImplementsChannel
