SPECIFICATION PoliciesSpec
CONSTANTS
  Loop = loop
  Senders = {s1}
  Helpers = {h1}
  NoThread = none
  Capacity = 1
  OnFull = "block"
  HasWake = TRUE
  MaxOrigins = 1
  BySender = 2
  ByHelper = 1
  ByLoop = 0
  MaxSends <- SendBounds
PROPERTIES ImplementsChannel Drains LoopNotStuck SendersReleased
