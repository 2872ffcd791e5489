CONSTANTS
  Streams = {"s"}
  Timers = {"t"}
  HostSources = {"h"}
  TaskKeys = {"k"}
  Programs <- Safe
  MaxMsgs = 3
  MaxOrigins = 3
SPECIFICATION FairSpec
CHECK_DEADLOCK FALSE
INVARIANTS InOrder SubscriptionsMatch NothingForgotten
PROPERTIES FoldsWhatCounts TaskErrorReported QueueServed
