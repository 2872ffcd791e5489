CONSTANTS
  Streams = {"s"}
  Timers = {"t"}
  HostSources = {"h"}
  TaskKeys = {"k"}
  Programs <- BadUnderStop
  MaxMsgs = 3
  MaxOrigins = 2
SPECIFICATION Spec
CHECK_DEADLOCK FALSE
PROPERTY QuitStopsBatch
