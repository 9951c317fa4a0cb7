SPECIFICATION FairSpec
CONSTANTS
  Docs = {d1}
  Targets <- OneTarget
  Calls = {"open", "render", "bump", "query", "stop", "drop", "shutdown"}
  ControlCap = 1
  VisibleCap = 1
  LowCap = 1
  CriticalCap = 1
  EventCap = 1
  MaxOpenTabs = 2
  VisibleBurst = 1
  MaxGeneration = 2
  MaxVersion = 1
CHECK_DEADLOCK FALSE
INVARIANTS
  ShutdownIsHeeded
  StoppedMeansDrained
PROPERTY
  ShutdownStopsWorker
  StopIsReported
  RequestsAreSettled
