SPECIFICATION Spec
CONSTANTS
  Docs = {d1, d2}
  Targets <- OneTarget
  Calls = {"open", "close", "render", "invert", "stop"}
  ControlCap = 1
  VisibleCap = 1
  LowCap = 1
  CriticalCap = 1
  EventCap = 1
  MaxOpenTabs = 2
  VisibleBurst = 1
  MaxGeneration = 1
  MaxVersion = 1
SYMMETRY DocSymmetry
CHECK_DEADLOCK FALSE
INVARIANTS
  CachedDocumentsAreOpen
PROPERTY
  OpensAreAnswered
