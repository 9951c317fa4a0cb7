SPECIFICATION Spec
CONSTANTS
  Docs = {d1}
  Targets <- RenderTargets
  Calls = {"open", "render", "text", "bump", "search"}
  ControlCap = 1
  VisibleCap = 2
  LowCap = 1
  CriticalCap = 1
  EventCap = 1
  MaxOpenTabs = 1
  VisibleBurst = 2
  MaxGeneration = 2
  MaxVersion = 2
CHECK_DEADLOCK FALSE
INVARIANTS
  TypeOK
  PendingIsScheduled
  NoDuplicateRender
  PendingIsCurrent
  LowIsNotStarved
