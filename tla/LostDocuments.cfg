SPECIFICATION Spec
CONSTANTS
  Paths = {"a", "b", "c"}
  Pages <- ThreeFiles
  Protected = {}
  MaxPages = 1
  Sessions <- NoSession
  Doings = {"close"}
  Batch = 1
  Lookahead = 0
  MaxTabs = 2
  MaxTabId = 3
  MaxOpenTabs = 2
  ControlCap = 2
  LowCap = 1
  EventCap = 2
CHECK_DEADLOCK FALSE
INVARIANT ReadyTabsAreOpenInWorker
