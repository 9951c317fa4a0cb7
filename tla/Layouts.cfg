SPECIFICATION Spec
CONSTANTS
  Paths = {"a", "b"}
  Pages <- SteadyFiles
  Protected = {}
  MaxPages = 2
  Sessions <- AnySession
  Doings = {}
  Batch = 1
  Lookahead = 0
  MaxTabs = 2
  MaxTabId = 2
  MaxOpenTabs = 2
  ControlCap = 1
  LowCap = 1
  EventCap = 2
CHECK_DEADLOCK FALSE
INVARIANT ShownLayoutIsItsOwn
