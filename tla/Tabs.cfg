SPECIFICATION Spec
CONSTANTS
  Paths = {"a", "b"}
  Pages <- SteadyFiles
  Protected = {"b"}
  MaxPages = 2
  Sessions <- AnySession
  Doings = {"close", "draw"}
  Batch = 1
  Lookahead = 0
  MaxTabs = 2
  MaxTabId = 2
  MaxOpenTabs = 2
  ControlCap = 1
  LowCap = 1
  EventCap = 1
CHECK_DEADLOCK FALSE
INVARIANTS OpeningIsAnswered TabShowsItsFile
