SPECIFICATION FairSpec
CONSTANTS
  Paths = {"a"}
  Pages <- OneFile
  Protected = {}
  MaxPages = 2
  Sessions <- NoSession
  Doings = {"write", "blank", "navigate"}
  Batch = 1
  Lookahead = 0
  MaxTabs = 2
  MaxTabId = 2
  MaxOpenTabs = 2
  ControlCap = 1
  LowCap = 1
  EventCap = 1
CHECK_DEADLOCK FALSE
INVARIANTS OneTabPerFile
PROPERTY ReloadKeepsDocument OpensFinish
