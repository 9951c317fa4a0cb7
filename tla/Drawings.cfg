SPECIFICATION Spec
CONSTANTS
  d1 = d1
  d2 = d2
  Docs = {d1, d2}
  PageCount = 2
  MaxStack = 2
  MaxOverlays = 1
  MaxMarks = 2
  Sights <- OneSight
  None = None
  Sessions <- SmallSessions
SYMMETRY DocSymmetry
CHECK_DEADLOCK FALSE
INVARIANTS OverlaysAreCurrent  OneSaveAtATime
PROPERTY MarksLeaveForAReason ClosingIsAsked
