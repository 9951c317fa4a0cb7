SPECIFICATION Spec
CONSTANTS
  Docs = {d1, d2}
  Pages = {1, 2}
  Sizes = {1, 2, 3}
  Capacity = 3
  Budgets = {3, 6}
  None = None
  Widths <- SmallWidths
  Broken = {2}
  Zooms = {1, 3}
  ZoomBudgets <- SmallBudgets
  PresentSize = 150
  PreviewSize = 60
  ThumbSize = 10
  Batch = 2
  Lookahead = 1
  LowCap = 8
  Readings <- Previews
  Texts <- SmallTexts
  Queries <- SmallQueries
  Outlines <- SmallOutlines
  Finds <- SmallFinds
  MaxIndex = 9
  PanelFiles = {}
  PageCounts <- SmallCounts
  Typed = {}
  Orders = {}
  Panels = {}
  MaxEntries = 0
  FileJobs <- SmallJobs
  Contents <- SmallContents
  BlankPages = {1}
  Meddling = 2
  Prints <- SmallPrints
  MaxDialogPage = 4
SYMMETRY DocSymmetry
CHECK_DEADLOCK FALSE
INVARIANT PreviewStaysInDialog
