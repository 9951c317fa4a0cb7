SPECIFICATION Spec
CONSTANTS
  MaxJobs = 1
  MaxStamp = 3
  MaxWatchers = 1
  CommandCap = 1
  ProgressCap = 1
  Retries = 1
  Operations <- FewOperations
  PageCounts = {1, 2}
  CopyCounts = {1, 2}
CHECK_DEADLOCK FALSE
INVARIANT SheetsAreAsAsked
