SPECIFICATION FairSpec
CONSTANTS
  MaxJobs = 3
  MaxStamp = 3
  MaxWatchers = 2
  CommandCap = 1
  ProgressCap = 1
  Retries = 1
  Operations <- FewOperations
  PageCounts = {2}
  CopyCounts = {1}
CHECK_DEADLOCK FALSE
INVARIANTS JobIsSomewhere IdleIsAccepting OutcomeIsTrue InputReachesItsJob NewestIsTaken
PROPERTY PreferencesNeverGoBack ProgressNeverFalls CancelledJobEnds JobEnds ExitEndsWorker
