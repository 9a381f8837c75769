SPECIFICATION FairSpec
CONSTANTS
  Threads = {t1, t2}
  BackupCounts = {0, 1, 3}
  MaxSize = 1
  MaxBytes = 2
  Period = 2
  NULL = NULL
  MaxCalls = 4
  MaxTime = 4
  MaxFaults = 1
  MaxStarts = 2
  MaxCancels = 1
INVARIANT KeepsTheNewest
PROPERTIES DropsOnlyWhenFull CurrentFileStays LinesGoToTheRightFile CallsReturn
CHECK_DEADLOCK FALSE
