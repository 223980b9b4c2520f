SPECIFICATION FairSpec
CONSTANTS
  Ids = {1, 2}
  OrdinaryCap = 1
  ControlCap = 1
  MaxGeneration = 2
  Pages = {1, 2}
  DownloadPages = {1}
  Works = {w}
  PostMayFail = TRUE
INVARIANTS AnswersSound NoOrphanPages
PROPERTIES TimerServes ShutdownWithoutDownloads
CHECK_DEADLOCK FALSE
