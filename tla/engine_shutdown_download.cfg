SPECIFICATION FairSpec
CONSTANTS
  Ids = {1}
  OrdinaryCap = 1
  ControlCap = 1
  MaxGeneration = 1
  Pages = {1}
  DownloadPages = {1}
  Works = {}
  PostMayFail = FALSE
CHECK_DEADLOCK FALSE
PROPERTY ShutdownCompletes
