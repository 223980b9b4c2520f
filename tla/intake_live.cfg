SPECIFICATION FairSpec
CONSTANTS
  RowCap = 3
  MaxTicket = 4
  CutCap = 2
  MaxNonce = 2
  N = 3
  QueueCap = 2
  CreditCap = 2
  Depth = 1
  PostMayFail = FALSE
  MayThrow = FALSE
  WriterMayFail = TRUE
PROPERTIES StopReaderReturns EofClosesWhileWriting CutsPass
