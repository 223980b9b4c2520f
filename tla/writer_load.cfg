SPECIFICATION FairSpec
CONSTANTS
  RowCap = 3
  MaxTicket = 6
  CutCap = 2
  MaxNonce = 1
  Pages = {1}
  AudioPages = {}
  FrameSizes = {1}
  EventSizes = {}
  ReplySizes = {2}
  FrameBudget = 3
  AudioCap = 1
  EventCap = 1
  EventBudget = 2
  MaxResponse = 2
  ReplyBudget = 3
  CreditCap = 1
  MarkSlots = 1
  MaxPackets = 4
  WriteMayFail = FALSE
  ReaderMayPoison = FALSE
INVARIANT NeverPoisonedByLoad
PROPERTIES AcceptedIsWritten StopReturns
