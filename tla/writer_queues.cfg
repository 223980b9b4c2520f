SPECIFICATION Spec
CONSTANTS
  RowCap = 6
  MaxTicket = 9
  CutCap = 2
  MaxNonce = 1
  p1 = p1
  p2 = p2
  p3 = p3
  Pages = {p1, p2, p3}
  AudioPages = {p1}
  FrameSizes = {1, 2}
  EventSizes = {1, 2}
  ReplySizes = {2}
  FrameBudget = 2
  AudioCap = 1
  EventCap = 2
  EventBudget = 3
  MaxResponse = 2
  ReplyBudget = 3
  CreditCap = 2
  MarkSlots = 1
  MaxPackets = 3
  WriteMayFail = TRUE
  ReaderMayPoison = TRUE
SYMMETRY SilentPages
INVARIANTS TypeOK QueuesSound WatermarkSound ControlInOrder TakesOnlyQueuedPackets
