SPECIFICATION Spec
CONSTANTS
  RowCap = 4
  MaxTicket = 6
  CutCap = 2
  MaxNonce = 2
  N = 6
  QueueCap = 2
  CreditCap = 2
  Depth = 2
  PostMayFail = TRUE
  MayThrow = TRUE
  WriterMayFail = FALSE
INVARIANTS TypeOK CutSound QueueAccounting CreditConservation NeverPoisonedByLoad
PROPERTY PassedCutsStay
