SPECIFICATION Spec
CONSTANTS
  MaxFences = 2
  RunnerBatch = 4
  EngineBatch = 16
  Nonces <- MCNonces
  InFlightCap = 8
  HistoryCap = 2
  Commands = {c1}
  Controls = {}
  Purposes = {"callback"}
  Faults = {"expire", "disown", "stop", "crash", "audit", "overflow"}
  MaxFaults = 1
INVARIANTS ErrorBlocksFence FailureHasCause
PROPERTY FenceEnds
CHECK_DEADLOCK FALSE
