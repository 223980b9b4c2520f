SPECIFICATION Spec
CONSTANTS
  MaxFences = 2
  RunnerBatch = 4
  EngineBatch = 16
  Nonces <- MCNonces
  InFlightCap = 8
  HistoryCap = 2
  Commands = {c1, c2}
  Controls = {c2}
  Purposes = {"callback", "idle"}
  Faults = {"expire"}
  MaxFaults = 1
INVARIANT ReadySound
PROPERTY BarrierSpec
CHECK_DEADLOCK FALSE
