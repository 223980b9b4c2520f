SPECIFICATION Spec
CONSTANTS
  Tests <- MCTests
  Suites <- MCSuites
  Decls <- MCDecls
  Faults = {"stop", "crash", "output", "amend", "skip", "fail"}
  MaxFaults = 3
INVARIANTS AbortHasCause AttemptsSound BodyInsideSuites LeavesBeforeExit EveryTestReported RetriesGiven FailuresAreTests
