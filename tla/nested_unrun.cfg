SPECIFICATION Spec
CONSTANTS
  Tests <- MCTests
  Suites <- MCSuites
  Decls <- MCDecls
  Faults = {"fail"}
  MaxFaults = 2
INVARIANT UnrunNeverRan
