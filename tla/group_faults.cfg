SPECIFICATION Spec
CONSTANTS
  Projects <- MCProjects
  Groups <- MCGroups
  Names = {"k", "l"}
  Workers = 3
  Plans <- LivePlans
  MaxHosts = 2
  Faults = {"stop", "load", "crash", "start", "stuck"}
INVARIANT RunsSound
PROPERTIES FailsOnlyFromOutside StopAdmitsNothing RunEnds
