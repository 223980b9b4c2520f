SPECIFICATION Spec
CONSTANTS
  Projects <- MCProjects
  Groups <- MCGroups
  Names = {"k", "l"}
  Workers = 2
  Plans <- EveryGraph
  MaxHosts = 1
  Faults = {"stop", "load"}
INVARIANTS RunsSound ReportIsTrue
PROPERTY SettledStays
