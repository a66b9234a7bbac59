CONSTANTS
  Executions = {e1}
  Analysts = {a1}
  Proposers = {p1, p2}
  Fingerprints = {f1, f2}
  Observations <- MCObservations
  Initial <- MCInitial
  Headroom <- MCHeadroom
  Minimum <- MCMinimum
  MinReduction = 20
  MinSamples = 5
  Window = 18
  MinWindow = 9
  MinCoverage = 80
  RequestThreshold = 45
  UsageThreshold = 35
  NoDraft = NoDraft
  None = None
  MaxRetries = 1
  MaxCrashes = 1
  MaxCommits = 3
SPECIFICATION Spec
SYMMETRY FinOpsSymmetry
INVARIANTS
  ExecutionsSettle
  
  UsageFits
PROPERTIES
  EndIsFinal
CHECK_DEADLOCK FALSE
