CONSTANTS
  Runs = {r1}
  Pods = {p1, p2, p3, p4}
  Replicas = 1
  MaxAttempts = 3
  Requests = {q1}
  OpTargets = {"RESOLVED", "BLOCKED", "EXECUTING"}
  NoPod = NoPod
SPECIFICATION FairSpec
INVARIANTS
  TypeOK
  DeletionsAuthorized
  DeletionsAccounted
  OneDeletionPerAttempt
  RunsSettle
PROPERTIES
  EveryRunEnds
