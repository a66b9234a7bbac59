CONSTANTS
  Requests = {r1, r2}
  Polls = {q1}
  Stops = {s1}
  Plans = {"scale", "delete", "revert", "parked", "none", "unknown"}
  Base = 1
  MaxReplicas = 2
  LowRisk = TRUE
  MaxFailures = 2
  OthersScale = TRUE
  Free = Free
SPECIFICATION FairSpec
INVARIANTS
  
  ActedOnce
  

  
CHECK_DEADLOCK FALSE
