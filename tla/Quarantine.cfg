CONSTANTS
  Appliers = {a1}
  Removers = {m1}
  Polls = {p1}
  Stops = {s1}
  MaxExecutions = 3
  MaxFailures = 1
  Free = Free
SPECIFICATION QuarantineSpec
INVARIANTS
  PolicyIsRecorded
PROPERTIES
  
  ScenarioEnds
CHECK_DEADLOCK FALSE
