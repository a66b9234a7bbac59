CONSTANTS
  Agents = {g1, g2}
  Sessions = {s1, s2}
  Incidents = {i1}
  MaxTime = 3
  MaxReports = 2
  MaxFaults = 1
  MaxAttempts = 2
  Gap = 1
  EvidenceGap = 2
  MaxAge = 1
  MaxAhead = 1
  Skews = {0, 1}
SPECIFICATION FairSpec
INVARIANTS
  ReportsAreApplied

  
  
  
CHECK_DEADLOCK FALSE
