CONSTANTS
  Incidents = {i1, i2, i3}
  Alerted = {i1}
  Sessions = {s1, s2}
  MaxRequests = 2
  MaxEvents = 1
  MaxRetries = 1
  Budget = 2
  Threshold = 2
  PrimaryModel = m1
  FallbackModel = m2
  EscalationModel = m3
  HighConfidence = 2
SPECIFICATION DiagnosisSpec
SYMMETRY AISymmetry
INVARIANTS
  BudgetsHold
  
PROPERTIES
  AnswersAreKept
CHECK_DEADLOCK FALSE
