CONSTANTS
  Approvals = {a1}
  Deciders = {d1, d2}
  Executors = {x1, x2}
  Operators = {o1}
  Routes = {"queue"}
  OpTargets = {"AWAITING_APPROVAL", "RESOLVED"}
  Free = Free
SPECIFICATION Spec
SYMMETRY RequestSymmetry
INVARIANTS
  TypeOK
  DecisionIsAtomic
PROPERTIES
  
  ApprovedWasFresh
