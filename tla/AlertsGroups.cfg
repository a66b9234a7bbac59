CONSTANTS
  Hooks = {h1, h2}
  f1 = f1
  f2 = f2
  Fingerprints = {f1, f2}
  Batches <- Groups
  MaxIncidents = 4
SPECIFICATION Spec
SYMMETRY HookSymmetry
INVARIANTS
  IntakeIsSound
  
CHECK_DEADLOCK FALSE
