CONSTANTS
  Approvals = {a1}
  Deciders = {d1, d2}
  Executors = {x1, x2}
  Operators = {}
  Routes = {"queue", "incident"}
  OpTargets = {}
  Free = Free
SPECIFICATION FairSpec
INVARIANT ExecutedAtMostOnce
PROPERTY DecisionsAreAnswered
