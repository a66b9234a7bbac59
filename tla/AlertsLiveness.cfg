CONSTANTS
  Hooks = {h1, h2}
  f1 = f1
  f2 = f2
  Fingerprints = {f1}
  Batches <- Episodes
  MaxIncidents = 2
SPECIFICATION FairSpec
PROPERTY IncidentsAreProcessed
CHECK_DEADLOCK FALSE
