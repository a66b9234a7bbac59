CONSTANTS
  Fingerprints = {f1, f2}
  Noise = Noise
  Sessions = {s1, s2}
  MaxLines = 2
  QueueSize = 1
  Rate = 1
  HookRate = 1
  MaxAttempts = 2
  MaxRetries = 1
  MaxFaults = 1
SPECIFICATION FairSpec
INVARIANTS
  EventsAreUnique
PROPERTIES
  DeliveredOnce
  LinesReachTheDatabase
CHECK_DEADLOCK FALSE
