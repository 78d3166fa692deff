SPECIFICATION FairWorkerSpec
CONSTANTS
  Events = {e1}
  Workers = {w1, w2, w3}
  MaxAttempts = 3
  ClaimLimit = 1
  MaxDrops = 2
  None = None
CHECK_DEADLOCK FALSE
INVARIANTS
  WorkerTypeOK
  DeliveredWasTaken
  GivenUpAfterAttempts
  OverrunOnlyByDrops
PROPERTY Settles
