SPECIFICATION WorkerSpec
CONSTANTS
  Events = {e1, e2}
  Workers = {w1, w2}
  MaxAttempts = 2
  ClaimLimit = 2
  MaxDrops = 1
  None = None
CHECK_DEADLOCK FALSE
SYMMETRY WorkerSymmetry
PROPERTY ImplementsQueue
