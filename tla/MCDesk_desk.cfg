SPECIFICATION FairDeskSpec
CONSTANTS
  None = None
  p3 = p3
  Payments = {p1, p2, p3}
  LostIds <- OneLost
  Moves <- ShortLives
  Calls = {c1, c2}
  SessionLimit = 2
  MaxPolls = 2
INVARIANTS
  DeskTypeOK
  IdsKept
PROPERTIES
  StraysOnlyLate
  PollCatchesUp
