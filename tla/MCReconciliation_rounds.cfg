SPECIFICATION FairReconSpec
CONSTANTS
  k1 = k1
  k2 = k2
  k3 = k3
  None = None
  Payments = {p1}
  Keys = {k1, k2, k3}
  EventIds = {}
  ProviderIds = {i1, i2}
  Amounts = {4}
  Handlers = {h1, h2}
  ClientKeys <- NoRefundKeys
INVARIANTS
  ReconTypeOK
  MissingNeverReported
  DiscrepanciesJustified
PROPERTY LastingMismatchRecorded
