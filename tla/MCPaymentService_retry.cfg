SPECIFICATION FairSpec
CONSTANTS
  k1 = k1
  k2 = k2
  k3 = k3
  k4 = k4
  k5 = k5
  None = None
  Payments = {p1}
  Keys = {k1, k2, k3, k4}
  EventIds = {}
  ProviderIds = {i1, i2, i3}
  Amounts = {1, 4}
  Handlers = {h1, h2}
  ClientKeys <- PlainKeys
PROPERTIES
  RetryDecides
  RepeatCompletes
