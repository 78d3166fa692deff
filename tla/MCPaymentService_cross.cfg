SPECIFICATION Spec
CONSTANTS
  k1 = k1
  k2 = k2
  k3 = k3
  k4 = k4
  k5 = k5
  None = None
  Payments = {p1, p2}
  Keys = {k1, k2, k3, k4, k5}
  EventIds = {}
  ProviderIds = {i1, i2, i3}
  Amounts = {4, 5}
  Handlers = {h1, h2}
  ClientKeys <- CrossKeys
SYMMETRY Symmetry
INVARIANTS
  OneKeyPerTransition
  AnswerNamesPayment
