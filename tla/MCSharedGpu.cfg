CONSTANTS
  d1 = d1
  d2 = d2
  o1 = o1
  m1 = m1
  m2 = m2
  p1 = p1
  p2 = p2
  Discord = {d1, d2}
  Other = {o1}
  Model = {m1, m2}
  Wants <- MCWants
  Provider = {p1, p2}
  NoProvider = NoProvider
  NoWorker = NoWorker
  Room = 2
SPECIFICATION Spec
INVARIANTS
  OneHand
PROPERTIES
  Served
