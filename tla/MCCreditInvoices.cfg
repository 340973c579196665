CONSTANTS
  intro = intro
  regular = regular
  t1 = t1
  t2 = t2
  Buyer = {u1}
  Pack = {intro, regular}
  INTRO = intro
  Credits <- MCCredits
  MaxInvoices = 3
  Delivery = {d1}
  PENDING_LIMIT = 2
  Thread = {t1, t2}
SPECIFICATION PurchasesSpec
INVARIANTS
  PaidOnce
  OneOpenInvoice
PROPERTIES
  SettledIsFinal
SYMMETRY MCSymmetry
