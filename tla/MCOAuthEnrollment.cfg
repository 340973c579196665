CONSTANTS
  i1 = i1
  i2 = i2
  e1 = e1
  e2 = e2
  c1 = c1
  c2 = c2
  User = {u1}
  Installation = {i1, i2}
  Enrollment = {e1, e2}
  Home <- MCHome
  MaxLicences = 3
  Callback = {c1, c2}
  Poll = {p1}
SPECIFICATION Spec
INVARIANTS
  OneActive
PROPERTIES
  RevocationIsFinal
SYMMETRY MCSymmetry
