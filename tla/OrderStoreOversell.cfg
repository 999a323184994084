SPECIFICATION Spec
CONSTANTS
  Sessions = {s1, s2}
  Users = {u1, u2}
  Products = {p1}
  OrderIds = {o1, o2}
  MaxQty = 1
  MaxCount = 1
  MaxRows = 1
  MaxAdjust = 0
  None = None
SYMMETRY Interchangeable
INVARIANTS NoOversell
