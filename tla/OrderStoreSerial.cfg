SPECIFICATION Spec
CONSTANTS
  Sessions = {s1}
  Users = {u1}
  Products = {p1, p2}
  OrderIds = {o1, o2}
  MaxQty = 2
  MaxCount = 2
  MaxRows = 1
  MaxAdjust = 1
  None = None
PROPERTIES ImplementsLedger
