SPECIFICATION FairSpec
CONSTANTS
  Sessions = {s1, s2}
  Users = {u1}
  Products = {p1, p2}
  OrderIds = {o1}
  MaxQty = 1
  MaxCount = 1
  MaxRows = 1
  MaxAdjust = 0
  None = None
PROPERTIES RequestsEnd
