SPECIFICATION Spec
CONSTANTS
  Sessions = {s1, s2}
  Users = {u1}
  Products = {p1}
  OrderIds = {o1, o2}
  MaxQty = 2
  MaxCount = 2
  MaxRows = 2
  MaxAdjust = 1
  None = None
SYMMETRY Interchangeable
INVARIANTS TypeOK LocksMatchRequests LedgerBalanced CartRowsKept
PROPERTIES OnlyHolderChangesStock
