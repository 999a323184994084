SPECIFICATION Spec
CONSTANTS
  Sessions = {s1, s2}
  Payments = {p1}
  Invoices = {v1}
  Orders = {}
  Final <- OneItem
  Amount = 1
  None = None
SYMMETRY Interchangeable
INVARIANTS SingleAllocation
CHECK_DEADLOCK FALSE
