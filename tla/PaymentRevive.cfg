SPECIFICATION Spec
CONSTANTS
  Sessions = {s1}
  Payments = {p1}
  Invoices = {v1}
  Orders = {o1}
  Final <- OneItem
  Amount = 1
  None = None
SYMMETRY Interchangeable
PROPERTIES CancelledOrderRemains
CHECK_DEADLOCK FALSE
