SPECIFICATION Spec
CONSTANTS
  Sessions = {s1, s2}
  Payments = {p1, p2}
  Invoices = {v1}
  Orders = {}
  Final <- OneItem
  Amount = 1
  None = None
SYMMETRY Interchangeable
INVARIANTS TypeOK LockedFlowsExclude  SpentOnce NoOverAllocation CapturedStays CapturedPaysInvoice
CHECK_DEADLOCK FALSE
