SPECIFICATION FairSpec
CONSTANTS
  Sessions = {s1, s2}
  Payments = {p1}
  Invoices = {v1}
  Orders = {o1}
  Final <- TwoItems
  Amount = 3
  None = None
INVARIANTS NoOverAllocation CapturedPaysInvoice
PROPERTIES FlowsEnd
CHECK_DEADLOCK FALSE
