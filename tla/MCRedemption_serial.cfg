\* One operator, a provider that reports honestly, and a balance for one order.
CONSTANTS
  Orders = {o1, o2}
  Partners = {p1, p2}
  NoPartner = NoPartner
  Login <- OneLogin
  Confirms = {c1, c2}
  Operators = {w1}
  Vendors = {}
  NoOrder = NoOrder
  Price = 2
  InitialBalance = 3
  InitialStock = 2
  SendMayFail = FALSE
SPECIFICATION Spec
INVARIANTS
  RefundedIffStopped
PROPERTIES
  EdgesRespected
  ImplementsHold
CHECK_DEADLOCK FALSE
