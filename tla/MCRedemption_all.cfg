\* Two orders under one login for one unit of stock, two operators and a vendor,
\* and passwords that may be reported unsent.
CONSTANTS
  Orders = {o1, o2}
  Partners = {p1, p2}
  NoPartner = NoPartner
  Login <- OneLogin
  Confirms = {c1, c2}
  Operators = {w1, w2}
  Vendors = {v1}
  NoOrder = NoOrder
  Price = 2
  InitialBalance = 3
  InitialStock = 1
  SendMayFail = TRUE
SPECIFICATION Spec
SYMMETRY AllSymmetry
INVARIANTS
  TypeOK
  MoneyMovesOnce
  StockConsumed
  ConfirmedByOwnOtp
CHECK_DEADLOCK FALSE
