\* The confirmation's issuance and two webhooks, on two orders that the balance
\* covers only one after the other.
CONSTANTS
  Orders = {o1, o2}
  Partners = {p1}
  NoPartner = NoPartner
  Owner <- OneOwner
  Webhooks = {w1, w2}
  Operators = {}
  NoOrder = NoOrder
  Price = 2
  InitialBalance = 3
  ArrivesLate = FALSE
  WebhookMayFail = FALSE
  ServerMayDie = TRUE
  DatabaseMayFail = TRUE
  AnswersOddly = TRUE
SPECIFICATION FairSpec
INVARIANTS
  TypeOK
  NoDoubleBenefit
  DeliveredOrRefunded
  NeverLeftDebited
PROPERTIES
  StaysDelivered
  IssuedIsDelivered
CHECK_DEADLOCK FALSE
