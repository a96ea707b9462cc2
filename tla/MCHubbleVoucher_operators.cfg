\* An operator acts during the issuance.
CONSTANTS
  Orders = {o1}
  Partners = {p1}
  NoPartner = NoPartner
  Owner <- OneOwner
  Webhooks = {w1}
  Operators = {a1}
  NoOrder = NoOrder
  Price = 2
  InitialBalance = 4
  ArrivesLate = FALSE
  WebhookMayFail = FALSE
  ServerMayDie = FALSE
  DatabaseMayFail = FALSE
  AnswersOddly = FALSE
SPECIFICATION Spec
INVARIANTS
  NoDoubleBenefit
CHECK_DEADLOCK FALSE
