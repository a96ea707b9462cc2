\* Everything that can go wrong at once, and the refinement of PointsHold.
CONSTANTS
  Orders = {o1}
  Partners = {p1}
  NoPartner = NoPartner
  Owner <- OneOwner
  Webhooks = {w1, w2}
  Operators = {a1, a2}
  NoOrder = NoOrder
  Price = 2
  InitialBalance = 3
  ArrivesLate = TRUE
  WebhookMayFail = TRUE
  ServerMayDie = TRUE
  DatabaseMayFail = TRUE
  AnswersOddly = TRUE
SPECIFICATION Spec
SYMMETRY RequestSymmetry
PROPERTIES
  ImplementsHold
CHECK_DEADLOCK FALSE
