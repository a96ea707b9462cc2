\* Two entries of one outlet; two requests at a time.
CONSTANTS
  e1 = e1
  e2 = e2
  o1 = o1
  o2 = o2
  b1 = b1
  b2 = b2
  p1 = p1
  Batches = {b1, b2}
  Entries = {e1, e2}
  Outlets = {o1, o2}
  Pans = {p1}
  Downloads = {d1, d2, d3}
  Reversals = {r1}
  Requests = {q1, q2}
  BatchOf <- InBatch
  OutletOf <- OneOutlet
  Amount <- Amounts
  PanOf <- OfPan
  Threshold = 3
  Rate = 25
SPECIFICATION Spec
CONSTRAINT ReversedBatch
SYMMETRY Interchangeable
INVARIANTS
  TypeOK
  PaidAtMostOnce
  MovedOnce
  TaxWithheldAsDue
CHECK_DEADLOCK FALSE
