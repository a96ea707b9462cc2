\* Two batches, two processing and two sweeping requests, one report at a time, on
\* two orders that the balance covers one after the other; a processing may die.
CONSTANTS
  Orders = {o1, o2}
  Partners = {p1}
  NoPartner = NoPartner
  Owner <- OneOwner
  Mode <- OneMode
  Modes = {"UPI", "BANK_TRANSFER"}
  Batches = {b1, b2}
  NoBatch = NoBatch
  Utrs = {x1, x2}
  NoUtr = NoUtr
  Processors = {r1, r2}
  Assigners = {a1, a2}
  Uploads = {u1}
  Price = 2
  InitialBalance = 3
  ProcessMayDie = TRUE
SPECIFICATION Spec
SYMMETRY RequestSymmetry
INVARIANTS
  TypeOK
  RefundedIffFailed
PROPERTIES
  NeverStranded
  OutcomeStands
  ImplementsHold
CHECK_DEADLOCK FALSE
