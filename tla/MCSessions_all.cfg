\* Three sessions, two requests at a time, one logout under way.
CONSTANTS
  SessionIds = {s1, s2, s3}
  Requests = {q1, q2}
  Stampers = {l1}
  ServerMayDie = TRUE
SPECIFICATION Spec
SYMMETRY Interchangeable
INVARIANTS
  TypeOK
  UsedOnce
  LoggedOutForGood
  LineageKept
CHECK_DEADLOCK FALSE
