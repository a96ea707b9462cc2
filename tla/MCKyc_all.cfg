\* Two submissions, two fields, two officers and one handler of another kind.
CONSTANTS
  Subs = {s1, s2}
  Fields = {f1, f2}
  Inheritable = {f1}
  Requests = {q1}
  Cleanups = {c1}
  Officers = {g1, g2}
  Stages = {"PENDING_SO_APPROVAL"}
  MultiLevel = TRUE
  Ways <- OneApproves
  g1 = g1
  g2 = g2
  Patches = {"APPROVED"}
SPECIFICATION Spec
CONSTRAINT CleanedUpBetweenTwo
SYMMETRY Interchangeable
INVARIANTS
  TypeOK
  LiveOutletIsOwned
PROPERTIES
  GoesLiveFromTheQueue
CHECK_DEADLOCK FALSE
