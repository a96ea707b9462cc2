\* Two drafts of one outlet, each consented to.
CONSTANTS
  Subs = {s1, s2}
  Fields = {f1, f2}
  Inheritable = {f1}
  Requests = {q1}
  Cleanups = {}
  Officers = {}
  Stages = {"PENDING_SO_APPROVAL", "PENDING_ASM_APPROVAL"}
  MultiLevel = FALSE
  Ways <- OneApproves
  g1 = g1
  g2 = g2
  Patches = {}
SPECIFICATION Spec
SYMMETRY Interchangeable
INVARIANTS
  OneInFlight
CHECK_DEADLOCK FALSE
