\* A campaign and its resend, two drains, a report beside them, and one mishap.
CONSTANTS
  Campaigns = {b1, b2}
  Originals = {b1}
  Cancellable = {b1}
  Phones = {p1}
  Workers = {w1, w2}
  Reporters = {h1}
  PollBatch = 2
  MaxMishaps = 1
SPECIFICATION FairSpec
INVARIANTS
  TypeOK
  BilledOnce
  CountersMatchRows
PROPERTIES
  CampaignsEnd
  OutcomesArrive
CHECK_DEADLOCK FALSE
