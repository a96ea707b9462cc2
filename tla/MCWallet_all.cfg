\* Three requests, two overlapping sweeps that are called again and again, one crash.
CONSTANTS
  Wallets = {w1}
  NoWallet = NoWallet
  Lots = {l1}
  NoLot = NoLot
  Requests = {r1, r2, r3}
  Sweepers = {s1, s2}
  Amounts = {1, 2}
  Ops <- MostOps
  MaxCrashes = 1
SPECIFICATION FairSpec
INVARIANTS
  TypeOK
  BooksBalance
  ExpiredOnce
  OverdraftBounded
PROPERTIES
  DueLotsExpire
CHECK_DEADLOCK FALSE
