SPECIFICATION FairSpec
CONSTANTS
  None = None
  Users = {u1, g1, g2}
  Guests = {g1, g2}
  Reqs = {1, 2, 3}
  Tables = {t1}
  Sessions = {1, 2, 3}
  Keys = {1, 2}
  PaymentsEnabled = FALSE
  MaxSeats = 2
  BuyIns = {1}
  Results <- WonOrLost
  Openings = {0}
  Ranges <- AskedRanges
  MaxAttempts = 2
  Workload = {"sit", "sitGuest", "rebuy", "adminCashOut", "close", "movement", "reopen"}
INVARIANTS
  MoneyConserved
PROPERTIES
  ImplementsChipBank
  EveryRequestEnds
CONSTRAINTS
  UsedInOrder
  KeysInOrder
CHECK_DEADLOCK FALSE
