SPECIFICATION Spec
CONSTANTS
  None = None
  Users = {u1}
  Guests = {}
  Reqs = {1, 2, 3, 4}
  Tables = {t1}
  Sessions = {1, 2}
  Keys = {1, 2}
  PaymentsEnabled = FALSE
  MaxSeats = 1
  BuyIns = {1}
  Results <- WonOrLost
  Openings = {0}
  Ranges <- OneRange
  MaxAttempts = 2
  Workload = {"sit", "rebuy", "cashOut", "adminCashOut", "movement", "close"}
INVARIANTS
  TypeOK
  NoLostStackUpdate
  ClosingSettlesWhatItListed
PROPERTIES
  CashOutPaysTheStackOnce
CONSTRAINTS
  UsedInOrder
  KeysInOrder
  StackOrClosing
CHECK_DEADLOCK FALSE
