SPECIFICATION Spec
CONSTANTS
  None = None
  Users = {u1, g1}
  Guests = {g1}
  Reqs = {1, 2, 3, 4}
  Tables = {1, 2}
  Sessions = {1, 2}
  Keys = {1, 2}
  PaymentsEnabled = TRUE
  MaxSeats = 2
  BuyIns = {1}
  Results <- WonOrLost
  Openings = {3}
  Ranges <- OneRange
  MaxAttempts = 2
  Workload = {"sit", "sitGuest", "rebuy", "cashOut", "adminCashOut"}
INVARIANTS
  LedgerChain
  DoubleEntry
CONSTRAINTS
  UsedInOrder
  KeysInOrder
  SeatsInOrder
  TablesInOrder
  WalletOrCounter
CHECK_DEADLOCK FALSE
