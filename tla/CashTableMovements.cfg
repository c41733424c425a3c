SPECIFICATION Spec
CONSTANTS
  None = None
  Users = {u1}
  Guests = {}
  Reqs = {1, 2}
  Tables = {t1}
  Sessions = {1}
  Keys = {k1}
  PaymentsEnabled = FALSE
  MaxSeats = 1
  BuyIns = {1}
  Results <- WonOrLost
  Openings = {0}
  Ranges <- OneRange
  MaxAttempts = 3
  Workload = {"sit", "movement"}
INVARIANTS
  StackIsSumOfMovements
CHECK_DEADLOCK FALSE
