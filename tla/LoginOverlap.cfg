SPECIFICATION BrowserSpec
CONSTANTS
  None = None
  Calls = {c1, c2}
  Users = {u1}
  Lifetime = 9
  Grace = 0
  MaxTokens = 3
  MaxTime = 0
  Tabs = {t1}
  Slots = {f1, f2}
  ClubsOf <- TwoClubs
  Workload <- SigningInOnly
  MaxAttempts = 2
  MaxLoads = 1
INVARIANT OnlyThisLoginWrites
CHECK_DEADLOCK FALSE
