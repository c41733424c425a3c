SPECIFICATION Spec
CONSTANTS
  None = None
  Users = {u1}
  Guests = {}
  Reqs = {r1, r2}
  Tournaments = {t1}
  MaxEntries = 1
  Keys = {k1}
  PaymentsEnabled = FALSE
  Settings <- Champion
  Positions = {}
  Openings = {0}
  Levels = {1}
  Workload = {"register", "unregister", "finish"}
INVARIANTS
  PaidFromThePoolThereIs
CHECK_DEADLOCK FALSE
