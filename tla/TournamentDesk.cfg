SPECIFICATION Spec
CONSTANTS
  None = None
  Users = {u1, u2}
  Guests = {}
  Reqs = {r1, r2}
  Tournaments = {t1}
  MaxEntries = 3
  Keys = {k1, k2}
  PaymentsEnabled = FALSE
  Settings <- EntryDesk
  Positions = {}
  Openings = {0}
  Levels = {1, 2}
  Workload = {"register", "unregister", "eliminate", "bonus", "time"}
INVARIANTS
  TypeOK
  PaidForOnce
  PoolIsWhatWasCollected
  VacanciesRespected
CONSTRAINT TimePassesLate
SYMMETRY Slots
CHECK_DEADLOCK FALSE
