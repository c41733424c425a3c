SPECIFICATION Spec
CONSTANTS
  None = None
  MaxEntries = 10
  TableCapacity = 3
  Reqs = {r1, r2}
  Presets = {p1, p2}
  Tournaments = {t1}
  Submissions <- Sent
  Cuts = {0, 2}
  GridWork = {"update", "delete", "create", "patchStructure", "patchCut"}
  Calls = {c1, c2}
  Users = {u1}
  Lifetime = 2
  Grace = 0
  MaxTokens = 3
  MaxTime = 1
  Tabs = {t1}
  Slots = {f1, f2}
  ClubsOf <- TwoClubs
  TabWork = {"login", "logout", "query", "refreshClubes", "switchClube", "reload"}
  MaxAttempts = 2
  MaxLoads = 2
  People = {u1, u2}
  Clubs = {k1, k2}
  Codes = {c1, c2}
  MaxCodeAttempts = 2
  Me = me
  Others = {p1}
  Walkin = walkin
  Admins = {TRUE, FALSE}
  MaxTyped = 1
  Seats = {1, 2}
  Modes = {"member", "guest"}
  MaxSessions = 2
  MaxLost = 1
  MaxPlayers = 2
  TourEntries = 2
  MaxSent = 2
  Orders = {o1, o2}
  Decimals <- Amounts
  RawStatuses = {"PAID", "HELD"}
  Sources = {s1, s2}
  Ids = {1, 2, 3}
  Times = {1, 2}
  PageSize = 1
  SourceFetchCap = 2
  LastLevel = 2
  Values = {1}
  Bad = 0
  MaxVersion = 3
  Terms = {1, 2}
  Structures = {2}
  Limits = {3}
INVARIANTS
  SeatsAreSound
  TablesBalanced
  NobodyMovesTwice
  GridsAreWhole
  RotationChain
  RevokedTokensStayRevoked
  LoginStands
  AdminRemains
  WalletsFollowMembers
  AmountsKeepTheirSeat
  BookedOnce
  NothingLeftOver
  CallsAreHonest
  PagesAreComplete
  EditKeepsItsLevel
  
  FormIsKept
PROPERTY OwnCommandStaysShown
VIEW Seen
CONSTRAINT Plan
CHECK_DEADLOCK FALSE
