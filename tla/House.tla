-------------------------------- MODULE House --------------------------------
(***************************************************************************)
(* The parts of the house that share no state, each on its own: which one  *)
(* a behaviour is about is chosen at the start and never changes, and the  *)
(* variables of the others stay absent.                                    *)
(***************************************************************************)
EXTENDS Integers, Sequences, FiniteSets

CONSTANTS None,
          MaxEntries, TableCapacity,                               \* seating
          Reqs, Presets, Tournaments, Submissions, Cuts, GridWork, \* structures
          Calls, Users, Lifetime, Grace, MaxTokens, MaxTime,       \* tokens
          Tabs, Slots, ClubsOf, TabWork, MaxAttempts, MaxLoads,    \* browser
          People, Clubs, Codes, MaxCodeAttempts,                   \* clubs
          Me, Others, Walkin, Admins, MaxTyped,                    \* both pages
          Seats, Modes, MaxSessions, MaxLost,                      \* seat grid
          MaxPlayers, TourEntries, MaxSent,                        \* detail
          Orders, Decimals, RawStatuses,                           \* gateway
          Sources, Ids, Times, PageSize, SourceFetchCap,           \* history
          LastLevel, Values, Bad, MaxVersion,                      \* control
          Terms, Structures, Limits                                \* form

VARIABLES part,
          room, came,                                                   \* seating
          presets, rowLock, tours, asks,                                \* structures
          tokens, call, now,                                            \* tokens
          cookie, stored, tab, flow,                                    \* browser
          accounts, code, members, wallets, deed, linked, contested,    \* clubs
          hall, players, booked, crossed, lost,                         \* seat grid
          view, page, sent, typed,                                      \* both pages
          tour, count, known,                                           \* detail
          order, wire, operations,                                      \* gateway
          written, first, got, cursor, pages,                           \* history
          clock, shown, poll, form, asked, latest, gone                 \* both forms

roomVars == <<room, came>>
gridVars == <<presets, rowLock, tours, asks>>
serverVars == <<tokens, call, now>>
browserVars == <<cookie, stored, tab, flow>>
clubVars == <<accounts, code, members, wallets, deed, linked, contested>>
tableVars == <<hall, players, booked, crossed, lost>>
pageVars == <<view, page, sent, typed>>
detailVars == <<tour, count, known>>
gatewayVars == <<order, wire, operations>>
historyVars == <<written, first, got, cursor, pages>>
formVars == <<clock, shown, poll, form, asked, latest, gone>>
vars == <<part, roomVars, gridVars, serverVars, browserVars, clubVars, tableVars, pageVars,
          detailVars, gatewayVars, historyVars, formVars>>

NoRoom == room = None /\ came = None
NoGrids == presets = None /\ rowLock = None /\ tours = None /\ asks = None
NoServer == tokens = None /\ call = None /\ now = None
NoBrowser == cookie = None /\ stored = None /\ tab = None /\ flow = None
NoClubs == /\ accounts = None /\ code = None /\ members = None /\ wallets = None
           /\ deed = None /\ linked = None /\ contested = None
NoTable == hall = None /\ players = None /\ booked = None /\ crossed = None /\ lost = None
NoPage == view = None /\ page = None /\ sent = None /\ typed = None
NoDetail == tour = None /\ count = None /\ known = None
NoGateway == order = None /\ wire = None /\ operations = None
NoHistory == written = None /\ first = None /\ got = None /\ cursor = None /\ pages = None
NoForms == /\ clock = None /\ shown = None /\ poll = None /\ form = None
           /\ asked = None /\ latest = None /\ gone = None

-----------------------------------------------------------------------------

Room == INSTANCE SeatingRoom

Grids == INSTANCE BlindStructures WITH req <- asks, Workload <- GridWork

Tokens == INSTANCE RefreshTokens

\* While a tab is watched its clock stands still.
Browser == INSTANCE BrowserSession WITH MaxTime <- 0, Workload <- TabWork

Membership == INSTANCE ClubMembership

Grid == INSTANCE SeatGrid

Detail == INSTANCE TournamentDetail WITH MaxEntries <- TourEntries

Gateway == INSTANCE PixGateway

History == INSTANCE EntryHistory

Control == INSTANCE ClockControl

\* The form lives in the variables of the clock's page that correspond to its own.
Setup == INSTANCE TournamentForm WITH
  tour <- clock, wanted <- latest, opened <- poll, fields <- form

\* A table has a seat at least (tournaments.tableCapacity is validated to be two or more).
ASSUME SeatingConstants == MaxEntries \in Nat /\ TableCapacity \in Nat \ {0}

\* What an admin sends is a list of levels.
ASSUME SubmissionConstants == \A s \in Submissions : s \in Seq({s[i] : i \in DOMAIN s})

\* None is no value of a column: no time, no code and no row.
ASSUME TokenConstants ==
  Lifetime \in Int /\ None \notin Int /\ None # "rotation" /\ None # "login"

ASSUME ClubConstants == None \notin Codes /\ None \notin Membership!MemberRows

\* A tournament may have no levels.
ASSUME ControlConstants == LastLevel \in Nat /\ None \notin Control!Clocks

\* Amounts are written in digits.
ASSUME GatewayConstants ==
  /\ \A d \in Decimals : d.whole \in Nat /\ d.frac \in Seq(0 .. 9)
  /\ None \notin {"invalidAmount", "refused", "done"}

\* None is no request.
ASSUME GridConstants == MaxTyped \in Nat /\ None \notin Grid!Requests

\* A page has a row at least, and each source is asked for one more than fits on it; None
\* is no cursor and no set of rows.
ASSUME HistoryConstants ==
  /\ Sources # {} /\ Ids \subseteq Int /\ Times \subseteq Int
  /\ PageSize \in Nat \ {0} /\ SourceFetchCap \in Nat /\ SourceFetchCap > PageSize
  /\ None \notin [at : Times, id : Ids]
  /\ \A rows \in SUBSET [source : Sources, id : Ids, at : Times] : rows # None

\* Structures are their numbers of levels.
ASSUME FormConstants ==
  /\ Structures \subseteq Nat /\ Limits \subseteq Nat
  /\ None \notin Setup!Tours /\ None \notin {"create", "edit", "refused"}

-----------------------------------------------------------------------------

Init ==
  \/ /\ part = "seating" /\ Room!Init
     /\ NoGrids /\ NoServer /\ NoBrowser /\ NoClubs /\ NoTable /\ NoPage /\ NoDetail
     /\ NoGateway /\ NoHistory /\ NoForms
  \/ /\ part = "structures" /\ Grids!Init
     /\ NoRoom /\ NoServer /\ NoBrowser /\ NoClubs /\ NoTable /\ NoPage /\ NoDetail
     /\ NoGateway /\ NoHistory /\ NoForms
  \/ /\ part = "tokens" /\ Tokens!InitServer
     /\ NoRoom /\ NoGrids /\ NoBrowser /\ NoClubs /\ NoTable /\ NoPage /\ NoDetail
     /\ NoGateway /\ NoHistory /\ NoForms
  \/ /\ part = "browser" /\ Browser!Init
     /\ NoRoom /\ NoGrids /\ NoClubs /\ NoTable /\ NoPage /\ NoDetail /\ NoGateway /\ NoHistory /\ NoForms
  \/ /\ part = "clubs" /\ Membership!Init
     /\ NoRoom /\ NoGrids /\ NoServer /\ NoBrowser /\ NoTable /\ NoPage /\ NoDetail
     /\ NoGateway /\ NoHistory /\ NoForms
  \/ /\ part = "grid" /\ Grid!Init
     /\ NoRoom /\ NoGrids /\ NoServer /\ NoBrowser /\ NoClubs /\ NoDetail /\ NoGateway /\ NoHistory /\ NoForms
  \/ /\ part = "detail" /\ Detail!Init
     /\ NoRoom /\ NoGrids /\ NoServer /\ NoBrowser /\ NoClubs /\ NoTable /\ NoGateway /\ NoHistory /\ NoForms
  \/ /\ part = "gateway" /\ Gateway!Init
     /\ NoRoom /\ NoGrids /\ NoServer /\ NoBrowser /\ NoClubs /\ NoTable /\ NoPage /\ NoDetail
     /\ NoHistory /\ NoForms
  \/ /\ part = "history" /\ History!Init
     /\ NoRoom /\ NoGrids /\ NoServer /\ NoBrowser /\ NoClubs /\ NoTable /\ NoPage /\ NoDetail
     /\ NoGateway /\ NoForms
  \/ /\ part = "control" /\ Control!Init /\ gone = None
     /\ NoRoom /\ NoGrids /\ NoServer /\ NoBrowser /\ NoClubs /\ NoTable /\ NoPage /\ NoDetail
     /\ NoGateway /\ NoHistory
  \/ /\ part = "form" /\ Setup!Init
     /\ NoRoom /\ NoGrids /\ NoServer /\ NoBrowser /\ NoClubs /\ NoTable /\ NoPage /\ NoDetail
     /\ NoGateway /\ NoHistory

SeatingStep ==
  /\ part = "seating" /\ Room!Next
  /\ UNCHANGED <<part, gridVars, serverVars, browserVars, clubVars, tableVars, pageVars,
                 detailVars, gatewayVars, historyVars, formVars>>

StructuresStep ==
  /\ part = "structures" /\ Grids!Next
  /\ UNCHANGED <<part, roomVars, serverVars, browserVars, clubVars, tableVars, pageVars,
                 detailVars, gatewayVars, historyVars, formVars>>

TokensStep ==
  /\ part = "tokens" /\ Tokens!Next
  /\ UNCHANGED <<part, roomVars, gridVars, browserVars, clubVars, tableVars, pageVars,
                 detailVars, gatewayVars, historyVars, formVars>>

BrowserStep ==
  /\ part = "browser" /\ Browser!BrowserNext
  /\ UNCHANGED <<part, roomVars, gridVars, clubVars, tableVars, pageVars, detailVars,
                 gatewayVars, historyVars, formVars>>

ClubsStep ==
  /\ part = "clubs" /\ Membership!Next
  /\ UNCHANGED <<part, roomVars, gridVars, serverVars, browserVars, tableVars, pageVars,
                 detailVars, gatewayVars, historyVars, formVars>>

GridStep ==
  /\ part = "grid" /\ Grid!Next
  /\ UNCHANGED <<part, roomVars, gridVars, serverVars, browserVars, clubVars, detailVars,
                 gatewayVars, historyVars, formVars>>

DetailStep ==
  /\ part = "detail" /\ Detail!Next
  /\ UNCHANGED <<part, roomVars, gridVars, serverVars, browserVars, clubVars, tableVars,
                 gatewayVars, historyVars, formVars>>

GatewayStep ==
  /\ part = "gateway" /\ Gateway!Next
  /\ UNCHANGED <<part, roomVars, gridVars, serverVars, browserVars, clubVars, tableVars,
                 pageVars, detailVars, historyVars, formVars>>

HistoryStep ==
  /\ part = "history" /\ History!Next
  /\ UNCHANGED <<part, roomVars, gridVars, serverVars, browserVars, clubVars, tableVars,
                 pageVars, detailVars, gatewayVars, formVars>>

ControlStep ==
  /\ part = "control" /\ Control!Next
  /\ UNCHANGED <<part, roomVars, gridVars, serverVars, browserVars, clubVars, tableVars,
                 pageVars, detailVars, gatewayVars, historyVars, gone>>

SetupStep ==
  /\ part = "form" /\ Setup!Next
  /\ UNCHANGED <<part, roomVars, gridVars, serverVars, browserVars, clubVars, tableVars,
                 pageVars, detailVars, gatewayVars, historyVars>>

Next ==
  \/ SeatingStep \/ StructuresStep \/ TokensStep \/ BrowserStep \/ ClubsStep
  \/ GridStep \/ DetailStep \/ GatewayStep \/ HistoryStep \/ ControlStep \/ SetupStep

Spec == Init /\ [][Next]_vars

-----------------------------------------------------------------------------

\* Every route that moves seats leaves everyone with an own seat, and no statement of
\* its plan meets the unique index on active seats on the way (SeatingRoom).
SeatsAreSound == part = "seating" => Room!SeatsAreSound /\ Room!PlansNeverClash

\* Open tables never differ by more than one player (SeatingRoom).
TablesBalanced == part = "seating" => Room!TablesBalanced

\* Whoever leaves next, nobody is moved twice (SeatingRoom).
NobodyMovesTwice == part = "seating" => Room!NobodyMovesTwice

\* Every grid is one that an admin sent as a whole (BlindStructures).
GridsAreWhole == part = "structures" => Grids!GridsAreWhole

\* A token is rotated once, and continued only after that (RefreshTokens).
RotationChain == part = "tokens" => Tokens!RotationChain

\* Nothing comes of a token that was revoked before it was rotated (RefreshTokens).
RevokedTokensStayRevoked == part = "tokens" => Tokens!RevokedTokensStayRevoked

\* No answer from before a sign-in undoes it (BrowserSession).
LoginStands == part = "browser" => Browser!LoginStands

\* A club keeps an active administrator (ClubMembership).
AdminRemains == part = "clubs" => Membership!AdminRemains

\* Wallets belong to those who entered the club (ClubMembership).
WalletsFollowMembers == part = "clubs" => Membership!WalletsFollowMembers

\* An amount is only sent for the seat it was typed for (SeatGrid).
AmountsKeepTheirSeat == part = "grid" => Grid!AmountsKeepTheirSeat

\* An amount is booked once, but for answers that were lost and for two kinds of sit with
\* one amount (SeatGrid).
BookedOnce == part = "grid" => Grid!BookedOnce

\* What was ticked or typed for one player never reaches another: a staff bonus is
\* charged to the member it was ticked for, and a place is sent once (TournamentDetail).
NothingLeftOver == part = "detail" => Detail!BonusIsTheirOwn /\ Detail!PlaceIsSpent

\* What a call to the gateway ends with is true of it, and it was carried out twice
\* only after an unclear answer (PixGateway).
CallsAreHonest == part = "gateway" => Gateway!OutcomeIsHonest /\ Gateway!TwiceOnlyIfUnclear

\* A list read to its end has every row once (EntryHistory).
PagesAreComplete == part = "history" => History!PagesAreComplete

\* What was typed for one level is never saved as another (ClockControl).
EditKeepsItsLevel == part = "control" => Control!EditKeepsItsLevel

\* The answer to an own command is not undone by an older poll (ClockControl).
OwnCommandStaysShown == [][part = "control" => Control!PollsKeepUp]_vars

\* A button that can be pressed is only refused if the clock moved or the row was written
\* again and again, or if there are no levels to start (ClockControl).
RefusedOnlyIfMoved == part = "control" => Control!RefusedOnlyIfMoved

\* A tournament is what the last form that was saved showed, and the form of a new one is
\* refused for its structure only: deleted, or without a level it names (TournamentForm).
FormIsKept == part = "form" => Setup!StoredAsShown /\ Setup!CreationIsCoherent
=============================================================================
