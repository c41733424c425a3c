------------------------------- MODULE SeatGrid -------------------------------
(***************************************************************************)
(* The page of a cash table (seat-grid.tsx) in front of the table service. *)
(* The page shows the seats of its last poll, keeps what is being typed in  *)
(* React state that all seats share, and each of its mutations has at most  *)
(* one request under way; every click is a request with a new idempotency   *)
(* key.  What somebody types is numbered, in the order it is typed.         *)
(***************************************************************************)
EXTENDS Integers, Sequences, FiniteSets

CONSTANTS None,
          Me,               \* the user of the page
          Others,           \* other members of the club
          Walkin,           \* whoever plays without an account
          Seats,
          Admins,           \* the values of isAdmin to look at
          Modes,            \* the modes of the dialog its user chooses
          MaxSessions,      \* bound: sessions of the table
          MaxTyped,         \* bound: amounts typed
          MaxLost           \* bound: answers that never come

VARIABLES hall,             \* the table's status, and the session at each seat, 0 for none
          players,          \* whose each session is
          view,             \* the hall as of the last poll
          page,             \* the React state
          typed,            \* the seat each amount was typed for
          sent,             \* the request of each mutation that is pending
          booked,           \* how often each amount was carried out
          crossed,          \* how often each amount was sent while it was under way already
          lost              \* how many answers never came

vars == <<hall, players, view, page, typed, sent, booked, crossed, lost>>

Amounts == {"buyIn", "rebuy", "adjust"}
Sitting == {"sit", "sitForUser", "sitGuest"}
Leaving == {"cashOut", "adminCashOut"}
Mutations == Sitting \cup Leaving \cup {"rebuy", "adjust", "close", "reopen"}

Requests ==
  [seat : Seats \cup {None}, session : Nat, player : Others \cup {Me, Walkin, None},
   typed : Nat, outcome : {"open", "done", "doneEmpty", "refused"}]

NothingTyped == [a \in Amounts |-> 0]

Init ==
  /\ hall = [status |-> "OPEN", at |-> [s \in Seats |-> 0]]
  /\ players = <<>>
  /\ view = hall
  /\ \E admin \in Admins :
       page = [admin |-> admin, seat |-> None, amounts |-> NothingTyped, mode |-> "self",
               confirming |-> FALSE, report |-> FALSE, left |-> FALSE]
  /\ typed = <<>>
  /\ sent = [m \in Mutations |-> None]
  /\ booked = [n \in 1 .. MaxTyped |-> 0]
  /\ crossed = [n \in 1 .. MaxTyped |-> 0]
  /\ lost = 0

-----------------------------------------------------------------------------
(* The table service, and everybody else who uses it.                      *)

Seated == {hall.at[s] : s \in Seats} \ {0}
SeatOf(session) == CHOOSE s \in Seats : hall.at[s] = session

\* A sit needs an open table, a seat nobody has, and a player who has none.
MaySit(q) ==
  /\ hall.status = "OPEN" /\ hall.at[q.seat] = 0
  /\ q.player # Walkin => \A n \in Seated : players[n] # q.player
  /\ Len(players) < MaxSessions

Accepts(m, q) ==
  CASE m \in Sitting -> MaySit(q)
    [] m = "close" -> hall.status = "OPEN"
    [] m = "reopen" -> hall.status = "CLOSED"
    [] OTHER -> q.session \in Seated

Takes(seat, player) ==
  /\ hall' = [hall EXCEPT !.at[seat] = Len(players) + 1]
  /\ players' = Append(players, player)

CarryOut(m, q) ==
  /\ CASE m \in Sitting -> Takes(q.seat, q.player)
       [] m \in Leaving -> /\ hall' = [hall EXCEPT !.at[SeatOf(q.session)] = 0]
                           /\ UNCHANGED players
       [] m = "close" -> /\ hall' = [status |-> "CLOSED", at |-> [s \in Seats |-> 0]]
                         /\ UNCHANGED players
       [] m = "reopen" -> hall' = [hall EXCEPT !.status = "OPEN"] /\ UNCHANGED players
       [] OTHER -> UNCHANGED <<hall, players>>
  /\ booked' = IF q.typed = 0 THEN booked ELSE [booked EXCEPT ![q.typed] = @ + 1]

Serve(m) ==
  LET q == sent[m]
  IN  /\ q # None /\ q.outcome = "open"
      /\ IF Accepts(m, q)
         THEN CarryOut(m, q) /\ sent' = [sent EXCEPT ![m].outcome = IF m = "close" /\ Seated = {}
                                                                   THEN "doneEmpty" ELSE "done"]
         ELSE UNCHANGED <<hall, players, booked>> /\ sent' = [sent EXCEPT ![m].outcome = "refused"]
      /\ UNCHANGED <<view, page, typed, crossed, lost>>

Elsewhere ==
  /\ \/ \E s \in Seats, p \in Others :
          MaySit([seat |-> s, player |-> p]) /\ Takes(s, p)
     \/ \E s \in Seats :
          /\ hall.at[s] # 0 /\ hall' = [hall EXCEPT !.at[s] = 0]
          /\ UNCHANGED players
     \/ /\ hall' = IF hall.status = "OPEN"
                   THEN [status |-> "CLOSED", at |-> [s \in Seats |-> 0]]
                   ELSE [hall EXCEPT !.status = "OPEN"]
        /\ UNCHANGED players
  /\ UNCHANGED <<view, page, typed, sent, booked, crossed, lost>>

\* Every five seconds, and after every success.
Poll ==
  /\ ~page.left /\ view' = hall
  /\ UNCHANGED <<hall, players, page, typed, sent, booked, crossed, lost>>

-----------------------------------------------------------------------------
(* What the page shows, and lets its user do.                              *)

OnPage(b) ==
  /\ page' = b
  /\ UNCHANGED <<hall, players, view, typed, sent, booked, crossed, lost>>

DialogOpen == page.seat # None /\ ~page.left
Vacant(s) == view.at[s] = 0
IsMine(s) == ~Vacant(s) /\ players[view.at[s]] = Me

\* The forms of SeatDialogBody, for the seat as it is shown now.
SelfForm == DialogOpen /\ Vacant(page.seat) /\ (page.admin => page.mode = "self")
MemberForm == DialogOpen /\ Vacant(page.seat) /\ page.admin /\ page.mode = "member"
GuestForm == DialogOpen /\ Vacant(page.seat) /\ page.admin /\ page.mode = "guest"
OwnSeat == DialogOpen /\ IsMine(page.seat)
AdminForms == DialogOpen /\ page.admin /\ ~Vacant(page.seat) /\ ~IsMine(page.seat)

\* A chip of the table; the dialog is modal.
SelectSeat(s) ==
  /\ page.seat = None /\ ~page.confirming /\ ~page.report /\ ~page.left
  /\ OnPage([page EXCEPT !.seat = s])

\* Mutant: the dialog closes and what was typed stays.
OnlyHidden(b) == [b EXCEPT !.seat = None]

CloseSeatDialog(b) ==
  [b EXCEPT !.seat = None, !.amounts = NothingTyped, !.mode = "self"]

Dismiss == DialogOpen /\ OnPage(CloseSeatDialog(page))

ShowsField(a) == IF a = "buyIn" THEN SelfForm \/ MemberForm \/ GuestForm ELSE AdminForms

Type(a) ==
  /\ ShowsField(a) /\ Len(typed) < MaxTyped
  /\ page' = [page EXCEPT !.amounts[a] = Len(typed) + 1]
  /\ typed' = Append(typed, page.seat)
  /\ UNCHANGED <<hall, players, view, sent, booked, crossed, lost>>

\* The list of candidates leaves out who sits at the table as shown.
Candidates == {p \in Others : \A s \in Seats : Vacant(s) \/ players[view.at[s]] # p}

ChooseMode ==
  /\ DialogOpen /\ Vacant(page.seat) /\ page.admin
  /\ \E m \in Modes : OnPage([page EXCEPT !.mode = m])

UnderWay(amount) == \E m \in Mutations : sent[m] # None /\ sent[m].typed = amount

\* mutate: the button is off while the same mutation is pending.  The three kinds of sit
\* share a field, and the button of one is on while another is pending: nothing but
\* "crossed" takes notice.
Mutate(m, seat, session, player, amount) ==
  /\ sent[m] = None
  /\ sent' = [sent EXCEPT ![m] = [seat |-> seat, session |-> session, player |-> player,
                                  typed |-> amount, outcome |-> "open"]]
  /\ crossed' = IF amount # 0 /\ UnderWay(amount) THEN [crossed EXCEPT ![amount] = @ + 1]
                ELSE crossed
  /\ UNCHANGED <<hall, players, view, page, typed, booked, lost>>

BuyIn == page.amounts.buyIn
ShownSession == view.at[page.seat]

Sit == SelfForm /\ BuyIn # 0 /\ Mutate("sit", page.seat, 0, Me, BuyIn)
SitForUser ==
  /\ MemberForm /\ BuyIn # 0
  /\ \E p \in Candidates : Mutate("sitForUser", page.seat, 0, p, BuyIn)
SitGuest == GuestForm /\ BuyIn # 0 /\ Mutate("sitGuest", page.seat, 0, Walkin, BuyIn)
CashOut == OwnSeat /\ Mutate("cashOut", page.seat, ShownSession, Me, 0)
AdminCashOut == AdminForms /\ Mutate("adminCashOut", page.seat, ShownSession, None, 0)
Rebuy ==
  /\ AdminForms /\ page.amounts.rebuy # 0
  /\ Mutate("rebuy", page.seat, ShownSession, None, page.amounts.rebuy)
Adjust ==
  /\ AdminForms /\ page.amounts.adjust # 0
  /\ Mutate("adjust", page.seat, ShownSession, None, page.amounts.adjust)

\* "Fechar mesa" and its confirmation are there while the table is shown open.
CloseShown == page.admin /\ view.status # "CLOSED" /\ ~page.report /\ ~page.left

AskToClose == CloseShown /\ page.seat = None /\ OnPage([page EXCEPT !.confirming = TRUE])
CancelClose == CloseShown /\ page.confirming /\ OnPage([page EXCEPT !.confirming = FALSE])
CloseTable == CloseShown /\ page.confirming /\ Mutate("close", None, 0, None, 0)
ReopenTable ==
  /\ page.admin /\ view.status = "CLOSED" /\ page.seat = None /\ ~page.report /\ ~page.left
  /\ Mutate("reopen", None, 0, None, 0)

CloseReportAndLeave == page.report /\ OnPage([page EXCEPT !.report = FALSE, !.left = TRUE])

-----------------------------------------------------------------------------
(* Answers.                                                                *)

\* Mutant: the field keeps what was just booked.
KeptAmount(b, a) == b

SpentAmount(b, a) == [b EXCEPT !.amounts[a] = 0]

\* onSuccess, to the page as it is by now, whichever dialog is open.
AfterSuccess(m, outcome) ==
  CASE m \in Sitting \cup Leaving -> CloseSeatDialog(page)
    [] m \in {"rebuy", "adjust"} -> SpentAmount(page, m)
    [] m = "close" -> [page EXCEPT !.confirming = FALSE, !.report = (outcome = "done"),
                                   !.left = (outcome = "doneEmpty")]
    [] OTHER -> page

AfterError(m) == IF m = "close" THEN [page EXCEPT !.confirming = FALSE] ELSE page

Answered(m) ==
  /\ sent[m] # None /\ sent[m].outcome # "open" /\ ~page.left
  /\ page' = IF sent[m].outcome = "refused" THEN AfterError(m) ELSE AfterSuccess(m, sent[m].outcome)
  /\ sent' = [sent EXCEPT ![m] = None]
  /\ UNCHANGED <<hall, players, view, typed, booked, crossed, lost>>

\* The connection breaks, before or after the request was served.
AnswerLost(m) ==
  LET q == sent[m]
  IN  /\ q # None /\ ~page.left /\ lost < MaxLost
      /\ page' = AfterError(m)
      /\ sent' = [sent EXCEPT ![m] = None]
      /\ lost' = lost + 1
      /\ UNCHANGED <<hall, players, view, typed, booked, crossed>>

Click ==
  \/ Dismiss \/ ChooseMode
  \/ \E s \in Seats : SelectSeat(s)
  \/ \E a \in Amounts : Type(a)
  \/ Sit \/ SitForUser \/ SitGuest \/ CashOut \/ AdminCashOut \/ Rebuy \/ Adjust
  \/ AskToClose \/ CancelClose \/ CloseTable \/ ReopenTable \/ CloseReportAndLeave

Next ==
  \/ Poll \/ Elsewhere \/ Click
  \/ \E m \in Mutations : Serve(m) \/ Answered(m) \/ AnswerLost(m)

Spec == Init /\ [][Next]_vars

-----------------------------------------------------------------------------

\* An amount is only ever sent for the seat in whose dialog it was typed, although all
\* seats share the fields, dialogs are closed by answers to earlier ones, and a seat
\* may change hands while its dialog is open.
AmountsKeepTheirSeat ==
  \A m \in Mutations :
    sent[m] # None /\ sent[m].typed # 0 => typed[sent[m].typed] = sent[m].seat

\* An amount that was typed once is booked once, and again only by a user who clicked
\* again after an answer was lost, or sent it as another kind of sit while one was under
\* way: every click has a key of its own, so nothing but a seat that is taken by then, or
\* a player who sits by then, has the second one refused.
BookedOnce == \A n \in 1 .. MaxTyped : booked[n] <= 1 + lost + crossed[n]
=============================================================================
