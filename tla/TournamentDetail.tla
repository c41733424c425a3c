--------------------------- MODULE TournamentDetail ---------------------------
(***************************************************************************)
(* The page of a tournament (tournament-detail.tsx) in front of the         *)
(* service.  One field holds the place of whoever is being eliminated, one  *)
(* box the staff bonus of whoever is being registered; both outlive the     *)
(* form they were filled in, and the answers find the page as it is then.   *)
(***************************************************************************)
EXTENDS Integers, Sequences, FiniteSets

CONSTANTS None,
          Me,               \* the user of the page
          Others,           \* other members of the club
          Admins,           \* the values of isAdmin to look at
          MaxPlayers,
          MaxEntries,       \* bound: entries of the tournament
          MaxSent,          \* bound: requests of the page
          MaxTyped          \* bound: places typed

VARIABLES tour,             \* the tournament's status, and its entries in order
          view,             \* tour as of the last answer to the query
          page,             \* the React state
          sent,             \* requests that are pending
          count,            \* how many there were
          typed,            \* how many places were typed
          known             \* those of them the page knows to be given

vars == <<tour, view, page, sent, count, typed, known>>

Alive == {"REGISTERED", "PLAYING"}
Running(t) == {i \in DOMAIN t.entries : t.entries[i].status \in Alive}
EntriesOf(t, p) == {i \in DOMAIN t.entries : t.entries[i].player = p}

\* place is the number of the typed text, 0 while the field is empty; bonus says for
\* whom the box was ticked.
Init ==
  /\ tour = [status |-> "REGISTERING", entries |-> <<>>]
  /\ view = tour
  /\ \E admin \in Admins :
       page = [admin |-> admin, eliminating |-> 0, place |-> 0, confirming |-> None,
               bonus |-> None, searching |-> FALSE]
  /\ sent = {}
  /\ count = 0
  /\ typed = 0
  /\ known = {}

-----------------------------------------------------------------------------
(* TournamentService, and everybody else who uses it.                      *)

MayRegister(p) ==
  /\ tour.status = "REGISTERING"
  /\ Cardinality(Running(tour)) < MaxPlayers /\ Len(tour.entries) < MaxEntries
  /\ p # None => EntriesOf(tour, p) \cap Running(tour) = {}

Register(p) == tour' = [tour EXCEPT !.entries = Append(@, [player |-> p, status |-> "REGISTERED"])]

\* Each guest is a user of its own, and has one entry.
Cancelled(q) == Running(tour) \cap (IF q.player = None THEN {q.entry} ELSE EntriesOf(tour, q.player))

MayUnregister(q) == tour.status = "REGISTERING" /\ Cancelled(q) # {}

Unregister(q) == \E i \in Cancelled(q) : tour' = [tour EXCEPT !.entries[i].status = "REFUNDED"]

MayEliminate(i) == tour.entries[i].status \notin {"ELIMINATED", "PAID"}

Eliminate(i) == tour' = [tour EXCEPT !.entries[i].status = "ELIMINATED", !.status = "RUNNING"]

MayFinish == tour.status \in {"REGISTERING", "RUNNING"} /\ Cardinality(Running(tour)) <= 1

Finish == tour' = [tour EXCEPT !.status = "FINISHED"]

Accepts(q) ==
  CASE q.op \in {"register", "registerForUser", "registerGuest"} -> MayRegister(q.player)
    [] q.op \in {"unregister", "unregisterForUser"} -> MayUnregister(q)
    [] q.op = "eliminate" -> MayEliminate(q.entry)
    [] q.op = "finish" -> MayFinish

CarryOut(q) ==
  CASE q.op \in {"register", "registerForUser", "registerGuest"} -> Register(q.player)
    [] q.op \in {"unregister", "unregisterForUser"} -> Unregister(q)
    [] q.op = "eliminate" -> Eliminate(q.entry)
    [] q.op = "finish" -> Finish

Serve(q) ==
  /\ q.outcome = "open"
  /\ IF Accepts(q) THEN CarryOut(q) ELSE UNCHANGED tour
  /\ sent' = (sent \ {q}) \cup {[q EXCEPT !.outcome = IF Accepts(q) THEN "done" ELSE "refused"]}
  /\ UNCHANGED <<view, page, count, typed, known>>

Elsewhere ==
  /\ \/ \E p \in Others \cup {None} : MayRegister(p) /\ Register(p)
     \/ \E i \in Running(tour) : Eliminate(i)
     \/ MayFinish /\ Finish
  /\ UNCHANGED <<view, page, sent, count, typed, known>>

\* The query is asked again after every success and when the window gets the focus.
Refetch == view' = tour /\ UNCHANGED <<tour, page, sent, count, typed, known>>

-----------------------------------------------------------------------------
(* What the page shows, and lets its user do.                              *)

OnPage(b) == page' = b /\ UNCHANGED <<tour, view, sent, count, typed, known>>

Pending(op) == {q \in sent : q.op = op}

\* A mutation knows the last of its requests, which is pending or not; an earlier one
\* goes on all the same.
Overtaken(op) == {[q EXCEPT !.newest = @ /\ q.op # op] : q \in sent}

Mutate(op, player, entry, filled) ==
  /\ count < MaxSent
  /\ sent' = Overtaken(op) \cup
       {[number |-> count, newest |-> TRUE, op |-> op, player |-> player, entry |-> entry,
         filled |-> filled, outcome |-> "open"]}
  /\ count' = count + 1
  /\ UNCHANGED <<tour, view, page, typed, known>>

\* Late registration is open or not for all that matters here; the server decides.
RegistrationOpen == view.status = "REGISTERING" /\ Cardinality(Running(view)) < MaxPlayers

MyEntry == {i \in EntriesOf(view, Me) : view.entries[i].status # "REFUNDED"}

RegisterMyself ==
  /\ MyEntry = {} /\ RegistrationOpen /\ Pending("register") = {}
  /\ Mutate("register", Me, 0, None)

CancelMine ==
  /\ view.status = "REGISTERING" /\ Pending("unregister") = {}
  /\ \E i \in MyEntry : view.entries[i].status = "REGISTERED"
  /\ Mutate("unregister", Me, 0, None)

FinishTournament ==
  /\ page.admin /\ view.status \in {"REGISTERING", "RUNNING"} /\ Pending("finish") = {}
  /\ Mutate("finish", None, 0, None)

\* memberCandidates: whoever has an entry is left out, also when it was refunded.
Candidates == {p \in Others \cup {Me} : EntriesOf(view, p) = {}}

Search == page.admin /\ RegistrationOpen /\ OnPage([page EXCEPT !.searching = TRUE])

\* Mutant: the box of the last dialog is still ticked.
StillTicked(b, p) == [b EXCEPT !.confirming = p]

OpenConfirmRegister(b, p) == [b EXCEPT !.bonus = None, !.confirming = p]

OpenConfirm(p) ==
  /\ page.admin /\ RegistrationOpen /\ page.searching /\ page.confirming = None
  /\ OnPage(OpenConfirmRegister(page, p))

TickBonus ==
  /\ page.confirming # None
  /\ OnPage([page EXCEPT !.bonus = IF @ = None THEN page.confirming ELSE None])

CancelConfirm == page.confirming # None /\ OnPage([page EXCEPT !.confirming = None])

ConfirmMember ==
  /\ page.confirming # None /\ Pending("registerForUser") = {}
  /\ Mutate("registerForUser", page.confirming, 0, page.bonus)

RegisterGuest ==
  /\ page.admin /\ RegistrationOpen /\ Pending("registerGuest") = {}
  /\ Mutate("registerGuest", None, 0, None)

\* A row of the list.  The form of one entry takes the place of that of another.
StartEliminate(i) ==
  /\ page.admin /\ page.confirming = None
  /\ view.entries[i].status = "REGISTERED" /\ page.eliminating # i
  /\ OnPage([page EXCEPT !.eliminating = i])

FormShown == page.eliminating # 0 /\ view.entries[page.eliminating].status = "REGISTERED"

TypePlace ==
  /\ FormShown /\ page.confirming = None /\ typed < MaxTyped
  /\ page' = [page EXCEPT !.place = typed + 1]
  /\ typed' = typed + 1
  /\ UNCHANGED <<tour, view, sent, count, known>>

CancelEliminate == FormShown /\ page.confirming = None /\ OnPage([page EXCEPT !.eliminating = 0])

SubmitEliminate ==
  /\ FormShown /\ page.confirming = None /\ Pending("eliminate") = {}
  /\ Mutate("eliminate", None, page.eliminating, page.place)

\* The button is off only while the last of its requests is pending and for the same user.
CancelEntry(i) ==
  LET p == view.entries[i].player
      guest == IF p = None THEN i ELSE 0
  IN  /\ page.admin /\ page.confirming = None /\ page.eliminating # i
      /\ view.entries[i].status = "REGISTERED" /\ view.status = "REGISTERING"
      /\ \A q \in Pending("unregisterForUser") :
           q.newest => q.player # p \/ q.entry # guest
      /\ Mutate("unregisterForUser", p, guest, None)

-----------------------------------------------------------------------------
(* Answers.                                                                *)

\* Mutant: the form closes and keeps the place.
ClosedOnly(b) == [b EXCEPT !.eliminating = 0]

Eliminated(b) == [b EXCEPT !.eliminating = 0, !.place = 0]

AfterSuccess(op) ==
  CASE op = "eliminate" -> Eliminated(page)
    [] op = "registerForUser" -> [page EXCEPT !.searching = FALSE, !.confirming = None]
    [] OTHER -> page

Answered(q) ==
  /\ q.outcome # "open"
  /\ page' = IF q.outcome = "done" THEN AfterSuccess(q.op) ELSE page
  /\ known' = IF q.op = "eliminate" /\ q.outcome = "done" THEN known \cup ({q.filled} \ {0}) ELSE known
  /\ sent' = sent \ {q}
  /\ UNCHANGED <<tour, view, count, typed>>

\* The connection breaks, before or after the request was served.
AnswerLost(q) ==
  /\ sent' = sent \ {q}
  /\ UNCHANGED <<tour, view, page, count, typed, known>>

Click ==
  \/ RegisterMyself \/ CancelMine \/ FinishTournament \/ Search
  \/ \E p \in Candidates : OpenConfirm(p)
  \/ TickBonus \/ CancelConfirm \/ ConfirmMember \/ RegisterGuest
  \/ \E i \in DOMAIN view.entries : StartEliminate(i) \/ CancelEntry(i)
  \/ TypePlace \/ CancelEliminate \/ SubmitEliminate

Next ==
  \/ Elsewhere \/ Refetch \/ Click
  \/ \E q \in sent : Serve(q) \/ Answered(q) \/ AnswerLost(q)

Spec == Init /\ [][Next]_vars

-----------------------------------------------------------------------------

\* A staff bonus is only charged to the member in whose dialog it was ticked, although
\* all dialogs share one box and the answer to one registration closes whichever is open.
BonusIsTheirOwn ==
  \A q \in Pending("registerForUser") : q.filled \in {None, q.player}

\* A place that was typed is not sent once more after the page knows that it was given,
\* whichever form is open by then; it may be when the form it was typed in was left, or
\* when the answer was lost.
PlaceIsSpent == \A q \in Pending("eliminate") : q.filled \notin known
=============================================================================
