----------------------- MODULE TournamentPrizeProofs -----------------------
(***************************************************************************)
(* Why places count down, and why prizes come from the pot and stay paid,  *)
(* in tournaments that take no entries once they run, for any numbers of   *)
(* users, tournaments, entries, requests and settings.                     *)
(*                                                                         *)
(* CountInv relates places to who is still in.  PrizeInv relates what a    *)
(* finish decided before it took the lock to what it finds under it: who   *)
(* holds a place keeps it, so of two finishes that decided to pay, the     *)
(* second meets an entry that was paid.                                    *)
(***************************************************************************)
EXTENDS TournamentProofs

\* Nobody types a place, cancels or edits, and nobody enters a tournament that runs.
Freezeouts ==
  /\ Positions = {} /\ {"unregister", "update"} \cap Workload = {}
  /\ \A n \in ValidSettings : ~Settings[n].late /\ ~Settings[n].reentry

\* Every grade pays somebody who is out before the end.
EveryGradePaysMore == \A n \in ValidSettings : \E p \in DOMAIN Settings[n].prizes : p > 1

\* No grade adds up to more than 100%.
EveryGradeFits ==
  \A n \in ValidSettings :
    SumFunctionOnSet(Settings[n].prizes, DOMAIN Settings[n].prizes) <= 10000

-----------------------------------------------------------------------------
(* The invariant about places.                                             *)

Out(t) == {e \in EntriesOf(t) : entries[e].status \in {"ELIMINATED", "PAID"}}

\* The places of those who are out, from the first of them up to the last one still in.
CountDown(t) ==
  /\ \A e \in EntriesOf(t) : entries[e].status \in {"REGISTERED", "ELIMINATED", "PAID"}
  /\ {entries[e].position : e \in Out(t)}
       = Cardinality(AliveIn(t)) + 1 .. Cardinality(AliveIn(t)) + Cardinality(Out(t))
  /\ \A e, f \in Out(t) : entries[e].position = entries[f].position => e = f

\* A request of the routes that are left, without a place of the admin's.
Plain(q) == q.pc # "idle" => q.op \notin {"unregister", "update"} /\ q.position = 0

\* Whoever enters found the tournament open for entries, under the lock.
Entering(q) ==
  q.op \in RegisterOps /\ q.pc \in HoldingSteps => tours[q.tour].status = "REGISTERING"

CountSound(t) ==
  /\ tours[t].status # "NONE" => tours[t].setting \in ValidSettings
  /\ tours[t].status = "REGISTERING" => \A e \in EntriesOf(t) : entries[e].status = "REGISTERED"
  /\ tours[t].status = "RUNNING" =>
       CountDown(t) /\ \A e \in EntriesOf(t) : entries[e].status # "PAID"

CountInv ==
  /\ \A t \in Tournaments : CountSound(t)
  /\ \A r \in Reqs : Plain(req[r]) /\ Entering(req[r])

-----------------------------------------------------------------------------
(* The invariant about prizes.                                             *)

Prizes(t) == Setting(t).prizes

\* Of an entry with this place, or the last one still in, whose place is the first.
Holds(t, e, p) ==
  /\ e \in EntriesOf(t)
  /\ (e \in Out(t) /\ entries[e].position = p) \/ (p = 1 /\ AliveIn(t) = {e})

\* Who was paid has a place of the grade, and no more than its share of the pool; once
\* somebody was, every place of the grade was.  Before it is opened there is no pool.
PlacesSound(t) ==
  /\ tours[t].status = "NONE" => tours[t].pool = 0
  /\ \A e \in EntriesOf(t) :
       /\ entries[e].paid =>
            /\ tours[t].status = "FINISHED" /\ entries[e].position \in DOMAIN Prizes(t)
            /\ 10000 * entries[e].prize
                 <= tours[t].pool * Prizes(t)[entries[e].position] + 5000
       /\ entries[e].status = "REGISTERED" /\ entries[e].position # 0 =>
            entries[e].position = 1 /\ AliveIn(t) = {e} /\ tours[t].status = "FINISHED"
  /\ tours[t].status = "FINISHED" =>
       /\ CountDown(t)
       /\ \A p \in DOMAIN Prizes(t) :
            \E e \in EntriesOf(t) : entries[e].paid /\ entries[e].position = p

\* The ledgers have one leg for an entry that was paid, and none for another.
PaidOut(e) ==
  /\ entries[e].paid <=> entries[e].status = "PAID"
  /\ entries[e].paid =>
       \E x : PayoutsOf(e) = {x} /\ x.amount = entries[e].prize /\ x.key = PayoutKey(e)
  /\ ~entries[e].paid => PayoutsOf(e) = {}

\* What a finish decided is still so, or was done by another finish: it pays every
\* place of the grade, or nothing after another finish did.
Decision(q, t) ==
  /\ tours[t].status \in {"RUNNING", "FINISHED"}
  /\ q.payouts = <<>> => tours[t].status = "FINISHED"
  /\ \A i \in DOMAIN q.payouts :
       /\ Holds(t, q.payouts[i].entry, q.payouts[i].position)
       /\ q.payouts[i].position \in DOMAIN Prizes(t)
       /\ q.payouts[i].amount = Share(q.pool, Prizes(t)[q.payouts[i].position])
       /\ \A j \in DOMAIN q.payouts :
            q.payouts[j].position = q.payouts[i].position => i = j
  /\ q.payouts # <<>> =>
       \A p \in DOMAIN Prizes(t) : \E i \in DOMAIN q.payouts : q.payouts[i].position = p
  /\ q.winner # 0 => Holds(t, q.winner, 1)

\* Nobody else has paid the winners whose wallets it has locked.
StillDue(q) ==
  q.pc = "pay" =>
    \A i \in DOMAIN q.payouts : i < q.next => ~entries[q.payouts[i].entry].paid

FinishSound(q) ==
  q.pc # "idle" /\ q.op = "finish" =>
    /\ q.pool <= tours[q.tour].pool
    /\ q.pc = "entries" => q.setting = tours[q.tour].setting
    /\ q.pc \in {"lock", "pay"} => Decision(q, q.tour)
    /\ StillDue(q)

PrizeInv ==
  /\ \A t \in Tournaments : PlacesSound(t)
  /\ \A e \in Entries : PaidOut(e)
  /\ \A r \in Reqs : FinishSound(req[r])

-----------------------------------------------------------------------------
(* What a step does to the rows.                                           *)

\* No prize is posted.
NothingPaid == \A e \in Entries : PayoutsOf(e)' = PayoutsOf(e)

Still == UNCHANGED <<tours, entries>> /\ NothingPaid

OthersStill(t) == \A z \in Tournaments \ {t} : tours'[z] = tours[z]

Opens(t) ==
  /\ t \in Tournaments /\ tours[t].status = "NONE" /\ OthersStill(t)
  /\ tours'[t].status = "REGISTERING" /\ tours'[t].setting \in ValidSettings
  /\ UNCHANGED entries /\ NothingPaid

Enters(t, e) ==
  /\ Open(t) /\ tours[t].status = "REGISTERING" /\ OthersStill(t)
  /\ e \in Entries /\ entries[e].status = "NONE"
  /\ tours'[t].status = "REGISTERING" /\ tours'[t].setting = tours[t].setting
  /\ tours'[t].pool >= tours[t].pool
  /\ \A f \in Entries \ {e} : entries'[f] = entries[f]
  /\ entries'[e].status = "REGISTERED" /\ entries'[e].tour = t
  /\ ~entries'[e].paid /\ entries'[e].position = 0
  /\ NothingPaid

Leaves(t, e) ==
  /\ Open(t) /\ TourFree(t) /\ EntryIn(e, t) /\ OthersStill(t)
  /\ entries[e].status \notin {"NONE", "ELIMINATED", "PAID"}
  /\ tours'[t].status = IF tours[t].status = "REGISTERING" THEN "RUNNING" ELSE tours[t].status
  /\ tours'[t].setting = tours[t].setting /\ tours'[t].pool = tours[t].pool
  /\ \A f \in Entries \ {e} : entries'[f] = entries[f]
  /\ entries'[e].status = "ELIMINATED" /\ entries'[e].tour = t
  /\ entries'[e].position = Cardinality(AliveIn(t) \ {e}) + 1
  /\ entries'[e].paid = entries[e].paid /\ entries'[e].prize = entries[e].prize
  /\ NothingPaid

\* A prize is written to the row that the payouts of the request name.
PaidBy(q, e) == \E i \in DOMAIN q.payouts : q.payouts[i].entry = e

\* What the payout i of the request posts.
LegOf(q, i, e, x) ==
  /\ q.payouts[i].entry = e
  /\ x = Entry(PayoutKey(e), "TOURNAMENT_PAYOUT", q.payouts[i].amount,
               BalanceAfter(entries[e].user, q.payouts, i), e)

Pays(q, t) ==
  /\ q.op = "finish" /\ q.pc = "pay" /\ q.tour = t /\ q.next > Len(q.payouts)
  /\ Open(t) /\ OthersStill(t)
  /\ tours'[t].status = "FINISHED"
  /\ tours'[t].setting = tours[t].setting /\ tours'[t].pool = tours[t].pool
  /\ \A e \in Entries :
       /\ entries'[e].tour = entries[e].tour
       /\ ~PaidBy(q, e) =>
            /\ e # q.winner => entries'[e] = entries[e]
            /\ e = q.winner => entries'[e] = [entries[e] EXCEPT !.position = 1]
       /\ PaidBy(q, e) =>
            /\ entries'[e].status = "PAID" /\ entries'[e].paid
            /\ \E i \in DOMAIN q.payouts :
                 /\ q.payouts[i].entry = e
                 /\ entries'[e].prize = q.payouts[i].amount
                 /\ entries'[e].position = q.payouts[i].position
  /\ \A e \in Entries : \A x :
       x \in PayoutsOf(e)' <=> x \in PayoutsOf(e) \/ \E i \in DOMAIN q.payouts : LegOf(q, i, e, x)

RowStep ==
  \/ Still
  \/ \E t : Opens(t)
  \/ \E t, e : Enters(t, e) \/ Leaves(t, e)
  \/ \E r \in Reqs : Pays(req[r], req[r].tour) /\ Finish(r)

-----------------------------------------------------------------------------
(* What a step does to a request.                                          *)

Begins(old, new) ==
  /\ tours' = tours
  /\ old.pc = "idle" /\ new.op \in Workload /\ new.position \in Positions \cup {0}
  /\ new.pc \notin HoldingSteps
  /\ new.op = "finish" => new.pc = "grade" /\ new.pool = tours[new.tour].pool

\* A request goes on, and keeps this of what it knows.
Same(old, new) ==
  /\ old.pc # "idle"
  /\ new.op = old.op /\ new.position = old.position /\ new.tour = old.tour
  /\ new.pool = old.pool

MayEnter(t) == tours[t].status = "REGISTERING" \/ Setting(t).late \/ Setting(t).reentry

Continues(old, new) ==
  /\ old.op # "finish" /\ Same(old, new)
  /\ old.op \in RegisterOps /\ new.pc \in HoldingSteps =>
       old.pc \in HoldingSteps \/ (MayEnter(old.tour) /\ tours' = tours)

ReadsGrade(old, new) ==
  /\ old.op = "finish" /\ Same(old, new) /\ new.pc = "entries"
  /\ new.setting = tours[old.tour].setting

\* What a finish decides is what the entries and the grade say.
Decided(q, t, prizes, payouts, winner) ==
  \/ EntriesOf(t) # {} /\ NotRefunded(t) = {}
  \/ /\ ~(Cardinality(AliveIn(t)) > 1 /\ 1 \in DOMAIN prizes)
     /\ \E holder \in Holders(t, prizes) : payouts = Payouts(q, holder, prizes)
     /\ winner = IF Cardinality(AliveIn(t)) = 1 THEN CHOOSE e \in AliveIn(t) : TRUE ELSE 0

ReadsEntries(old, new) ==
  /\ UNCHANGED <<tours, entries>>
  /\ old.op = "finish" /\ Same(old, new) /\ old.pc = "entries" /\ new.pc = "lock"
  /\ Decided(old, old.tour, Settings[old.setting].prizes, new.payouts, new.winner)

LocksTour(old, new) ==
  /\ old.op = "finish" /\ Same(old, new) /\ old.pc = "lock" /\ new.pc = "pay" /\ new.next = 1
  /\ new.payouts = old.payouts /\ new.winner = old.winner

LocksWinner(old, new) ==
  /\ entries' = entries
  /\ old.op = "finish" /\ Same(old, new) /\ old.pc = "pay" /\ new.pc = "pay"
  /\ new.payouts = old.payouts /\ new.winner = old.winner
  /\ old.next <= Len(old.payouts) /\ new.next = old.next + 1
  /\ KeyUnused(PayoutKey(old.payouts[old.next].entry))

Moves(old, new) ==
  \/ new = old \/ new = Idle \/ Begins(old, new) \/ Continues(old, new)
  \/ ReadsGrade(old, new) \/ ReadsEntries(old, new) \/ LocksTour(old, new)
  \/ LocksWinner(old, new)

\* Only the request that takes a step moves.
LEMMA OneMoves ==
  ASSUME DeskInv, NEW r \in Reqs, NEW q, req' = [req EXCEPT ![r] = q], Moves(req[r], q)
  PROVE  \A s \in Reqs : Moves(req[s], req'[s])
<1>1. req \in [Reqs -> TourRequests]
  BY DEF DeskInv, Desk, RequestsTyped
<1>2. req'[r] = q /\ \A s \in Reqs \ {r} : req'[s] = req[s]
  BY <1>1
<1> QED
  BY <1>2 DEF Moves

\* A request is answered.
LEMMA EndMoves ==
  ASSUME DeskInv, NEW r \in Reqs, Finish(r)
  PROVE  \A s \in Reqs : Moves(req[s], req'[s])
BY OneMoves DEF Finish, Moves

\* A request arrives.
LEMMA ArrivalMoves ==
  ASSUME DeskInv, NEW r \in Reqs, Arrive(r)
  PROVE  \A s \in Reqs : Moves(req[s], req'[s])
<1>1. ASSUME NEW q, Begin(r, q), q.position \in Positions \cup {0}, q.pc \notin HoldingSteps,
             q.op = "finish" => q.pc = "grade" /\ q.pool = tours[q.tour].pool
      PROVE  \A s \in Reqs : Moves(req[s], req'[s])
  <2>1. req[r].pc = "idle" /\ q.op \in Workload /\ req' = [req EXCEPT ![r] = q]
    BY <1>1 DEF Begin
  <2>2. Moves(req[r], q)
    BY <1>1, <2>1 DEF Moves, Begins, Begin, tourVars
  <2> QED
    BY <2>1, <2>2, OneMoves
<1>2. CASE RegisterEntry(r)
  <2>1. PICK u, t, k, b :
          Begin(r, [Idle EXCEPT !.pc = "lookup", !.op = "register", !.tour = t, !.user = u,
                           !.key = k, !.bonus = b])
    BY <1>2 DEF RegisterEntry
  <2>2. PICK q : q = [Idle EXCEPT !.pc = "lookup", !.op = "register", !.tour = t, !.user = u,
                           !.key = k, !.bonus = b]
    OBVIOUS
  <2>3. q.position = 0 /\ q.pc = "lookup" /\ q.op = "register"
    BY <2>1, <2>2 DEF Idle
  <2> QED
    BY <1>1, <2>1, <2>2, <2>3 DEF HoldingSteps
<1>3. CASE RegisterGuestEntry(r)
  <2>1. PICK t, k, b :
          Begin(r, [Idle EXCEPT !.pc = "lookup", !.op = "registerGuest", !.tour = t,
                           !.key = k, !.bonus = b])
    BY <1>3 DEF RegisterGuestEntry
  <2>2. PICK q : q = [Idle EXCEPT !.pc = "lookup", !.op = "registerGuest", !.tour = t,
                           !.key = k, !.bonus = b]
    OBVIOUS
  <2>3. q.position = 0 /\ q.pc = "lookup" /\ q.op = "registerGuest"
    BY <2>1, <2>2 DEF Idle
  <2> QED
    BY <1>1, <2>1, <2>2, <2>3 DEF HoldingSteps
<1>4. CASE UnregisterEntry(r)
  <2>1. PICK u, t, k :
          Begin(r, [Idle EXCEPT !.pc = "lookup", !.op = "unregister", !.tour = t, !.user = u,
                           !.key = k])
    BY <1>4 DEF UnregisterEntry
  <2>2. PICK q : q = [Idle EXCEPT !.pc = "lookup", !.op = "unregister", !.tour = t, !.user = u,
                           !.key = k]
    OBVIOUS
  <2>3. q.position = 0 /\ q.pc = "lookup" /\ q.op = "unregister"
    BY <2>1, <2>2 DEF Idle
  <2> QED
    BY <1>1, <2>1, <2>2, <2>3 DEF HoldingSteps
<1>5. CASE EliminateEntry(r)
  <2>1. PICK e \in Entries, p \in Positions \cup {0} :
          Begin(r, [Idle EXCEPT !.pc = "lock", !.op = "eliminate", !.tour = entries[e].tour,
                           !.entry = e, !.position = p])
    BY <1>5 DEF EliminateEntry
  <2>2. PICK q : q = [Idle EXCEPT !.pc = "lock", !.op = "eliminate", !.tour = entries[e].tour,
                           !.entry = e, !.position = p]
    OBVIOUS
  <2>3. q.position = p /\ q.pc = "lock" /\ q.op = "eliminate"
    BY <2>1, <2>2 DEF Idle
  <2> QED
    BY <1>1, <2>1, <2>2, <2>3 DEF HoldingSteps
<1>6. CASE RedrawTables(r)
  <2>1. PICK t :
          Begin(r, [Idle EXCEPT !.pc = "lock", !.op = "redraw", !.tour = t])
    BY <1>6 DEF RedrawTables
  <2>2. PICK q : q = [Idle EXCEPT !.pc = "lock", !.op = "redraw", !.tour = t]
    OBVIOUS
  <2>3. q.position = 0 /\ q.pc = "lock" /\ q.op = "redraw"
    BY <2>1, <2>2 DEF Idle
  <2> QED
    BY <1>1, <2>1, <2>2, <2>3 DEF HoldingSteps
<1>7. CASE UpdateTournament(r)
  <2>1. PICK t, n :
          Begin(r, [Idle EXCEPT !.pc = "update", !.op = "update", !.tour = t, !.setting = n])
    BY <1>7 DEF UpdateTournament
  <2>2. PICK q : q = [Idle EXCEPT !.pc = "update", !.op = "update", !.tour = t, !.setting = n]
    OBVIOUS
  <2>3. q.position = 0 /\ q.pc = "update" /\ q.op = "update"
    BY <2>1, <2>2 DEF Idle
  <2> QED
    BY <1>1, <2>1, <2>2, <2>3 DEF HoldingSteps
<1>8. CASE FinishTournament(r)
  <2>1. PICK t :
          Begin(r, [Idle EXCEPT !.pc = "grade", !.op = "finish", !.tour = t,
                             !.pool = tours[t].pool])
    BY <1>8 DEF FinishTournament
  <2>2. PICK q :
          q = [Idle EXCEPT !.pc = "grade", !.op = "finish", !.tour = t, !.pool = tours[t].pool]
    OBVIOUS
  <2>3. q.position = 0 /\ q.pc = "grade" /\ q.op = "finish" /\ q.tour = t /\ q.pool = tours[t].pool
    BY <2>1, <2>2 DEF Idle
  <2> QED
    BY <1>1, <2>1, <2>2, <2>3 DEF HoldingSteps
<1> QED
  BY <1>2, <1>3, <1>4, <1>5, <1>6, <1>7, <1>8 DEF Arrive

\* A request other than a finish goes on.
LEMMA ContinueMoves ==
  ASSUME DeskInv, NEW r \in Reqs, NEW pc, req[r].op # "finish", req[r].pc # "idle",
         \/ Goto(r, pc)
         \/ \E e : req' = [req EXCEPT ![r].pc = pc, ![r].entry = e],
         req[r].op \in RegisterOps /\ pc \in HoldingSteps =>
           req[r].pc \in HoldingSteps \/ (MayEnter(req[r].tour) /\ tours' = tours)
  PROVE  \A s \in Reqs : Moves(req[s], req'[s])
<1>1. req \in [Reqs -> TourRequests] /\ req[r] \in TourRequests
  BY OwnShape DEF DeskInv, Desk, RequestsTyped
<1>2. \E q : req' = [req EXCEPT ![r] = q] /\ Same(req[r], q) /\ q.pc = pc
  <2>1. CASE Goto(r, pc)
    <3>1. PICK q : q = [req[r] EXCEPT !.pc = pc]
      OBVIOUS
    <3>2. req' = [req EXCEPT ![r] = q] /\ Same(req[r], q) /\ q.pc = pc
      BY <1>1, <2>1, <3>1 DEF Goto, TourRequests, Same
    <3> QED
      BY <3>2
  <2>2. CASE \E e : req' = [req EXCEPT ![r].pc = pc, ![r].entry = e]
    <3>1. PICK e : req' = [req EXCEPT ![r].pc = pc, ![r].entry = e]
      BY <2>2
    <3>2. PICK q : q = [req[r] EXCEPT !.pc = pc, !.entry = e]
      OBVIOUS
    <3>3. req' = [req EXCEPT ![r] = q] /\ Same(req[r], q) /\ q.pc = pc
      BY <1>1, <3>1, <3>2 DEF TourRequests, Same
    <3> QED
      BY <3>3
  <2> QED
    BY <2>1, <2>2
<1>3. PICK q : req' = [req EXCEPT ![r] = q] /\ Same(req[r], q) /\ q.pc = pc
  BY <1>2
<1>4. Moves(req[r], q)
  BY <1>3 DEF Moves, Continues
<1> QED
  BY <1>3, <1>4, OneMoves

\* What is checked under the lock of a tournament before an entry.
LEMMA LockAndCheckMoves ==
  ASSUME DeskInv, NEW r \in Reqs, LockAndCheck(r)
  PROVE  \A s \in Reqs : Moves(req[s], req'[s])
<1>1. PICK q : q = req[r]
  OBVIOUS
<1>2. /\ q.op \in RegisterOps \cup {"unregister"} /\ q.op # "finish" /\ q.pc = "lock"
      /\ tours' = tours
  BY <1>1, Zenon DEF LockAndCheck, RegisterOps, tourVars
<1>3. CASE Finish(r)
  BY <1>3, EndMoves
<1>4. CASE ~Finish(r)
  <2>1. \E n : q.op \in RegisterOps => Eligible(q.tour, n, q.bonus)
    <3>1. "unregister" \notin RegisterOps
      BY DEF RegisterOps
    <3>2. CASE q.op = "unregister"
      BY <3>1, <3>2
    <3>3. CASE q.op # "unregister"
      BY <1>1, <1>4, <3>3, Zenon DEF LockAndCheck
    <3> QED
      BY <3>2, <3>3
  <2>2. PICK n : q.op \in RegisterOps => Eligible(q.tour, n, q.bonus)
    BY <2>1
  <2>4. \E pc : \E e : req' = [req EXCEPT ![r].pc = pc, ![r].entry = e]
    BY <1>4, ZenonT(60) DEF LockAndCheck
  <2>3. q.op \in RegisterOps => MayEnter(q.tour)
    BY <2>2 DEF Eligible, RegistrationAllowed, OpenForEntries, MayEnter
  <2> QED
    BY <1>1, <1>2, <2>3, <2>4, ContinueMoves
<1> QED
  BY <1>3, <1>4

\* A finish reads its grade, or takes the lock of its tournament or of a winner.
LEMMA FinishMoves ==
  ASSUME DeskInv, NEW r \in Reqs, FinishReadGrade(r) \/ FinishLock(r) \/ LockNextWinner(r)
  PROVE  \A s \in Reqs : Moves(req[s], req'[s])
<1>1. PICK old : old = req[r]
  OBVIOUS
<1>2. /\ req \in [Reqs -> TourRequests] /\ old \in TourRequests /\ ShapeOf(old)
  BY <1>1, OwnShape DEF DeskInv, Desk, RequestsTyped
<1>3. old.pc \in {"grade", "pay"} => old.op = "finish"
  BY <1>2 DEF ShapeOf, Ops, RegisterOps
<1>4. CASE FinishReadGrade(r)
  <2>1. PICK n : n = tours[old.tour].setting
    OBVIOUS
  <2>2. PICK q : q = [old EXCEPT !.pc = "entries", !.setting = n]
    OBVIOUS
  <2>3. req' = [req EXCEPT ![r] = q] /\ old.pc = "grade"
    BY <1>1, <1>2, <1>4, <2>1, <2>2 DEF FinishReadGrade
  <2>4. Same(old, q) /\ q.pc = "entries" /\ q.setting = n
    BY <1>2, <2>2, <2>3 DEF Same, TourRequests
  <2>5. Moves(old, q)
    BY <1>3, <2>1, <2>3, <2>4 DEF Moves, ReadsGrade
  <2> QED
    BY <1>1, <2>3, <2>5, OneMoves
<1>5. CASE FinishLock(r)
  <2>2. PICK q : q = [old EXCEPT !.pc = "pay", !.next = 1]
    OBVIOUS
  <2>3. req' = [req EXCEPT ![r] = q] /\ old.pc = "lock" /\ old.op = "finish"
    BY <1>1, <1>2, <1>5, <2>2 DEF FinishLock
  <2>4. /\ Same(old, q) /\ q.pc = "pay" /\ q.next = 1 /\ q.payouts = old.payouts
        /\ q.winner = old.winner
    BY <1>2, <2>2, <2>3 DEF Same, TourRequests
  <2>5. Moves(old, q)
    BY <2>3, <2>4 DEF Moves, LocksTour
  <2> QED
    BY <1>1, <2>3, <2>5, OneMoves
<1>6. CASE LockNextWinner(r)
  <2>1. PICK n : n = old.next + 1
    OBVIOUS
  <2>2. PICK q : q = [old EXCEPT !.next = n]
    OBVIOUS
  <2>3. /\ req' = [req EXCEPT ![r] = q] /\ old.pc = "pay" /\ old.next <= Len(old.payouts)
        /\ KeyUnused(PayoutKey(old.payouts[old.next].entry)) /\ entries' = entries
    BY <1>1, <1>2, <1>6, <2>1, <2>2 DEF LockNextWinner, NextPayout, tourVars
  <2>4. /\ Same(old, q) /\ q.pc = old.pc /\ q.next = n /\ q.payouts = old.payouts
        /\ q.winner = old.winner
    BY <1>2, <2>2, <2>3 DEF Same, TourRequests
  <2>5. Moves(old, q)
    BY <1>3, <2>1, <2>3, <2>4 DEF Moves, LocksWinner
  <2> QED
    BY <1>1, <2>3, <2>5, OneMoves
<1> QED
  BY <1>4, <1>5, <1>6

\* A finish decides what to pay.
LEMMA DecisionMoves ==
  ASSUME DeskInv, NEW r \in Reqs, FinishReadEntries(r)
  PROVE  \A s \in Reqs : Moves(req[s], req'[s])
<1>1. PICK old, t, prizes : old = req[r] /\ t = old.tour /\ prizes = Settings[old.setting].prizes
  BY Zenon
<1>2. /\ req \in [Reqs -> TourRequests] /\ old \in TourRequests /\ ShapeOf(old)
  BY <1>1, OwnShape DEF DeskInv, Desk, RequestsTyped
<1>3. old.pc = "entries" /\ old.op = "finish" /\ UNCHANGED <<tours, entries>>
  <2>1. old.pc = "entries"
    BY <1>1, Zenon DEF FinishReadEntries
  <2> QED
    BY <1>2, <2>1, Zenon DEF ShapeOf, Ops, RegisterOps, FinishReadEntries, tourVars
<1>4. CASE Finish(r)
  BY <1>4, EndMoves
<1>5. ASSUME NEW payouts, NEW winner,
             req' = [req EXCEPT ![r].pc = "lock", ![r].payouts = payouts, ![r].winner = winner],
             Decided(old, t, prizes, payouts, winner)
      PROVE  \A s \in Reqs : Moves(req[s], req'[s])
  <2>1. PICK q : q = [old EXCEPT !.pc = "lock", !.payouts = payouts, !.winner = winner]
    OBVIOUS
  <2>2. req' = [req EXCEPT ![r] = q]
    BY <1>1, <1>2, <1>5, <2>1
  <2>3. Same(old, q) /\ q.pc = "lock" /\ q.payouts = payouts /\ q.winner = winner
    BY <1>2, <1>3, <2>1 DEF Same, TourRequests
  <2>4. ReadsEntries(old, q)
    BY <1>1, <1>3, <1>5, <2>3, Zenon DEF ReadsEntries
  <2> QED
    BY <1>1, <2>2, <2>4, OneMoves DEF Moves
<1>6. CASE EntriesOf(t) # {} /\ NotRefunded(t) = {}
  <2>1. req' = [req EXCEPT ![r].pc = "lock", ![r].payouts = <<>>, ![r].winner = 0]
    BY <1>1, <1>6, Zenon DEF FinishReadEntries
  <2>2. Decided(old, t, prizes, <<>>, 0)
    BY <1>6 DEF Decided
  <2> QED
    BY <1>5, <2>1, <2>2
<1>7. CASE ~(EntriesOf(t) # {} /\ NotRefunded(t) = {}) /\ ~Finish(r)
  <2> DEFINE champion == AliveIn(req[r].tour)
             grade == Settings[req[r].setting].prizes
             last == IF Cardinality(champion) = 1 THEN CHOOSE e \in champion : TRUE ELSE 0
  <2>7. champion = AliveIn(t) /\ grade = prizes
    BY <1>1
  <2>1. ~(EntriesOf(req[r].tour) # {} /\ NotRefunded(req[r].tour) = {})
    BY <1>1, <1>7, Zenon
  <2>2. /\ ~(Cardinality(champion) > 1 /\ 1 \in DOMAIN grade)
        /\ \E holder \in Holders(req[r].tour, grade) :
             req' = [req EXCEPT ![r].pc = "lock", ![r].payouts = Payouts(req[r], holder, grade),
                                ![r].winner = last]
    BY <1>7, <2>1, Zenon DEF FinishReadEntries
  <2>3. PICK holder \in Holders(req[r].tour, grade) :
             req' = [req EXCEPT ![r].pc = "lock", ![r].payouts = Payouts(req[r], holder, grade),
                                ![r].winner = last]
    BY <2>2
  <2>4. PICK payouts, winner : payouts = Payouts(req[r], holder, grade) /\ winner = last
    OBVIOUS
  <2> HIDE DEF last
  <2>5. req' = [req EXCEPT ![r].pc = "lock", ![r].payouts = payouts, ![r].winner = winner]
    BY <2>3, <2>4
  <2>6. /\ ~(Cardinality(AliveIn(t)) > 1 /\ 1 \in DOMAIN prizes)
        /\ \E h \in Holders(t, prizes) : payouts = Payouts(old, h, prizes)
        /\ winner = IF Cardinality(AliveIn(t)) = 1 THEN CHOOSE e \in AliveIn(t) : TRUE ELSE 0
    BY <1>1, <2>2, <2>4, <2>7 DEF last
  <2>8. Decided(old, t, prizes, payouts, winner)
    BY <2>6, Zenon DEF Decided
  <2> QED
    BY ONLY <1>5, <2>5, <2>8, Zenon
<1> QED
  BY <1>4, <1>6, <1>7

\* What any step does to each request.
LEMMA RequestMoves ==
  ASSUME DeskInv, [Next]_vars
  PROVE  \A s \in Reqs : Moves(req[s], req'[s])
<1>1. CASE UNCHANGED req
  BY <1>1 DEF Moves
<1>2. ASSUME NEW r \in Reqs, Rollback(r) PROVE \A s \in Reqs : Moves(req[s], req'[s])
  BY <1>2, EndMoves DEF Rollback
<1>3. ASSUME NEW r \in Reqs, TakeLock(r) PROVE \A s \in Reqs : Moves(req[s], req'[s])
  <2>1. CASE TakeWalletLock(r)
    <3>1. req[r].pc = "wallet" /\ req[r].pc \in HoldingSteps /\ Goto(r, "commit")
      BY <2>1 DEF TakeWalletLock, HoldingSteps
    <3>2. req[r].op # "finish"
      BY <3>1, OwnShape DEF ShapeOf
    <3> QED
      BY <3>1, <3>2, ContinueMoves
  <2>2. CASE CommitEliminate(r) \/ RefuseEliminate(r) \/ CommitRedraw(r) \/ ApplyUpdate(r)
    BY <2>2, EndMoves DEF CommitEliminate, RefuseEliminate, CommitRedraw, ApplyUpdate
  <2>3. CASE RefusePayout(r)
    BY <1>2, <2>3, Zenon DEF RefusePayout
  <2> QED
    BY <1>3, <2>1, <2>2, <2>3, LockAndCheckMoves, FinishMoves DEF TakeLock
<1>4. ASSUME NEW r \in Reqs, Proceed(r) PROVE \A s \in Reqs : Moves(req[s], req'[s])
  <2>1. CASE FindReplay(r)
    <3>1. req[r].pc = "lookup" /\ (Goto(r, "lock") \/ Finish(r)) /\ "lock" \notin HoldingSteps
      BY <2>1 DEF FindReplay, HoldingSteps
    <3>2. req[r].op # "finish"
      BY <3>1, OwnShape DEF ShapeOf
    <3> QED
      BY <3>1, <3>2, ContinueMoves, EndMoves
  <2>2. CASE StartUpdate(r)
    <3>1. req[r].pc = "update" /\ (Goto(r, "apply") \/ Finish(r)) /\ "apply" \notin HoldingSteps
      BY <2>2 DEF StartUpdate, HoldingSteps
    <3>2. req[r].op # "finish"
      BY <3>1, OwnShape DEF ShapeOf
    <3> QED
      BY <3>1, <3>2, ContinueMoves, EndMoves
  <2>3. CASE CommitRegister(r) \/ CommitRegisterGuest(r) \/ CommitUnregister(r)
             \/ CommitFinish(r)
    BY <2>3, EndMoves, Zenon DEF CommitRegister, CommitRegisterGuest, CommitUnregister,
                                 CommitFinish
  <2>4. CASE RefuseCommit(r) \/ AbortDeadlock(r)
    BY <1>2, <2>4, Zenon DEF RefuseCommit, AbortDeadlock
  <2> QED
    BY <1>4, <2>1, <2>2, <2>3, <2>4, FinishMoves, DecisionMoves DEF Proceed
<1>5. ASSUME NEW t \in Tournaments, CreateTournament(t) \/ TimePasses(t) PROVE UNCHANGED req
  BY <1>5 DEF CreateTournament, TimePasses
<1>6. ASSUME NEW r \in Reqs, Fail(r) PROVE \A s \in Reqs : Moves(req[s], req'[s])
  BY <1>2, <1>6 DEF Fail
<1>7. CASE UNCHANGED vars
  BY <1>1, <1>7 DEF vars
<1> QED
  BY <1>1, <1>3, <1>4, <1>5, <1>6, <1>7, ArrivalMoves DEF Next

-----------------------------------------------------------------------------
(* Every step is one of these.                                             *)

\* A tournament is created.
LEMMA CreationOpens ==
  ASSUME DeskInv, NEW t \in Tournaments, CreateTournament(t)
  PROVE  Opens(t)
<1>1. tours \in [Tournaments -> TourRows]
  BY DEF DeskInv, Books, RowsTyped
<1>2. PICK n \in ValidSettings :
        tours' = [tours EXCEPT ![t] = [status |-> "REGISTERING", setting |-> n, pool |-> 0]]
  BY DEF CreateTournament
<1>3. NothingPaid /\ UNCHANGED entries
  BY DEF CreateTournament, walletVars, NothingPaid, PayoutsOf, Legs
<1>4. tours[t].status = "NONE"
  BY DEF CreateTournament
<1> QED
  BY <1>1, <1>2, <1>3, <1>4 DEF Opens, OthersStill

\* One ledger grows, by no prize.
LEMMA NoPrizePosted ==
  ASSUME DeskInv, NEW u \in Users, NEW new \in Seq(TourPostings),
         ledger' = [ledger EXCEPT ![u] = ledger[u] \o new],
         \A f : Marked(new, f, "TOURNAMENT_PAYOUT") = {}
  PROVE  NothingPaid
<1>1. ledger \in [Users -> Seq(TourPostings)]
  BY DEF DeskInv, Books, RowsTyped
<1>2. PICK books, later : books = ledger /\ later = ledger'
  OBVIOUS
<1>3. Posted(books, u, new, later)
  BY <1>1, <1>2 DEF Posted
<1>4. \A f : Legs(later, f, "TOURNAMENT_PAYOUT")
               = Legs(books, f, "TOURNAMENT_PAYOUT") \cup Marked(new, f, "TOURNAMENT_PAYOUT")
  BY <1>3, LegsOfOne
<1>5. \A f : Legs(later, f, "TOURNAMENT_PAYOUT") = Legs(books, f, "TOURNAMENT_PAYOUT")
  BY <1>4
<1> QED
  BY <1>2, <1>5 DEF NothingPaid, PayoutsOf

\* The rows an entry is written to.
LEMMA EntryEnters ==
  ASSUME DeskInv, NEW q, NEW u \in Users, NEW e \in Unused, Open(q.tour), q.bonus \in BOOLEAN,
         tours[q.tour].status = "REGISTERING", CreateEntry(q, u, e), NothingPaid
  PROVE  Enters(q.tour, e)
<1>1. PICK t, row : /\ t = q.tour
                    /\ row = [NoEntry EXCEPT !.status = "REGISTERED", !.tour = q.tour, !.user = u,
                                             !.bonus = q.bonus]
  BY Zenon
<1>2. /\ row.status = "REGISTERED" /\ row.tour = t /\ row.paid = FALSE /\ row.position = 0
  BY <1>1 DEF NoEntry
<1>3. /\ entries' = [entries EXCEPT ![e] = row]
      /\ tours' = [tours EXCEPT ![t].pool = @ + PoolShare(t)]
  BY <1>1 DEF CreateEntry
<1>4. /\ tours \in [Tournaments -> TourRows] /\ entries \in [Entries -> EntryRows] /\ Books
      /\ t \in Tournaments /\ e \in Entries /\ entries[e].status = "NONE"
      /\ tours[t].status = "REGISTERING" /\ Open(t)
  BY <1>1 DEF DeskInv, Books, RowsTyped, Open, Unused
<1>5. PICK was, share, n : was = tours[t] /\ share = PoolShare(t) /\ n = was.pool + share
  OBVIOUS
<1>6. share \in Nat /\ was \in TourRows /\ was.pool \in Nat
  <2>1. was.pool \in Nat
    BY <1>4, <1>5, PoolNatural
  <2>2. TRUE \in BOOLEAN
    OBVIOUS
  <2>3. share \in Nat
    BY <1>4, <1>5, <2>2, PriceNatural
  <2> QED
    BY <1>4, <1>5, <2>1, <2>3
<1>7. PICK tour : tour = [was EXCEPT !.pool = n]
  OBVIOUS
<1>8. tours' = [tours EXCEPT ![t] = tour]
  BY <1>3, <1>4, <1>5, <1>7
<1>9. tour.status = was.status /\ tour.setting = was.setting /\ tour.pool >= was.pool
  BY <1>5, <1>6, <1>7 DEF TourRows
<1>10. /\ tours'[t].status = "REGISTERING" /\ tours'[t].setting = tours[t].setting
       /\ tours'[t].pool >= tours[t].pool /\ OthersStill(t)
  BY <1>4, <1>5, <1>8, <1>9 DEF OthersStill
<1>11. /\ \A f \in Entries \ {e} : entries'[f] = entries[f]
       /\ entries'[e] = row
  BY <1>3, <1>4
<1> QED
  BY <1>1, <1>2, <1>4, <1>10, <1>11 DEF Enters

\* A registration.
LEMMA RegistrationEnters ==
  ASSUME DeskInv, NEW r \in Reqs, Entering(req[r]),
         CommitRegister(r) \/ CommitRegisterGuest(r)
  PROVE  \E t, e : Enters(t, e)
<1>1. PICK q, k, e : q = req[r] /\ k = LedgerKey(req[r]) /\ e = Min(Unused)
  OBVIOUS
<1>2. /\ q.pc = "commit" /\ q.op \in RegisterOps /\ Unused # {} /\ Books
      /\ req[r].pc = "commit"
  BY <1>1 DEF CommitRegister, CommitRegisterGuest, DeskInv, RegisterOps
<1>3. /\ Open(q.tour) /\ q.bonus \in BOOLEAN /\ q.key \in Keys
      /\ q.op = "register" => q.user \in wallets
  BY <1>1, <1>2, AtCommit
<1>4. e \in Unused /\ e \in Entries
  BY <1>1, <1>2, NextRowUnused
<1>5. k \in BaseKeys
  BY <1>1, <1>2, <1>3 DEF LedgerKey, BaseKeys, RegisterOps
<1>6. tours[q.tour].status = "REGISTERING"
  BY <1>1, <1>2 DEF Entering, HoldingSteps
<1>7. PICK price : price = Price(q.tour, q.bonus)
  BY Zenon
<1>8. price \in Nat /\ -price \in Int
  BY <1>2, <1>3, <1>7, PriceNatural
<1>9. CASE CommitRegister(r)
  <2>1. PICK u, bal, new : /\ u = q.user /\ bal = balance[u]
                           /\ new = Postings(bal, -price, "TOURNAMENT_BUY_IN", k, e)
    OBVIOUS
  <2>2. u \in Users /\ bal \in Nat
    <3>1. u \in wallets
      BY <1>1, <1>3, <1>9, <2>1 DEF CommitRegister
    <3> QED
      BY <1>2, <2>1, <3>1 DEF Books, RowsTyped
  <2>3. "TOURNAMENT_BUY_IN" \in EntryTypes /\ e \in Entries \cup {None}
    BY <1>4 DEF EntryTypes
  <2>4. new \in Seq(TourPostings)
    BY <1>5, <1>8, <2>1, <2>2, <2>3, PostingsTyped
  <2>5. \A f : Marked(new, f, "TOURNAMENT_PAYOUT") = {}
    BY <2>1, PostingsMarked
  <2>6. ledger' = [ledger EXCEPT ![u] = ledger[u] \o new]
    BY <1>1, <1>7, <1>9, <2>1 DEF CommitRegister, ApplyLedgerEntry
  <2>7. NothingPaid
    BY <2>2, <2>4, <2>5, <2>6, NoPrizePosted
  <2>8. CreateEntry(q, u, e)
    BY <1>1, <1>9, <2>1 DEF CommitRegister
  <2> QED
    BY <1>3, <1>4, <1>6, <2>2, <2>7, <2>8, EntryEnters
<1>10. CASE CommitRegisterGuest(r)
  <2>1. PICK cashKey : cashKey = <<"guest-cash-in", q.key>>
    OBVIOUS
  <2>2. PICK g \in Guests \ wallets :
          /\ CreateEntry(q, g, e)
          /\ ledger' = [ledger EXCEPT ![g] =
               Postings(0, price, "ADJUSTMENT", cashKey, None)
               \o Postings(price, -price, "TOURNAMENT_BUY_IN", k, e)]
    BY <1>1, <1>7, <1>10, <2>1 DEF CommitRegisterGuest
  <2>3. PICK cash, paid, new :
          /\ cash = Postings(0, price, "ADJUSTMENT", cashKey, None)
          /\ paid = Postings(price, -price, "TOURNAMENT_BUY_IN", k, e)
          /\ new = cash \o paid
    OBVIOUS
  <2>4. g \in Users /\ ledger[g] = <<>>
    BY <1>2, <2>2, TournamentConstants DEF Books, WalletSound
  <2>5. /\ "TOURNAMENT_BUY_IN" \in EntryTypes /\ "ADJUSTMENT" \in EntryTypes /\ 0 \in Nat
        /\ e \in Entries \cup {None} /\ None \in Entries \cup {None} /\ price \in Int
        /\ cashKey \in BaseKeys
    BY <1>3, <1>4, <1>8, <2>1 DEF EntryTypes, BaseKeys
  <2>6. cash \in Seq(TourPostings)
    BY <2>3, <2>5, PostingsTyped
  <2>7. paid \in Seq(TourPostings)
    BY <1>5, <1>8, <2>3, <2>5, PostingsTyped
  <2>8. new \in Seq(TourPostings) /\ Listed(new) = Listed(cash) \cup Listed(paid)
    BY <2>3, <2>6, <2>7, ListedGrows
  <2>9. \A f : /\ Marked(cash, f, "TOURNAMENT_PAYOUT") = {}
               /\ Marked(paid, f, "TOURNAMENT_PAYOUT") = {}
    BY <2>3, PostingsMarked
  <2>10. \A f : Marked(new, f, "TOURNAMENT_PAYOUT") = {}
    BY <2>8, <2>9 DEF Marked
  <2>11. ledger' = [ledger EXCEPT ![g] = ledger[g] \o new]
    <3>1. <<>> \o new = new
      BY <2>8
    <3> QED
      BY <2>2, <2>3, <2>4, <3>1
  <2>12. NothingPaid
    BY <2>4, <2>8, <2>10, <2>11, NoPrizePosted
  <2> QED
    BY <1>3, <1>4, <1>6, <2>2, <2>4, <2>12, EntryEnters
<1> QED
  BY <1>9, <1>10

\* An elimination.
LEMMA EliminationLeaves ==
  ASSUME DeskInv, NEW r \in Reqs, Plain(req[r]), CommitEliminate(r)
  PROVE  \E t, e : Leaves(t, e)
<1>1. PICK t, e, place : /\ t = req[r].tour /\ e = req[r].entry
                         /\ place = Cardinality(AliveIn(t) \ {e}) + 1
  OBVIOUS
<1>0. req[r].position = 0 /\ ~(req[r].position > 0)
  <2>1. req[r].position = 0
    BY DEF CommitEliminate, Plain
  <2> QED
    BY <2>1
<1>2. /\ req[r].pc = "lock" /\ req[r].op = "eliminate" /\ RowsTyped /\ TourFree(t)
      /\ entries[e].status \notin {"ELIMINATED", "PAID"}
      /\ entries' = [entries EXCEPT ![e].status = "ELIMINATED", ![e].position = place]
      /\ tours' = [tours EXCEPT ![t].status = IF @ = "REGISTERING" THEN "RUNNING" ELSE @]
  BY <1>0, <1>1 DEF CommitEliminate, DeskInv, Books, AutomaticPosition
<1>3. /\ Open(t) /\ t \in Tournaments /\ EntryIn(e, t) /\ e \in Entries
      /\ entries[e].tour = t /\ entries[e].status # "NONE"
  BY <1>1, <1>2, OwnShape DEF ShapeOf, Open, EntryIn
<1>4. entries \in [Entries -> EntryRows] /\ tours \in [Tournaments -> TourRows]
  BY <1>2 DEF RowsTyped
<1>5. PICK old, row :
        /\ old = entries[e]
        /\ row = [old EXCEPT !.status = "ELIMINATED", !.position = place]
  OBVIOUS
<1>6. /\ row.status = "ELIMINATED" /\ row.position = place /\ row.tour = old.tour
      /\ row.paid = old.paid /\ row.prize = old.prize
  BY <1>3, <1>4, <1>5 DEF EntryRows
<1>7. entries'[e] = row /\ \A f \in Entries \ {e} : entries'[f] = entries[f]
  BY <1>2, <1>3, <1>4, <1>5
<1>8. PICK was, tour : /\ was = tours[t]
                       /\ tour = [was EXCEPT !.status = IF was.status = "REGISTERING"
                                                        THEN "RUNNING" ELSE was.status]
  OBVIOUS
<1>9. /\ tour.status = IF was.status = "REGISTERING" THEN "RUNNING" ELSE was.status
      /\ tour.setting = was.setting /\ tour.pool = was.pool
  BY <1>3, <1>4, <1>8 DEF TourRows
<1>10. tours'[t] = tour /\ OthersStill(t)
  BY <1>2, <1>3, <1>4, <1>8 DEF OthersStill
<1>11. NothingPaid
  BY DEF CommitEliminate, walletVars, NothingPaid, PayoutsOf, Legs
<1>12. Leaves(t, e)
  BY <1>1, <1>2, <1>3, <1>5, <1>6, <1>7, <1>8, <1>9, <1>10, <1>11, ZenonT(60) DEF Leaves
<1> QED
  BY <1>12

\* The prizes that the postings of one user hold.
LEMMA PrizesMarked ==
  ASSUME RowsTyped, NEW u \in Users, NEW payouts \in Seq(PayoutRows), NEW e \in Entries, NEW x
  PROVE  x \in Marked(PrizePostings(u, payouts), e, "TOURNAMENT_PAYOUT") <=>
           /\ entries[e].user = u
           /\ \E i \in DOMAIN payouts :
                /\ payouts[i].entry = e
                /\ x = Entry(PayoutKey(e), "TOURNAMENT_PAYOUT", payouts[i].amount,
                             BalanceAfter(u, payouts, i), e)
<1> DEFINE won == Ascending(Won(u, payouts))
           leg(i) == Entry(PayoutKey(payouts[i].entry), "TOURNAMENT_PAYOUT", payouts[i].amount,
                           BalanceAfter(u, payouts, i), payouts[i].entry)
<1>1. DOMAIN payouts = 1 .. Len(payouts) /\ Len(payouts) \in Nat
  OBVIOUS
<1>2. Won(u, payouts) \in SUBSET Nat /\ IsFiniteSet(Won(u, payouts))
  <2>1. IsFiniteSet(1 .. Len(payouts)) /\ Won(u, payouts) \subseteq 1 .. Len(payouts)
    BY <1>1, FS_Interval DEF Won
  <2> QED
    BY <1>1, <2>1, FS_Subset
<1>3. /\ \A k \in DOMAIN won : won[k] \in Won(u, payouts)
      /\ \A i \in Won(u, payouts) : \E k \in DOMAIN won : won[k] = i
  BY <1>2, AscendingMembers, AscendingOnce
<1>4. PrizePostings(u, payouts) = [k \in DOMAIN won |-> leg(won[k])]
  BY DEF PrizePostings
<1> HIDE DEF won
<1>5. \A y : y \in Listed(PrizePostings(u, payouts)) <=> \E i \in Won(u, payouts) : y = leg(i)
  <2> HIDE DEF leg
  <2> QED
    BY <1>3, <1>4 DEF Listed
<1>6. \A i : leg(i).type = "TOURNAMENT_PAYOUT" /\ leg(i).session = payouts[i].entry
  BY DEF Entry
<1>7. x \in Marked(PrizePostings(u, payouts), e, "TOURNAMENT_PAYOUT") <=>
        \E i \in Won(u, payouts) : x = leg(i) /\ payouts[i].entry = e
  <2> HIDE DEF leg
  <2> QED
    BY <1>5, <1>6 DEF Marked
<1>8. \A i : i \in Won(u, payouts) /\ payouts[i].entry = e <=>
               i \in DOMAIN payouts /\ payouts[i].entry = e /\ entries[e].user = u
  BY DEF Won
<1> QED
  BY <1>7, <1>8

\* The payouts of a finish.
LEMMA FinishPays ==
  ASSUME DeskInv, NEW r \in Reqs, CommitFinish(r)
  PROVE  Pays(req[r], req[r].tour)
<1>1. PICK q, t, payouts : q = req[r] /\ t = q.tour /\ payouts = q.payouts
  BY Zenon
<1> DEFINE paidAt(e) == {i \in DOMAIN payouts : payouts[i].entry = e}
           row(e) == IF paidAt(e) # {}
                     THEN [entries[e] EXCEPT !.status = "PAID", !.paid = TRUE,
                             !.prize = payouts[Min(paidAt(e))].amount,
                             !.position = payouts[Min(paidAt(e))].position]
                     ELSE IF e = q.winner THEN [entries[e] EXCEPT !.position = 1] ELSE entries[e]
<1>2. /\ q.pc = "pay" /\ q.next > Len(q.payouts) /\ RowsTyped /\ q \in TourRequests /\ ShapeOf(q)
  BY <1>1, OwnShape, Zenon DEF CommitFinish, DeskInv, Books
<1>3. q.op = "finish" /\ Open(t) /\ t \in Tournaments /\ payouts \in Seq(PayoutRows)
  <2>1. q.op = "finish" /\ Open(q.tour)
    BY <1>2, Zenon DEF ShapeOf, Ops, RegisterOps
  <2> QED
    BY <1>1, <1>2, <2>1 DEF Open, TourRequests
<1>4. /\ ledger' = [u \in Users |-> ledger[u] \o PrizePostings(u, payouts)]
      /\ tours' = [tours EXCEPT ![t].status = "FINISHED"]
  BY <1>1, Zenon DEF CommitFinish
<1>5. entries' = [e \in Entries |-> row(e)]
  BY <1>1, Zenon DEF CommitFinish
<1>6. /\ ledger \in [Users -> Seq(TourPostings)] /\ tours \in [Tournaments -> TourRows]
      /\ entries \in [Entries -> EntryRows]
  BY <1>2 DEF RowsTyped
<1>7. /\ tours'[t].status = "FINISHED" /\ tours'[t].setting = tours[t].setting
      /\ tours'[t].pool = tours[t].pool /\ OthersStill(t)
  <2>1. PICK was, tour : was = tours[t] /\ tour = [was EXCEPT !.status = "FINISHED"]
    OBVIOUS
  <2>2. /\ tour.status = "FINISHED" /\ tour.setting = was.setting /\ tour.pool = was.pool
    BY <1>3, <1>6, <2>1 DEF TourRows
  <2>3. tours'[t] = tour /\ OthersStill(t)
    BY <1>3, <1>4, <1>6, <2>1 DEF OthersStill
  <2> QED
    BY <2>1, <2>2, <2>3
<1>8. ASSUME NEW e \in Entries
      PROVE  /\ entries'[e].tour = entries[e].tour
             /\ ~PaidBy(q, e) =>
                  /\ e # q.winner => entries'[e] = entries[e]
                  /\ e = q.winner => entries'[e] = [entries[e] EXCEPT !.position = 1]
             /\ PaidBy(q, e) =>
                  /\ entries'[e].status = "PAID" /\ entries'[e].paid
                  /\ \E i \in DOMAIN q.payouts :
                       /\ q.payouts[i].entry = e
                       /\ entries'[e].prize = q.payouts[i].amount
                       /\ entries'[e].position = q.payouts[i].position
  <2>1. PICK old : old = entries[e]
    OBVIOUS
  <2>2. old \in EntryRows /\ entries'[e] = row(e)
    BY <1>5, <1>6, <2>1
  <2>3. PaidBy(q, e) <=> paidAt(e) # {}
    BY <1>1 DEF PaidBy
  <2>4. CASE paidAt(e) # {}
    <3>1. PICK i : i = Min(paidAt(e))
      OBVIOUS
    <3>2. paidAt(e) \in SUBSET Nat
      BY <1>3
    <3>3. i \in DOMAIN payouts /\ payouts[i].entry = e
      BY <2>4, <3>1, <3>2, SmallestOf
    <3>4. PICK amount, place, new :
            /\ amount = payouts[i].amount /\ place = payouts[i].position
            /\ new = [old EXCEPT !.status = "PAID", !.paid = TRUE, !.prize = amount,
                                 !.position = place]
      OBVIOUS
    <3>5. entries'[e] = new
      BY <2>1, <2>2, <2>4, <3>1, <3>4
    <3>6. /\ new.tour = old.tour /\ new.status = "PAID" /\ new.paid = TRUE /\ new.prize = amount
          /\ new.position = place
      BY <2>2, <3>4 DEF EntryRows
    <3> HIDE DEF paidAt
    <3> QED
      BY <1>1, <2>1, <2>3, <2>4, <3>3, <3>4, <3>5, <3>6
  <2>5. CASE paidAt(e) = {} /\ e = q.winner
    <3>1. PICK new : new = [old EXCEPT !.position = 1]
      OBVIOUS
    <3>2. new.tour = old.tour /\ entries'[e] = new
      BY <2>1, <2>2, <2>5, <3>1 DEF EntryRows
    <3> HIDE DEF paidAt
    <3> QED
      BY <2>1, <2>3, <2>5, <3>1, <3>2
  <2>6. CASE paidAt(e) = {} /\ e # q.winner
    <3>1. entries'[e] = old
      BY <2>1, <2>2, <2>6
    <3> HIDE DEF paidAt
    <3> QED
      BY <2>1, <2>3, <2>6, <3>1
  <2> QED
    BY <2>4, <2>5, <2>6
<1> HIDE DEF row, paidAt
<1>9. PICK books, more, later : /\ books = ledger /\ later = ledger'
                                /\ more = [u \in Users |-> PrizePostings(u, payouts)]
  OBVIOUS
<1>10. Extended(books, more, later)
  <2> SUFFICES ASSUME NEW u \in Users
               PROVE  /\ books[u] \in Seq(TourPostings) /\ more[u] \in Seq(TourPostings)
                      /\ later[u] = books[u] \o more[u]
    BY DEF Extended
  <2>1. PrizePostings(u, payouts) \in Seq(TourPostings)
    BY <1>2, <1>3, PrizesTyped
  <2> QED
    BY <1>4, <1>6, <1>9, <2>1
<1>11. ASSUME NEW e \in Entries, NEW x
       PROVE  x \in PayoutsOf(e)' <=>
                x \in PayoutsOf(e) \/ \E i \in DOMAIN q.payouts : LegOf(q, i, e, x)
  <2>1. Legs(later, e, "TOURNAMENT_PAYOUT")
          = Legs(books, e, "TOURNAMENT_PAYOUT") \cup Legs(more, e, "TOURNAMENT_PAYOUT")
    BY <1>10, LegsGrow
  <2>2. x \in Legs(more, e, "TOURNAMENT_PAYOUT") <=>
          \E u \in Users : x \in Marked(more[u], e, "TOURNAMENT_PAYOUT")
    BY LegsAreMarked
  <2>3. \A u \in Users :
          x \in Marked(more[u], e, "TOURNAMENT_PAYOUT") <=>
            /\ entries[e].user = u
            /\ \E i \in DOMAIN payouts :
                 /\ payouts[i].entry = e
                 /\ x = Entry(PayoutKey(e), "TOURNAMENT_PAYOUT", payouts[i].amount,
                              BalanceAfter(u, payouts, i), e)
    BY <1>2, <1>3, <1>9, PrizesMarked
  <2>4. \A i \in DOMAIN payouts : payouts[i].entry = e => entries[e].user \in Users
    <3> SUFFICES ASSUME NEW i \in DOMAIN payouts, payouts[i].entry = e
                 PROVE  entries[e].user \in Users
      OBVIOUS
    <3>1. EntryIn(e, t)
      BY <1>1, <1>2, <1>3 DEF ShapeOf
    <3>2. EntrySound(e) /\ entries[e].status # "NONE"
      BY <3>1 DEF EntryIn, DeskInv, Books
    <3> QED
      BY <1>2, <3>2 DEF EntrySound, RowsTyped
  <2>5. (\E u \in Users : x \in Marked(more[u], e, "TOURNAMENT_PAYOUT")) <=>
          \E i \in DOMAIN payouts :
            /\ payouts[i].entry = e
            /\ x = Entry(PayoutKey(e), "TOURNAMENT_PAYOUT", payouts[i].amount,
                         BalanceAfter(entries[e].user, payouts, i), e)
    BY ONLY <2>3, <2>4, Zenon
  <2>6. x \in Legs(more, e, "TOURNAMENT_PAYOUT") <=>
          \E i \in DOMAIN q.payouts : LegOf(q, i, e, x)
    BY <1>1, <2>2, <2>5, Zenon DEF LegOf
  <2> QED
    BY <1>9, <2>1, <2>6 DEF PayoutsOf
<1>12. Pays(q, t)
  BY <1>1, <1>2, <1>3, <1>7, <1>8, <1>11, Zenon DEF Pays
<1> QED
  BY <1>1, <1>12, Zenon

\* What any step does to the rows.
LEMMA StepsOfRows ==
  ASSUME DeskInv, NobodyEdits, [Next]_vars, \A r \in Reqs : Plain(req[r]) /\ Entering(req[r])
  PROVE  RowStep
<1> USE DEF RowStep
<1>1. ASSUME UNCHANGED <<tours, entries, ledger>> PROVE Still
  BY <1>1 DEF Still, NothingPaid, PayoutsOf, Legs
<1>2. ASSUME NEW r \in Reqs, Rollback(r) PROVE Still
  BY <1>1, <1>2 DEF Rollback, tourVars
<1>3. ASSUME NEW r \in Reqs, Arrive(r) PROVE Still
  BY <1>1, <1>3, Zenon DEF Arrive, RegisterEntry, RegisterGuestEntry, UnregisterEntry,
     EliminateEntry, RedrawTables, UpdateTournament, FinishTournament, Begin, tourVars, walletVars
<1>4. ASSUME NEW r \in Reqs, TakeLock(r) PROVE Still \/ \E t, e : Leaves(t, e)
  <2>1. CASE LockAndCheck(r) \/ TakeWalletLock(r) \/ RefuseEliminate(r) \/ CommitRedraw(r)
             \/ FinishLock(r) \/ LockNextWinner(r)
    BY <1>1, <2>1 DEF LockAndCheck, TakeWalletLock, LockWallet, RefuseEliminate, CommitRedraw,
                      FinishLock, LockNextWinner, tourVars, walletVars
  <2>2. CASE RefusePayout(r)
    BY <1>2, <2>2, Zenon DEF RefusePayout
  <2>3. ~ApplyUpdate(r)
    BY DEF ApplyUpdate, NobodyEdits, EditSteps
  <2>4. CASE CommitEliminate(r)
    BY <2>4, EliminationLeaves
  <2> QED
    BY <1>4, <2>1, <2>2, <2>3, <2>4 DEF TakeLock
<1>5. ASSUME NEW r \in Reqs, Proceed(r)
      PROVE  \/ Still
             \/ \E t, e : Enters(t, e)
             \/ Pays(req[r], req[r].tour) /\ Finish(r)
  <2>1. CASE FindReplay(r) \/ StartUpdate(r) \/ FinishReadGrade(r) \/ FinishReadEntries(r)
    BY <1>1, <2>1 DEF FindReplay, StartUpdate, FinishReadGrade, FinishReadEntries, tourVars,
                      walletVars
  <2>2. CASE RefuseCommit(r) \/ AbortDeadlock(r)
    BY <1>2, <2>2, Zenon DEF RefuseCommit, AbortDeadlock
  <2>3. CASE CommitRegister(r) \/ CommitRegisterGuest(r)
    BY <2>3, RegistrationEnters
  <2>4. ~CommitUnregister(r)
    BY DEF CommitUnregister, Plain
  <2>5. CASE CommitFinish(r)
    <3>1. Finish(r)
      BY <2>5, Zenon DEF CommitFinish
    <3> QED
      BY <2>5, <3>1, FinishPays
  <2> QED
    BY <1>5, <2>1, <2>2, <2>3, <2>4, <2>5 DEF Proceed
<1>6. ASSUME NEW t \in Tournaments, CreateTournament(t) PROVE Opens(t)
  BY <1>6, CreationOpens
<1>7. ASSUME NEW t \in Tournaments, TimePasses(t) PROVE Still
  BY <1>1, <1>7 DEF TimePasses, walletVars
<1>8. ASSUME NEW r \in Reqs, Fail(r) PROVE Still
  BY <1>2, <1>8 DEF Fail
<1>9. CASE UNCHANGED vars
  BY <1>1, <1>9 DEF vars, tourVars, walletVars
<1> QED
  BY <1>3, <1>4, <1>5, <1>6, <1>7, <1>8, <1>9, Zenon DEF Next

-----------------------------------------------------------------------------
(* Places.                                                                 *)

\* The sets of entries that places are about.
LEMMA EntrySets ==
  ASSUME NEW t
  PROVE  /\ AliveIn(t) \subseteq EntriesOf(t) /\ Out(t) \subseteq EntriesOf(t)
         /\ AliveIn(t) \cap Out(t) = {} /\ EntriesOf(t) \subseteq Entries
         /\ IsFiniteSet(AliveIn(t)) /\ IsFiniteSet(Out(t))
         /\ Cardinality(AliveIn(t)) \in Nat /\ Cardinality(Out(t)) \in Nat
<1>1. /\ AliveIn(t) \subseteq EntriesOf(t) /\ Out(t) \subseteq EntriesOf(t)
      /\ AliveIn(t) \cap Out(t) = {} /\ EntriesOf(t) \subseteq Entries
  BY DEF AliveIn, Alive, Out, EntriesOf
<1>2. AliveIn(t) \subseteq Entries /\ Out(t) \subseteq Entries
  BY <1>1
<1> QED
  BY <1>1, <1>2, EntriesFinite

\* Entries of an open tournament have a row.
LEMMA EntryRowIn ==
  ASSUME DeskInv, NEW t \in Tournaments, NEW e \in EntriesOf(t)
  PROVE  /\ e \in Entries /\ entries[e] \in EntryRows /\ entries[e].tour = t /\ Open(t)
         /\ entries[e].status # "NONE"
<1>1. EntrySound(e) /\ e \in Entries /\ entries[e].tour = t /\ entries[e] \in EntryRows
  BY DEF DeskInv, Books, RowsTyped, EntriesOf
<1> QED
  BY <1>1, TournamentConstants DEF EntrySound

\* An elimination gives the place before those given so far.
LEMMA LeavesCountDown ==
  ASSUME NEW t \in Tournaments, NEW e, Leaves(t, e), CountDown(t)
  PROVE  /\ e \in AliveIn(t) /\ EntriesOf(t)' = EntriesOf(t)
         /\ AliveIn(t)' = AliveIn(t) \ {e} /\ Out(t)' = Out(t) \cup {e}
         /\ \A f \in EntriesOf(t) \ {e} : entries'[f] = entries[f]
         /\ entries'[e].position = Cardinality(AliveIn(t))
         /\ CountDown(t)'
<1>1. /\ e \in Entries /\ entries[e].tour = t
      /\ entries[e].status \notin {"NONE", "ELIMINATED", "PAID"}
      /\ \A f \in Entries \ {e} : entries'[f] = entries[f]
      /\ entries'[e].status = "ELIMINATED" /\ entries'[e].tour = t
      /\ entries'[e].position = Cardinality(AliveIn(t) \ {e}) + 1
  BY DEF Leaves, EntryIn
<1>2. e \in EntriesOf(t) /\ entries[e].status = "REGISTERED" /\ e \in AliveIn(t) /\ e \notin Out(t)
  BY <1>1 DEF CountDown, EntriesOf, AliveIn, Alive, Out
<1>3. EntriesOf(t)' = EntriesOf(t)
  BY <1>1 DEF EntriesOf
<1>4. AliveIn(t)' = AliveIn(t) \ {e}
  BY <1>1, <1>3 DEF AliveIn, Alive, EntriesOf
<1>5. Out(t)' = Out(t) \cup {e}
  BY <1>1, <1>2, <1>3 DEF Out, EntriesOf
<1>6. PICK n, m : n = Cardinality(AliveIn(t)) /\ m = Cardinality(Out(t))
  OBVIOUS
<1>7. /\ n \in Nat /\ m \in Nat /\ n >= 1
      /\ Cardinality(AliveIn(t) \ {e}) = n - 1 /\ Cardinality(Out(t) \cup {e}) = m + 1
  <2>1. IsFiniteSet(AliveIn(t)) /\ IsFiniteSet(Out(t)) /\ n \in Nat /\ m \in Nat
    BY <1>6, EntrySets
  <2>2. Cardinality(AliveIn(t) \ {e}) = n - 1
    BY <1>2, <1>6, <2>1, FS_RemoveElement
  <2>3. Cardinality(Out(t) \cup {e}) = m + 1
    BY <1>2, <1>6, <2>1, FS_AddElement
  <2>4. n # 0
    BY <1>2, <1>6, <2>1, FS_EmptySet
  <2> QED
    BY <2>1, <2>2, <2>3, <2>4
<1>8. entries'[e].position = n
  BY <1>1, <1>7
<1>9. /\ {entries[f].position : f \in Out(t)} = n + 1 .. n + m
      /\ \A f, g \in Out(t) : entries[f].position = entries[g].position => f = g
      /\ \A f \in EntriesOf(t) : entries[f].status \in {"REGISTERED", "ELIMINATED", "PAID"}
  BY <1>6 DEF CountDown
<1>10. \A f \in Out(t) : /\ entries'[f].position = entries[f].position /\ f # e
                         /\ entries[f].position \in n + 1 .. n + m
  <2>1. \A f \in Out(t) : f # e /\ f \in Entries
    BY <1>2, EntrySets
  <2> QED
    BY <1>1, <1>9, <2>1
<1>11. {entries'[f].position : f \in Out(t) \cup {e}} = n .. n + m
  <2>1. {entries'[f].position : f \in Out(t)} = n + 1 .. n + m
    BY <1>9, <1>10
  <2>2. {entries'[f].position : f \in Out(t) \cup {e}}
          = {entries'[f].position : f \in Out(t)} \cup {entries'[e].position}
    OBVIOUS
  <2>3. (n + 1 .. n + m) \cup {n} = n .. n + m
    BY <1>7
  <2> QED
    BY <1>8, <2>1, <2>2, <2>3
<1>12. \A f, g \in Out(t) \cup {e} : entries'[f].position = entries'[g].position => f = g
  <2>1. \A f \in Out(t) : entries'[f].position # n
    BY <1>7, <1>10
  <2> QED
    BY <1>8, <1>9, <1>10, <2>1
<1>13. \A f \in EntriesOf(t) : entries'[f].status \in {"REGISTERED", "ELIMINATED", "PAID"}
  BY <1>1, <1>9, EntrySets
<1>14. (n - 1) + 1 = n /\ (n - 1) + (m + 1) = n + m
  BY <1>7
<1>15. CountDown(t)'
  BY <1>3, <1>4, <1>5, <1>7, <1>11, <1>12, <1>13, <1>14 DEF CountDown
<1> QED
  BY <1>1, <1>2, <1>3, <1>4, <1>5, <1>6, <1>8, <1>15, EntrySets

\* The first elimination opens the countdown.
LEMMA FirstLeaves ==
  ASSUME NEW t \in Tournaments, NEW e, Leaves(t, e),
         \A f \in EntriesOf(t) : entries[f].status = "REGISTERED"
  PROVE  CountDown(t)
<1>1. Out(t) = {}
  BY DEF Out
<1>2. Cardinality(Out(t)) = 0
  BY <1>1, FS_EmptySet
<1>3. Cardinality(AliveIn(t)) \in Nat
  BY EntrySets
<1>4. {entries[f].position : f \in Out(t)} = {}
  BY <1>1
<1>5. \A n \in Nat : n + 1 .. n + 0 = {}
  OBVIOUS
<1> QED
  BY <1>1, <1>2, <1>3, <1>4, <1>5 DEF CountDown

\* A tournament that a row step is not about.
LEMMA OtherEntries ==
  ASSUME NEW t, NEW e, NEW z \in Tournaments, z # t,
         \A f \in Entries \ {e} : entries'[f] = entries[f],
         OthersStill(t), entries[e].tour # z, entries'[e].tour # z
  PROVE  SameTour(z)
<1>1. tours'[z] = tours[z]
  BY DEF OthersStill
<1>2. \A f \in Entries : entries[f].tour = z \/ entries'[f].tour = z => entries'[f] = entries[f]
  OBVIOUS
<1> QED
  BY <1>1, <1>2 DEF SameTour

\* Every step but those of a tournament itself leaves it as it is.
LEMMA RowStepOf ==
  ASSUME DeskInv, RowStep, NEW z \in Tournaments
  PROVE  \/ SameTour(z) \/ Opens(z) \/ \E e : Enters(z, e) \/ Leaves(z, e)
         \/ \E r \in Reqs : Pays(req[r], z) /\ Finish(r)
<1>1. CASE Still
  BY <1>1 DEF Still, SameTour
<1>2. ASSUME NEW t, Opens(t), t # z PROVE SameTour(z)
  BY <1>2 DEF Opens, OthersStill, SameTour
<1>3. ASSUME NEW t, NEW e, Enters(t, e), t # z PROVE SameTour(z)
  <2>1. /\ \A f \in Entries \ {e} : entries'[f] = entries[f]
        /\ OthersStill(t) /\ e \in Entries /\ entries[e].status = "NONE" /\ entries'[e].tour = t
    BY <1>3 DEF Enters
  <2>2. entries[e].tour = None
    BY <2>1 DEF DeskInv, Books, EntrySound
  <2> QED
    BY <1>3, <2>1, <2>2, OtherEntries, TournamentConstants
<1>4. ASSUME NEW t, NEW e, Leaves(t, e), t # z PROVE SameTour(z)
  <2>1. /\ \A f \in Entries \ {e} : entries'[f] = entries[f]
        /\ OthersStill(t) /\ entries[e].tour = t /\ entries'[e].tour = t
    BY <1>4 DEF Leaves, EntryIn
  <2> QED
    BY <1>4, <2>1, OtherEntries
<1>5. ASSUME NEW r \in Reqs, Pays(req[r], req[r].tour), req[r].tour # z PROVE SameTour(z)
  <2>1. PICK q, t : q = req[r] /\ t = q.tour
    OBVIOUS
  <2>2. /\ OthersStill(t) /\ q.op = "finish" /\ q.pc = "pay"
        /\ \A e \in Entries :
             /\ entries'[e].tour = entries[e].tour
             /\ ~PaidBy(q, e) /\ e # q.winner => entries'[e] = entries[e]
    BY <1>5, <2>1 DEF Pays
  <2>3. /\ \A i \in DOMAIN q.payouts : EntryIn(q.payouts[i].entry, t)
        /\ q.winner # 0 => EntryIn(q.winner, t)
    BY <2>1, <2>2, OwnShape DEF ShapeOf
  <2>4. ASSUME NEW e \in Entries, entries[e].tour = z PROVE ~PaidBy(q, e) /\ e # q.winner
    <3>1. ~PaidBy(q, e)
      BY <1>5, <2>1, <2>3, <2>4 DEF PaidBy, EntryIn
    <3>2. e # 0
      BY TournamentConstants DEF Entries
    <3> QED
      BY <1>5, <2>1, <2>3, <2>4, <3>1, <3>2 DEF EntryIn
  <2> QED
    BY <1>5, <2>1, <2>2, <2>4 DEF SameTour, OthersStill
<1> QED
  BY <1>1, <1>2, <1>3, <1>4, <1>5 DEF RowStep

\* A tournament that stays as it is keeps what is known of its rows.
LEMMA SamePlaces ==
  ASSUME NEW t, SameTour(t)
  PROVE  /\ EntriesOf(t)' = EntriesOf(t) /\ AliveIn(t)' = AliveIn(t) /\ Out(t)' = Out(t)
         /\ \A e \in EntriesOf(t) : entries'[e] = entries[e]
         /\ Prizes(t)' = Prizes(t) /\ tours'[t] = tours[t]
         /\ CountDown(t)' <=> CountDown(t)
         /\ \A e, p : Holds(t, e, p) => Holds(t, e, p)'
<1>1. /\ EntriesOf(t)' = EntriesOf(t) /\ \A e \in EntriesOf(t) : entries'[e] = entries[e]
      /\ tours'[t] = tours[t]
  BY DEF SameTour, EntriesOf
<1>2. AliveIn(t)' = AliveIn(t) /\ Out(t)' = Out(t) /\ Out(t) \subseteq EntriesOf(t)
  BY <1>1 DEF AliveIn, Out
<1>3. Prizes(t)' = Prizes(t)
  BY <1>1 DEF Prizes, Setting
<1>4. {entries'[e].position : e \in Out(t)} = {entries[e].position : e \in Out(t)}
  BY <1>1, <1>2
<1>5. CountDown(t)' <=> CountDown(t)
  BY <1>1, <1>2, <1>4 DEF CountDown
<1>6. \A e, p : Holds(t, e, p) => Holds(t, e, p)'
  BY <1>1, <1>2 DEF Holds
<1> QED
  BY <1>1, <1>2, <1>3, <1>5, <1>6

\* A tournament that opens has no entries.
LEMMA OpensEmpty ==
  ASSUME DeskInv, NEW t, Opens(t)
  PROVE  EntriesOf(t) = {} /\ EntriesOf(t)' = {} /\ ~Open(t)
<1>1. ~Open(t) /\ t \in Tournaments /\ entries' = entries
  BY DEF Opens, Open
<1>2. EntriesOf(t) = {}
  BY <1>1, EntryRowIn
<1> QED
  BY <1>1, <1>2 DEF EntriesOf

\* The places after a step.
LEMMA CountRows ==
  ASSUME DeskInv, CountInv, RowStep, NEW t \in Tournaments
  PROVE  CountSound(t)'
<1>1. CountSound(t)
  BY DEF CountInv
<1>2. CASE SameTour(t)
  BY <1>1, <1>2, SamePlaces DEF CountSound
<1>3. CASE Opens(t)
  <2>1. /\ tours'[t].status = "REGISTERING" /\ tours'[t].setting \in ValidSettings
        /\ EntriesOf(t)' = {}
    BY <1>3, OpensEmpty DEF Opens
  <2> QED
    BY <2>1 DEF CountSound, ValidSettings
<1>4. ASSUME NEW e, Enters(t, e) PROVE CountSound(t)'
  <2>1. /\ tours[t].status = "REGISTERING" /\ tours'[t].status = "REGISTERING"
        /\ tours'[t].setting = tours[t].setting
        /\ \A f \in Entries \ {e} : entries'[f] = entries[f]
        /\ entries'[e].status = "REGISTERED"
    BY <1>4 DEF Enters
  <2>2. \A f \in EntriesOf(t)' : entries'[f].status = "REGISTERED"
    <3>1. ASSUME NEW f \in EntriesOf(t)', f # e
          PROVE  f \in EntriesOf(t) /\ entries'[f] = entries[f]
      <4>1. f \in Entries /\ entries'[f].tour = t
        BY DEF EntriesOf
      <4>2. entries'[f] = entries[f]
        BY <2>1, <3>1, <4>1
      <4> QED
        BY <4>1, <4>2 DEF EntriesOf
    <3> QED
      BY <1>1, <2>1, <3>1 DEF CountSound
  <2> QED
    BY <1>1, <2>1, <2>2 DEF CountSound, ValidSettings
<1>5. ASSUME NEW e, Leaves(t, e) PROVE CountSound(t)'
  <2>1. /\ tours'[t].status = IF tours[t].status = "REGISTERING" THEN "RUNNING"
                              ELSE tours[t].status
        /\ tours[t].status # "NONE" /\ tours'[t].setting = tours[t].setting
    BY <1>5 DEF Leaves, Open
  <2>2. CASE tours[t].status \notin {"REGISTERING", "RUNNING"}
    BY <1>1, <2>1, <2>2 DEF CountSound, ValidSettings
  <2>3. CASE tours[t].status \in {"REGISTERING", "RUNNING"}
    <3>1. CountDown(t) /\ \A f \in EntriesOf(t) : entries[f].status # "PAID"
      BY <1>1, <1>5, <2>3, FirstLeaves DEF CountSound
    <3>2. /\ CountDown(t)' /\ EntriesOf(t)' = EntriesOf(t)
          /\ \A f \in EntriesOf(t) \ {e} : entries'[f] = entries[f]
      BY <1>5, <3>1, LeavesCountDown
    <3>3. entries'[e].status = "ELIMINATED"
      BY <1>5 DEF Leaves
    <3>4. \A f \in EntriesOf(t)' : entries'[f].status # "PAID"
      BY <3>1, <3>2, <3>3
    <3> QED
      BY <1>1, <2>1, <2>3, <3>2, <3>4 DEF CountSound, ValidSettings
  <2> QED
    BY <2>2, <2>3
<1>6. ASSUME NEW r \in Reqs, Pays(req[r], t) PROVE CountSound(t)'
  <2>1. /\ tours'[t].status = "FINISHED" /\ tours'[t].setting = tours[t].setting
        /\ tours[t].status # "NONE"
    BY <1>6 DEF Pays, Open
  <2> QED
    BY <1>1, <2>1 DEF CountSound, ValidSettings
<1> QED
  BY <1>2, <1>3, <1>4, <1>5, <1>6, RowStepOf

\* Who enters holds the row, so the tournament stays open for entries.
LEMMA StaysOpen ==
  ASSUME DeskInv, RowStep, NEW r \in Reqs, req[r].pc \in HoldingSteps, req[r].op # "finish",
         tours[req[r].tour].status = "REGISTERING"
  PROVE  tours'[req[r].tour].status = "REGISTERING"
<1>1. PICK t : t = req[r].tour
  OBVIOUS
<1>2. tourLock[t] = r /\ Open(t) /\ t \in Tournaments
  <2>1. ShapeOf(req[r]) /\ LockShape(r)
    BY OwnShape
  <2> QED
    BY <1>1, <2>1 DEF ShapeOf, LockShape, HoldingSteps, Open
<1>3. ~Opens(t)
  BY <1>2 DEF Opens, Open
<1>4. \A e : ~Leaves(t, e)
  BY <1>2, WalletConstants DEF Leaves, TourFree
<1>5. ASSUME NEW s \in Reqs, Pays(req[s], t) PROVE FALSE
  <2>1. req[s].op = "finish" /\ req[s].pc = "pay" /\ req[s].tour = t
    BY <1>5 DEF Pays
  <2>2. tourLock[t] = s
    BY <2>1, OwnShape DEF LockShape, HoldingSteps
  <2> QED
    BY <1>2, <2>1, <2>2
<1>6. SameTour(t) \/ \E e : Enters(t, e)
  BY <1>2, <1>3, <1>4, <1>5, RowStepOf
<1> QED
  BY <1>1, <1>6 DEF SameTour, Enters

\* The requests after a step.
LEMMA CountRequests ==
  ASSUME Freezeouts, DeskInv, CountInv, RowStep, NEW r \in Reqs, Moves(req[r], req'[r])
  PROVE  (Plain(req[r]) /\ Entering(req[r]))'
<1>1. PICK old, new : old = req[r] /\ new = req'[r]
  OBVIOUS
<1>2. Plain(old) /\ Entering(old) /\ Moves(old, new)
  BY <1>1 DEF CountInv
<1>3. Plain(new)
  BY <1>2 DEF Plain, Moves, Idle, Begins, Same, Continues, ReadsGrade, ReadsEntries, LocksTour,
              LocksWinner, Freezeouts
<1>4. ASSUME new.op \in RegisterOps, new.pc \in HoldingSteps
      PROVE  tours'[new.tour].status = "REGISTERING"
  <2>1. new.op # "finish" /\ new.pc # "idle"
    BY <1>4 DEF RegisterOps, HoldingSteps
  <2>2. CASE new.op = old.op /\ new.tour = old.tour /\ old.pc \in HoldingSteps
    <3>1. tours[old.tour].status = "REGISTERING"
      BY <1>2, <1>4, <2>2 DEF Entering
    <3> QED
      BY <1>1, <2>1, <2>2, <3>1, StaysOpen
  <2>3. CASE Continues(old, new) /\ old.pc \notin HoldingSteps
    <3>1. MayEnter(old.tour) /\ tours' = tours /\ new.tour = old.tour /\ old.pc # "idle"
      BY <1>4, <2>3 DEF Continues, Same
    <3>2. Open(old.tour)
      BY <1>1, <3>1, OwnShape DEF ShapeOf
    <3>3. CountSound(old.tour) /\ tours[old.tour].setting \in ValidSettings
      BY <3>2 DEF CountInv, CountSound, Open
    <3>4. ~Setting(old.tour).late /\ ~Setting(old.tour).reentry
      BY <3>3 DEF Freezeouts, Setting
    <3> QED
      BY <3>1, <3>4 DEF MayEnter
  <2> QED
    BY <1>2, <1>4, <2>1, <2>2, <2>3 DEF Moves, Idle, Begins, Same, Continues, ReadsGrade,
                                        ReadsEntries, LocksTour, LocksWinner, HoldingSteps
<1> QED
  BY <1>1, <1>3, <1>4 DEF Plain, Entering, HoldingSteps

\* The invariant about places is one.
LEMMA CountKept ==
  ASSUME Freezeouts, DeskInv, NobodyEdits, CountInv, [Next]_vars
  PROVE  CountInv'
<1>1. RowStep
  BY StepsOfRows DEF CountInv
<1>2. \A t \in Tournaments : CountSound(t)'
  BY <1>1, CountRows
<1>3. \A r \in Reqs : (Plain(req[r]) /\ Entering(req[r]))'
  BY <1>1, RequestMoves, CountRequests
<1> QED
  BY <1>2, <1>3 DEF CountInv

\* It holds initially.
LEMMA InitCount ==
  ASSUME Init
  PROVE  CountInv
<1>1. \A t \in Tournaments : tours[t].status = "NONE"
  BY DEF Init, NoTour
<1>2. \A r \in Reqs : req[r].pc = "idle"
  BY DEF Init, Idle
<1>3. \A t \in Tournaments : CountSound(t)
  BY <1>1 DEF CountSound
<1> QED
  BY <1>2, <1>3 DEF CountInv, Plain, Entering, HoldingSteps

\* In a freezeout without late entries the places count down.
LEMMA CountedDown ==
  ASSUME CountInv
  PROVE  PlacesCountDown
<1> SUFFICES ASSUME NEW t \in Tournaments, tours[t].status = "RUNNING"
             PROVE  LET out == {e \in EntriesOf(t) : entries[e].status = "ELIMINATED"}
                        alive == Cardinality(AliveIn(t))
                    IN  {entries[e].position : e \in out} = alive + 1 .. alive + Cardinality(out)
  BY DEF PlacesCountDown
<1>1. CountDown(t) /\ \A e \in EntriesOf(t) : entries[e].status # "PAID"
  BY DEF CountInv, CountSound
<1>2. Out(t) = {e \in EntriesOf(t) : entries[e].status = "ELIMINATED"}
  BY <1>1 DEF Out
<1> QED
  BY <1>1, <1>2 DEF CountDown

-----------------------------------------------------------------------------
(* Prizes.                                                                 *)

\* The places are counted as long as the tournament runs, and after.
LEMMA Counting ==
  ASSUME CountInv, PrizeInv, NEW t \in Tournaments, tours[t].status \in {"RUNNING", "FINISHED"}
  PROVE  CountDown(t)
BY DEF CountInv, CountSound, PrizeInv, PlacesSound

\* A place is one entry's.
LEMMA PlaceTaken ==
  ASSUME NEW t, CountDown(t), NEW p, NEW e, NEW f, Holds(t, e, p), Holds(t, f, p)
  PROVE  e = f
<1>1. CASE e \in Out(t) /\ f \in Out(t)
  <2>1. entries[e].position = p /\ entries[f].position = p
    BY <1>1, EntrySets DEF Holds
  <2> QED
    BY <1>1, <2>1 DEF CountDown
<1>2. ASSUME NEW g \in Out(t), NEW a, entries[g].position = 1, AliveIn(t) = {a} PROVE FALSE
  <2>1. Cardinality(AliveIn(t)) = 1
    BY <1>2, FS_Singleton
  <2>2. entries[g].position \in {entries[h].position : h \in Out(t)}
    OBVIOUS
  <2>3. entries[g].position \in 1 + 1 .. 1 + Cardinality(Out(t))
    BY <2>1, <2>2 DEF CountDown
  <2> QED
    BY <1>2, <2>3, EntrySets
<1>3. CASE e \notin Out(t) \/ f \notin Out(t)
  BY <1>2, <1>3 DEF Holds
<1> QED
  BY <1>1, <1>3

\* Who holds two places holds one.
LEMMA OnePlace ==
  ASSUME NEW t, NEW e, NEW p, NEW n, Holds(t, e, p), Holds(t, e, n)
  PROVE  p = n
BY EntrySets DEF Holds

\* A share is what the percentage is of the pool, rounded.
LEMMA ShareBound ==
  ASSUME NEW pool \in Nat, NEW most \in Nat, pool <= most, NEW percentage \in Nat
  PROVE  /\ Share(pool, percentage) \in Nat
         /\ 10000 * Share(pool, percentage) <= most * percentage + 5000
<1>1. PICK a, b : a = pool * percentage /\ b = most * percentage
  OBVIOUS
<1>2. a \in Nat /\ b \in Nat /\ a <= b
  <2>1. PICK d \in Nat : most = pool + d
    <3>1. most - pool \in Nat /\ most = pool + (most - pool)
      OBVIOUS
    <3> QED
      BY <3>1
  <2>2. b = a + d * percentage /\ d * percentage \in Nat /\ a \in Nat
    BY <1>1, <2>1
  <2> QED
    BY <2>2
<1>3. \A n \in Nat : (n \div 10000) \in Nat /\ 10000 * (n \div 10000) <= n
  OBVIOUS
<1>4. Share(pool, percentage) = (a + 5000) \div 10000 /\ a + 5000 \in Nat
  BY <1>1, <1>2 DEF Share
<1>5. Share(pool, percentage) \in Nat /\ 10000 * Share(pool, percentage) <= a + 5000
  BY <1>3, <1>4
<1> QED
  BY <1>1, <1>2, <1>5

\* What a finish that pays does to the entries.
LEMMA AfterPay ==
  ASSUME DeskInv, NEW t \in Tournaments, NEW q, Pays(q, t), CountDown(t), Decision(q, t)
  PROVE  /\ EntriesOf(t)' = EntriesOf(t)
         /\ \A e \in EntriesOf(t) :
              /\ PaidBy(q, e) =>
                   /\ entries'[e].status = "PAID" /\ entries'[e].paid
                   /\ \E i \in DOMAIN q.payouts :
                        /\ q.payouts[i].entry = e /\ entries'[e].prize = q.payouts[i].amount
                        /\ entries'[e].position = q.payouts[i].position
              /\ ~PaidBy(q, e) =>
                   /\ entries'[e].status = entries[e].status /\ entries'[e].paid = entries[e].paid
                   /\ entries'[e].prize = entries[e].prize
              /\ e \in Out(t) => entries'[e].position = entries[e].position
              /\ e \in AliveIn(t) /\ PaidBy(q, e) =>
                   AliveIn(t) = {e} /\ entries'[e].position = 1
              /\ e \in AliveIn(t) /\ ~PaidBy(q, e) =>
                   \/ entries'[e].position = entries[e].position
                   \/ AliveIn(t) = {e} /\ entries'[e].position = 1
<1>1. \A e \in Entries :
       /\ entries'[e].tour = entries[e].tour
       /\ ~PaidBy(q, e) /\ e # q.winner => entries'[e] = entries[e]
       /\ ~PaidBy(q, e) /\ e = q.winner => entries'[e] = [entries[e] EXCEPT !.position = 1]
       /\ PaidBy(q, e) =>
            /\ entries'[e].status = "PAID" /\ entries'[e].paid
            /\ \E i \in DOMAIN q.payouts :
                 /\ q.payouts[i].entry = e
                 /\ entries'[e].prize = q.payouts[i].amount
                 /\ entries'[e].position = q.payouts[i].position
  BY DEF Pays
<1>2. EntriesOf(t)' = EntriesOf(t)
  BY <1>1 DEF EntriesOf
<1>3. ASSUME NEW e \in EntriesOf(t), PaidBy(q, e)
      PROVE  /\ e \in Out(t) => entries'[e].position = entries[e].position
             /\ e \in AliveIn(t) => AliveIn(t) = {e} /\ entries'[e].position = 1
  <2>1. e \in Entries
    BY EntrySets
  <2>2. PICK i \in DOMAIN q.payouts :
          q.payouts[i].entry = e /\ entries'[e].position = q.payouts[i].position
    BY <1>1, <1>3, <2>1
  <2>3. Holds(t, e, entries'[e].position)
    BY <2>2 DEF Decision
  <2> QED
    BY <2>3, EntrySets DEF Holds
<1>4. ASSUME NEW e \in EntriesOf(t), ~PaidBy(q, e)
      PROVE  /\ entries'[e].status = entries[e].status /\ entries'[e].paid = entries[e].paid
             /\ entries'[e].prize = entries[e].prize
             /\ e \in Out(t) => entries'[e].position = entries[e].position
             /\ e \in AliveIn(t) =>
                  \/ entries'[e].position = entries[e].position
                  \/ AliveIn(t) = {e} /\ entries'[e].position = 1
  <2>1. e \in Entries /\ entries[e] \in EntryRows
    BY EntryRowIn
  <2>2. CASE e # q.winner
    BY <1>1, <1>4, <2>1, <2>2
  <2>3. CASE e = q.winner
    <3>1. PICK old, row : old = entries[e] /\ row = [old EXCEPT !.position = 1]
      OBVIOUS
    <3>2. entries'[e] = row
      BY <1>1, <1>4, <2>1, <2>3, <3>1
    <3>3. /\ row.status = old.status /\ row.paid = old.paid
          /\ row.prize = old.prize /\ row.position = 1
      BY <2>1, <3>1 DEF EntryRows
    <3>4. Holds(t, e, 1)
      BY <2>1, <2>3, TournamentConstants DEF Decision, Entries
    <3>5. /\ e \in Out(t) => entries[e].position = 1
          /\ e \in AliveIn(t) => AliveIn(t) = {e}
      BY <3>4, EntrySets DEF Holds
    <3> QED
      BY <3>1, <3>2, <3>3, <3>5
  <2> QED
    BY <2>2, <2>3
<1>5. \A e \in EntriesOf(t) : e \in Entries
  BY EntrySets
<1> QED
  BY <1>1, <1>2, <1>3, <1>4, <1>5, ZenonT(60)

\* The places after a finish that pays.
LEMMA PayCountDown ==
  ASSUME DeskInv, NEW t \in Tournaments, NEW q, Pays(q, t), CountDown(t), Decision(q, t)
  PROVE  /\ CountDown(t)'
         /\ \A e, p : Holds(t, e, p) => Holds(t, e, p)'
<1> DEFINE last == {e \in AliveIn(t) : PaidBy(q, e)}
<1>1. /\ EntriesOf(t)' = EntriesOf(t)
      /\ \A e \in EntriesOf(t) : entries[e].status \in {"REGISTERED", "ELIMINATED", "PAID"}
      /\ \A e \in EntriesOf(t) :
           /\ PaidBy(q, e) => entries'[e].status = "PAID"
           /\ ~PaidBy(q, e) => entries'[e].status = entries[e].status
           /\ e \in Out(t) => entries'[e].position = entries[e].position
           /\ e \in AliveIn(t) /\ PaidBy(q, e) => AliveIn(t) = {e} /\ entries'[e].position = 1
  BY AfterPay DEF CountDown
<1>2. AliveIn(t)' = AliveIn(t) \ last /\ Out(t)' = Out(t) \cup last
  BY <1>1 DEF AliveIn, Alive, Out
<1>3. PICK n, m : n = Cardinality(AliveIn(t)) /\ m = Cardinality(Out(t))
  OBVIOUS
<1>4. n \in Nat /\ m \in Nat
  BY <1>3, EntrySets
<1>5. /\ {entries[f].position : f \in Out(t)} = n + 1 .. n + m
      /\ \A f, g \in Out(t) : entries[f].position = entries[g].position => f = g
  BY <1>3 DEF CountDown
<1>6. /\ \A f \in Out(t) : /\ entries'[f].position = entries[f].position
                           /\ entries[f].position \in n + 1 .. n + m
      /\ {entries'[f].position : f \in Out(t)} = n + 1 .. n + m
  <2>1. \A f \in Out(t) : f \in EntriesOf(t)
    BY EntrySets
  <2> QED
    BY <1>1, <1>5, <2>1
<1>7. \A f \in EntriesOf(t) : entries'[f].status \in {"REGISTERED", "ELIMINATED", "PAID"}
  BY <1>1
<1>8. CASE last = {}
  <2>1. AliveIn(t)' = AliveIn(t) /\ Out(t)' = Out(t)
    BY <1>2, <1>8
  <2>2. CountDown(t)'
    BY <1>1, <1>3, <1>5, <1>6, <1>7, <2>1 DEF CountDown
  <2>3. \A e, p : Holds(t, e, p) => Holds(t, e, p)'
    BY <1>1, <1>6, <2>1 DEF Holds
  <2> QED
    BY <2>2, <2>3
<1>9. CASE last # {}
  <2>1. PICK c \in last : TRUE
    BY <1>9
  <2>2. /\ AliveIn(t) = {c} /\ entries'[c].position = 1 /\ last = {c}
        /\ c \in EntriesOf(t) /\ c \notin Out(t)
    BY <1>1, <2>1, EntrySets
  <2>3. AliveIn(t)' = {} /\ Out(t)' = Out(t) \cup {c}
    BY <1>2, <2>2
  <2>4. n = 1
    BY <1>3, <2>2, FS_Singleton
  <2>5. Cardinality({}) = 0 /\ Cardinality(Out(t) \cup {c}) = m + 1
    BY <1>3, <2>2, FS_EmptySet, FS_AddElement, EntrySets
  <2>6. {entries'[f].position : f \in Out(t) \cup {c}} = 0 + 1 .. 0 + (m + 1)
    <3>1. {entries'[f].position : f \in Out(t) \cup {c}}
            = {entries'[f].position : f \in Out(t)} \cup {entries'[c].position}
      OBVIOUS
    <3>2. (1 + 1 .. 1 + m) \cup {1} = 0 + 1 .. 0 + (m + 1)
      BY <1>4
    <3> QED
      BY <1>6, <2>2, <2>4, <3>1, <3>2
  <2>7. \A f, g \in Out(t) \cup {c} : entries'[f].position = entries'[g].position => f = g
    <3>1. \A f \in Out(t) : entries'[f].position # 1
      BY <1>4, <1>6, <2>4
    <3> QED
      BY <1>5, <1>6, <2>2, <3>1
  <2> HIDE DEF last
  <2>8. CountDown(t)'
    BY <1>1, <1>7, <2>3, <2>5, <2>6, <2>7 DEF CountDown
  <2>9. \A e, p : Holds(t, e, p) => Holds(t, e, p)'
    BY <1>1, <1>6, <2>2, <2>3 DEF Holds
  <2> QED
    BY <2>8, <2>9
<1> QED
  BY <1>8, <1>9

\* Who holds a place keeps it.
LEMMA HoldsKept ==
  ASSUME DeskInv, CountInv, PrizeInv, RowStep, NEW t \in Tournaments,
         tours[t].status \in {"RUNNING", "FINISHED"}
  PROVE  /\ \A e, p : Holds(t, e, p) => Holds(t, e, p)'
         /\ tours'[t].setting = tours[t].setting /\ tours'[t].pool = tours[t].pool
         /\ tours'[t].status \in {tours[t].status, "FINISHED"}
<1>1. CountDown(t)
  BY Counting
<1>2. CASE SameTour(t)
  BY <1>2, SamePlaces
<1>3. ~Opens(t) /\ \A e : ~Enters(t, e)
  BY DEF Opens, Enters
<1>4. ASSUME NEW f, Leaves(t, f)
      PROVE  /\ \A e, p : Holds(t, e, p) => Holds(t, e, p)'
             /\ tours'[t].setting = tours[t].setting /\ tours'[t].pool = tours[t].pool
             /\ tours'[t].status \in {tours[t].status, "FINISHED"}
  <2>1. /\ f \in AliveIn(t) /\ EntriesOf(t)' = EntriesOf(t)
        /\ AliveIn(t)' = AliveIn(t) \ {f} /\ Out(t)' = Out(t) \cup {f}
        /\ \A e \in EntriesOf(t) \ {f} : entries'[e] = entries[e]
        /\ entries'[f].position = Cardinality(AliveIn(t))
    BY <1>1, <1>4, LeavesCountDown
  <2>2. ASSUME NEW e, NEW p, Holds(t, e, p) PROVE Holds(t, e, p)'
    <3>1. CASE e \in Out(t) /\ entries[e].position = p
      <4>1. e # f /\ e \in EntriesOf(t)
        BY <2>1, <3>1, EntrySets
      <4> QED
        BY <2>1, <3>1, <4>1 DEF Holds
    <3>2. CASE p = 1 /\ AliveIn(t) = {e}
      <4>1. e = f /\ Cardinality(AliveIn(t)) = 1
        BY <2>1, <3>2, FS_Singleton
      <4> QED
        BY <2>1, <2>2, <3>2, <4>1 DEF Holds
    <3> QED
      BY <2>2, <3>1, <3>2 DEF Holds
  <2> QED
    BY <1>4, <2>2 DEF Leaves
<1>5. ASSUME NEW r \in Reqs, Pays(req[r], t)
      PROVE  /\ \A e, p : Holds(t, e, p) => Holds(t, e, p)'
             /\ tours'[t].setting = tours[t].setting /\ tours'[t].pool = tours[t].pool
             /\ tours'[t].status \in {tours[t].status, "FINISHED"}
  <2>1. Decision(req[r], t)
    BY <1>5 DEF Pays, PrizeInv, FinishSound
  <2>2. \A e, p : Holds(t, e, p) => Holds(t, e, p)'
    BY <1>1, <1>5, <2>1, PayCountDown
  <2> QED
    BY <1>5, <2>2 DEF Pays
<1> QED
  BY <1>2, <1>3, <1>4, <1>5, RowStepOf

\* What a finish that pays knows.
LEMMA PayingKnows ==
  ASSUME DeskInv, CountInv, PrizeInv, NEW r \in Reqs, NEW t, Pays(req[r], t)
  PROVE  /\ t \in Tournaments /\ Open(t) /\ CountDown(t) /\ Decision(req[r], t)
         /\ req[r] \in TourRequests /\ req[r].pool <= tours[t].pool
         /\ \A i \in DOMAIN req[r].payouts :
              /\ req[r].payouts[i].entry \in EntriesOf(t)
              /\ ~entries[req[r].payouts[i].entry].paid
<1>1. PICK q : q = req[r]
  OBVIOUS
<1>2. /\ q.op = "finish" /\ q.pc = "pay" /\ q.tour = t /\ q.next > Len(q.payouts)
      /\ Open(t) /\ t \in Tournaments
  BY <1>1 DEF Pays, Open
<1>3. FinishSound(q) /\ q \in TourRequests
  BY <1>1, OwnShape DEF PrizeInv
<1>4. Decision(q, t) /\ StillDue(q) /\ q.pool <= tours[t].pool
  BY <1>2, <1>3 DEF FinishSound
<1>5. CountDown(t)
  BY <1>2, <1>4, Counting DEF Decision
<1>6. \A i \in DOMAIN q.payouts : i < q.next
  <2>1. q.payouts \in Seq(PayoutRows) /\ q.next \in Nat
    BY <1>3 DEF TourRequests
  <2> QED
    BY <1>2, <2>1
<1>7. \A i \in DOMAIN q.payouts : ~entries[q.payouts[i].entry].paid
  BY <1>2, <1>4, <1>6 DEF StillDue
<1>8. \A i \in DOMAIN q.payouts : q.payouts[i].entry \in EntriesOf(t)
  BY <1>4 DEF Decision, Holds
<1> QED
  BY <1>1, <1>2, <1>3, <1>4, <1>5, <1>7, <1>8

\* Once a tournament is finished, no finish pays anything.
LEMMA PaysNothingTwice ==
  ASSUME DeskInv, CountInv, PrizeInv, NEW r \in Reqs, NEW t, Pays(req[r], t),
         tours[t].status = "FINISHED"
  PROVE  req[r].payouts = <<>>
<1>1. PICK q : q = req[r]
  OBVIOUS
<1>2. /\ t \in Tournaments /\ CountDown(t) /\ Decision(q, t) /\ q \in TourRequests
      /\ \A i \in DOMAIN q.payouts :
           q.payouts[i].entry \in EntriesOf(t) /\ ~entries[q.payouts[i].entry].paid
  BY <1>1, PayingKnows
<1>3. ASSUME NEW i \in DOMAIN q.payouts PROVE FALSE
  <2>1. PICK p : p = q.payouts[i].position
    OBVIOUS
  <2>2. p \in DOMAIN Prizes(t) /\ Holds(t, q.payouts[i].entry, p)
    BY <1>2, <2>1 DEF Decision
  <2>3. PICK e \in EntriesOf(t) : entries[e].paid /\ entries[e].position = p
    BY <1>2, <2>2 DEF PrizeInv, PlacesSound
  <2>4. entries[e].status = "PAID"
    BY <2>3, EntrySets DEF PrizeInv, PaidOut
  <2>5. Holds(t, e, p)
    BY <2>3, <2>4 DEF Holds, Out
  <2>6. e = q.payouts[i].entry
    BY <1>2, <2>2, <2>5, PlaceTaken
  <2> QED
    BY <1>2, <2>3, <2>6
<1>4. q.payouts \in Seq(PayoutRows)
  BY <1>2 DEF TourRequests
<1>5. Len(q.payouts) = 0
  <2>1. Len(q.payouts) \in Nat /\ DOMAIN q.payouts = 1 .. Len(q.payouts)
    BY <1>4
  <2>2. 1 \notin DOMAIN q.payouts
    BY <1>3
  <2> QED
    BY <2>1, <2>2
<1> QED
  BY <1>1, <1>4, <1>5

\* A step leaves an open tournament its grade, takes nothing out of its pool, and what a
\* finish decided is still so.
LEMMA DecisionKept ==
  ASSUME DeskInv, CountInv, PrizeInv, RowStep, NEW t \in Tournaments, NEW q, Decision(q, t)
  PROVE  Decision(q, t)'
<1>1. tours[t].status \in {"RUNNING", "FINISHED"}
  BY DEF Decision
<1>2. /\ \A e, p : Holds(t, e, p) => Holds(t, e, p)'
      /\ tours'[t].setting = tours[t].setting /\ tours'[t].pool = tours[t].pool
      /\ tours'[t].status \in {tours[t].status, "FINISHED"}
  BY <1>1, HoldsKept
<1>3. Prizes(t)' = Prizes(t)
  BY <1>2 DEF Prizes, Setting
<1> QED
  BY <1>1, <1>2, <1>3 DEF Decision

\* A step leaves an open tournament its grade and takes nothing out of its pool.
LEMMA PoolGrows ==
  ASSUME DeskInv, RowStep, NEW t, Open(t)
  PROVE  /\ tours[t].pool \in Int /\ tours'[t].pool >= tours[t].pool
         /\ tours'[t].setting = tours[t].setting
<1>1. t \in Tournaments /\ ~Opens(t)
  BY DEF Open, Opens
<1>2. tours[t].pool \in Int
  BY <1>1 DEF DeskInv, Books, RowsTyped, TourRows
<1>3. CASE SameTour(t)
  BY <1>2, <1>3 DEF SameTour
<1>4. ASSUME NEW e, Enters(t, e) \/ Leaves(t, e)
      PROVE  tours'[t].pool >= tours[t].pool /\ tours'[t].setting = tours[t].setting
  BY <1>2, <1>4 DEF Enters, Leaves
<1>5. ASSUME NEW r \in Reqs, Pays(req[r], t)
      PROVE  tours'[t].pool >= tours[t].pool /\ tours'[t].setting = tours[t].setting
  BY <1>2, <1>5 DEF Pays
<1> QED
  BY <1>1, <1>2, <1>3, <1>4, <1>5, RowStepOf

\* An entry that was paid is out.
LEMMA PaidIsOut ==
  ASSUME PrizeInv, NEW t, NEW e \in EntriesOf(t)
  PROVE  /\ entries[e].paid <=> entries[e].status = "PAID"
         /\ entries[e].paid => e \in Out(t)
BY EntrySets DEF PrizeInv, PaidOut, Out

\* The places and prizes after an elimination.
LEMMA LeavesPlaces ==
  ASSUME DeskInv, CountInv, PrizeInv, NEW t \in Tournaments, NEW e, Leaves(t, e)
  PROVE  PlacesSound(t)'
<1>1. PlacesSound(t) /\ CountSound(t)
  BY DEF PrizeInv, CountInv
<1>2. /\ e \in Entries /\ entries[e].tour = t /\ tours[t].status # "NONE"
      /\ entries[e].status \notin {"NONE", "ELIMINATED", "PAID"}
      /\ tours'[t].status = IF tours[t].status = "REGISTERING" THEN "RUNNING" ELSE tours[t].status
      /\ tours'[t].setting = tours[t].setting /\ tours'[t].pool = tours[t].pool
      /\ entries'[e].status = "ELIMINATED" /\ entries'[e].paid = entries[e].paid
  BY DEF Leaves, EntryIn, Open
<1>3. e \in EntriesOf(t) /\ ~entries[e].paid
  BY <1>2, PaidIsOut DEF EntriesOf
<1>4. CountDown(t)
  <2>1. CASE tours[t].status = "REGISTERING"
    BY <1>1, <2>1, FirstLeaves DEF CountSound
  <2>2. CASE tours[t].status \in {"RUNNING", "FINISHED"}
    BY <2>2, Counting
  <2>3. tours[t] \in TourRows
    BY DEF DeskInv, Books, RowsTyped
  <2> QED
    BY <1>2, <2>1, <2>2, <2>3 DEF TourRows
<1>5. /\ e \in AliveIn(t) /\ EntriesOf(t)' = EntriesOf(t) /\ CountDown(t)'
      /\ \A f \in EntriesOf(t) \ {e} : entries'[f] = entries[f]
  BY <1>4, LeavesCountDown
<1>6. Prizes(t)' = Prizes(t)
  BY <1>2 DEF Prizes, Setting
<1>7. ASSUME NEW f \in EntriesOf(t), entries'[f].paid
      PROVE  /\ tours'[t].status = "FINISHED" /\ entries'[f].position \in DOMAIN Prizes(t)
             /\ 10000 * entries'[f].prize
                  <= tours'[t].pool * Prizes(t)[entries'[f].position] + 5000
  <2>1. f # e /\ entries'[f] = entries[f]
    BY <1>2, <1>3, <1>5, <1>7
  <2> QED
    BY <1>1, <1>2, <1>7, <2>1 DEF PlacesSound
<1>8. ASSUME NEW f \in EntriesOf(t), entries'[f].status = "REGISTERED", entries'[f].position # 0
      PROVE  FALSE
  <2>1. f # e /\ entries'[f] = entries[f]
    BY <1>2, <1>5, <1>8
  <2>2. AliveIn(t) = {f}
    BY <1>1, <1>8, <2>1 DEF PlacesSound
  <2> QED
    BY <1>5, <2>1, <2>2
<1>9. ASSUME tours'[t].status = "FINISHED", NEW p \in DOMAIN Prizes(t)
      PROVE  \E f \in EntriesOf(t) : entries'[f].paid /\ entries'[f].position = p
  <2>1. tours[t].status = "FINISHED"
    BY <1>2, <1>9
  <2>2. PICK f \in EntriesOf(t) : entries[f].paid /\ entries[f].position = p
    BY <1>1, <2>1 DEF PlacesSound
  <2>3. entries'[f] = entries[f]
    BY <1>3, <1>5, <2>2
  <2> QED
    BY <2>2, <2>3
<1>10. tours'[t].status # "NONE"
  BY <1>2
<1> QED
  BY <1>5, <1>6, <1>7, <1>8, <1>9, <1>10 DEF PlacesSound

\* The places and prizes after an entry.
LEMMA EntersPlaces ==
  ASSUME DeskInv, CountInv, PrizeInv, NEW t \in Tournaments, NEW e, Enters(t, e)
  PROVE  PlacesSound(t)'
<1>1. PlacesSound(t) /\ CountSound(t)
  BY DEF PrizeInv, CountInv
<1>2. /\ tours[t].status = "REGISTERING" /\ tours'[t].status = "REGISTERING"
      /\ \A f \in Entries \ {e} : entries'[f] = entries[f]
      /\ ~entries'[e].paid /\ entries'[e].position = 0
  BY DEF Enters
<1>3. ASSUME NEW f \in EntriesOf(t)', f # e
      PROVE  f \in EntriesOf(t) /\ entries'[f] = entries[f]
  <2>1. f \in Entries /\ entries'[f].tour = t
    BY DEF EntriesOf
  <2>2. entries'[f] = entries[f]
    BY <1>2, <1>3, <2>1
  <2> QED
    BY <2>1, <2>2 DEF EntriesOf
<1>4. \A f \in EntriesOf(t)' : ~entries'[f].paid
  BY <1>1, <1>2, <1>3 DEF PlacesSound
<1>5. \A f \in EntriesOf(t)' : entries'[f].status = "REGISTERED" => entries'[f].position = 0
  BY <1>1, <1>2, <1>3 DEF PlacesSound
<1> QED
  BY <1>2, <1>4, <1>5 DEF PlacesSound

\* The places and prizes after a finish that pays.
LEMMA PaysPlaces ==
  ASSUME DeskInv, CountInv, PrizeInv, NEW r \in Reqs, NEW t, Pays(req[r], t)
  PROVE  PlacesSound(t)'
<1>1. PICK q : q = req[r]
  OBVIOUS
<1>2. /\ t \in Tournaments /\ CountDown(t) /\ Decision(q, t) /\ q \in TourRequests
      /\ q.pool <= tours[t].pool /\ Pays(q, t) /\ Open(t)
  BY <1>1, PayingKnows
<1>3. PlacesSound(t) /\ CountDown(t)' /\ EntriesOf(t)' = EntriesOf(t)
  BY <1>2, PayCountDown, AfterPay DEF PrizeInv
<1>4. /\ tours'[t].status = "FINISHED"
      /\ tours'[t].setting = tours[t].setting /\ tours'[t].pool = tours[t].pool
      /\ Prizes(t)' = Prizes(t)
  BY <1>2 DEF Pays, Prizes, Setting
<1>5. ASSUME NEW e \in EntriesOf(t), PaidBy(q, e)
      PROVE  /\ entries'[e].status = "PAID" /\ entries'[e].paid
             /\ \E i \in DOMAIN q.payouts :
                  /\ q.payouts[i].entry = e /\ entries'[e].prize = q.payouts[i].amount
                  /\ entries'[e].position = q.payouts[i].position
  BY <1>2, <1>5, AfterPay
<1>6. ASSUME NEW e \in EntriesOf(t), ~PaidBy(q, e)
      PROVE  /\ entries'[e].status = entries[e].status /\ entries'[e].paid = entries[e].paid
             /\ entries'[e].prize = entries[e].prize
             /\ e \in Out(t) => entries'[e].position = entries[e].position
             /\ e \in AliveIn(t) =>
                  \/ entries'[e].position = entries[e].position
                  \/ AliveIn(t) = {e} /\ entries'[e].position = 1
  BY <1>2, <1>6, AfterPay
<1>7. ASSUME NEW e \in EntriesOf(t), entries'[e].paid
      PROVE  /\ entries'[e].position \in DOMAIN Prizes(t)
             /\ 10000 * entries'[e].prize
                  <= tours[t].pool * Prizes(t)[entries'[e].position] + 5000
  <2>1. CASE PaidBy(q, e)
    <3>1. PICK i \in DOMAIN q.payouts :
            /\ q.payouts[i].entry = e /\ entries'[e].prize = q.payouts[i].amount
            /\ entries'[e].position = q.payouts[i].position
      BY <1>5, <2>1
    <3>2. PICK p, n : p = q.payouts[i].position /\ n = Prizes(t)[p]
      OBVIOUS
    <3>3. p \in DOMAIN Prizes(t) /\ q.payouts[i].amount = Share(q.pool, n)
      BY <1>2, <3>2 DEF Decision
    <3>4. n \in Nat /\ tours[t].pool \in Nat /\ q.pool \in Nat
      <4>1. tours[t].setting \in DOMAIN Settings
        BY <1>2 DEF DeskInv, Books, TourSound, Open
      <4>2. n \in Nat
        BY <3>2, <3>3, <4>1, SettingConstants DEF Prizes, Setting
      <4>3. q.pool \in Nat
        BY <1>2 DEF TourRequests
      <4> QED
        BY <1>2, <4>2, <4>3, PoolNatural DEF DeskInv, Open
    <3>5. 10000 * Share(q.pool, n) <= tours[t].pool * n + 5000
      BY <1>2, <3>4, ShareBound
    <3> QED
      BY <3>1, <3>2, <3>3, <3>5
  <2>2. CASE ~PaidBy(q, e)
    <3>1. /\ entries[e].paid /\ e \in Out(t) /\ entries'[e].position = entries[e].position
          /\ entries'[e].prize = entries[e].prize
      BY <1>6, <1>7, <2>2, PaidIsOut
    <3> QED
      BY <1>3, <3>1 DEF PlacesSound
  <2> QED
    BY <2>1, <2>2
<1>8. ASSUME NEW e \in EntriesOf(t), entries'[e].status = "REGISTERED", entries'[e].position # 0
      PROVE  entries'[e].position = 1 /\ AliveIn(t)' = {e}
  <2>1. ~PaidBy(q, e) /\ entries[e].status = "REGISTERED"
    BY <1>5, <1>6, <1>8
  <2>2. e \in AliveIn(t)
    BY <2>1 DEF AliveIn, Alive
  <2>3. entries'[e].position = 1 /\ AliveIn(t) = {e}
    BY <1>3, <1>6, <1>8, <2>1, <2>2 DEF PlacesSound
  <2>4. \A f \in EntriesOf(t) :
          entries'[f].status = "REGISTERED" => entries[f].status = "REGISTERED"
    BY <1>5, <1>6
  <2>5. AliveIn(t)' \subseteq AliveIn(t) /\ e \in AliveIn(t)'
    BY <1>3, <1>8, <2>4 DEF AliveIn, Alive
  <2> QED
    BY <2>3, <2>5
<1>9. ASSUME NEW p \in DOMAIN Prizes(t)
      PROVE  \E e \in EntriesOf(t) : entries'[e].paid /\ entries'[e].position = p
  <2>1. CASE q.payouts = <<>>
    <3>1. PICK e \in EntriesOf(t) : entries[e].paid /\ entries[e].position = p
      BY <1>2, <1>3, <2>1 DEF Decision, PlacesSound
    <3>2. ~PaidBy(q, e) /\ e \in Out(t)
      BY <2>1, <3>1, PaidIsOut DEF PaidBy
    <3> QED
      BY <1>6, <3>1, <3>2
  <2>2. CASE q.payouts # <<>>
    <3>1. PICK i \in DOMAIN q.payouts : q.payouts[i].position = p
      BY <1>2, <2>2 DEF Decision
    <3>2. PICK e : e = q.payouts[i].entry
      OBVIOUS
    <3>3. e \in EntriesOf(t) /\ PaidBy(q, e) /\ Holds(t, e, p)
      BY <1>2, <3>1, <3>2 DEF Decision, Holds, PaidBy
    <3>4. PICK j \in DOMAIN q.payouts :
            q.payouts[j].entry = e /\ entries'[e].position = q.payouts[j].position
      BY <1>5, <3>3
    <3>5. Holds(t, e, q.payouts[j].position)
      BY <1>2, <3>4 DEF Decision
    <3>6. q.payouts[j].position = p
      BY <3>3, <3>5, OnePlace
    <3> QED
      BY <1>5, <3>3, <3>4, <3>6
  <2> QED
    BY <2>1, <2>2
<1> QED
  BY <1>3, <1>4, <1>7, <1>8, <1>9 DEF PlacesSound

\* The places and prizes after a step.
LEMMA PlacesKept ==
  ASSUME DeskInv, CountInv, PrizeInv, RowStep, NEW t \in Tournaments
  PROVE  PlacesSound(t)'
<1>1. CASE SameTour(t)
  <2>1. PlacesSound(t)
    BY DEF PrizeInv
  <2>2. /\ EntriesOf(t)' = EntriesOf(t) /\ AliveIn(t)' = AliveIn(t)
        /\ \A e \in EntriesOf(t) : entries'[e] = entries[e]
        /\ Prizes(t)' = Prizes(t) /\ tours'[t] = tours[t]
        /\ CountDown(t)' <=> CountDown(t)
    BY <1>1, SamePlaces
  <2> QED
    BY <2>1, <2>2 DEF PlacesSound
<1>2. CASE Opens(t)
  <2>1. EntriesOf(t)' = {} /\ tours'[t].status = "REGISTERING"
    BY <1>2, OpensEmpty DEF Opens
  <2> QED
    BY <2>1 DEF PlacesSound
<1> QED
  BY <1>1, <1>2, EntersPlaces, LeavesPlaces, PaysPlaces, RowStepOf

\* The ledgers after a finish that pays.
LEMMA PaysOut ==
  ASSUME DeskInv, CountInv, PrizeInv, NEW r \in Reqs, NEW t, Pays(req[r], t), NEW e \in Entries
  PROVE  PaidOut(e)'
<1>1. PICK q : q = req[r]
  OBVIOUS
<1>2. /\ t \in Tournaments /\ Decision(q, t) /\ Pays(q, t)
      /\ \A i \in DOMAIN q.payouts :
           q.payouts[i].entry \in EntriesOf(t) /\ ~entries[q.payouts[i].entry].paid
  BY <1>1, PayingKnows
<1>3. /\ ~PaidBy(q, e) =>
           /\ e # q.winner => entries'[e] = entries[e]
           /\ e = q.winner => entries'[e] = [entries[e] EXCEPT !.position = 1]
      /\ PaidBy(q, e) =>
           /\ entries'[e].status = "PAID" /\ entries'[e].paid
           /\ \E i \in DOMAIN q.payouts :
                q.payouts[i].entry = e /\ entries'[e].prize = q.payouts[i].amount
      /\ \A x : x \in PayoutsOf(e)' <=>
                  x \in PayoutsOf(e) \/ \E i \in DOMAIN q.payouts : LegOf(q, i, e, x)
  BY <1>2 DEF Pays
<1>4. PaidOut(e)
  BY DEF PrizeInv
<1>5. CASE ~PaidBy(q, e)
  <2>1. \A x : ~(\E i \in DOMAIN q.payouts : LegOf(q, i, e, x))
    BY <1>5 DEF PaidBy, LegOf
  <2>2. PayoutsOf(e)' = PayoutsOf(e)
    BY <1>3, <2>1
  <2>3. /\ entries'[e].status = entries[e].status /\ entries'[e].paid = entries[e].paid
        /\ entries'[e].prize = entries[e].prize
    <3>1. CASE e # q.winner
      BY <1>3, <1>5, <3>1
    <3>2. CASE e = q.winner
      <4>1. PICK old, row : old = entries[e] /\ row = [old EXCEPT !.position = 1]
        OBVIOUS
      <4>2. entries'[e] = row
        BY <1>3, <1>5, <3>2, <4>1
      <4>3. old \in EntryRows
        BY <4>1 DEF DeskInv, Books, RowsTyped
      <4>4. row.status = old.status /\ row.paid = old.paid /\ row.prize = old.prize
        BY <4>1, <4>3 DEF EntryRows
      <4> QED
        BY <4>1, <4>2, <4>4
    <3> QED
      BY <3>1, <3>2
  <2> QED
    BY <1>4, <2>2, <2>3 DEF PaidOut
<1>6. CASE PaidBy(q, e)
  <2>1. PICK i \in DOMAIN q.payouts :
          q.payouts[i].entry = e /\ entries'[e].prize = q.payouts[i].amount
    BY <1>3, <1>6
  <2>2. ~entries[e].paid /\ PayoutsOf(e) = {}
    BY <1>2, <1>4, <2>1 DEF PaidOut
  <2>3. ASSUME NEW j \in DOMAIN q.payouts, q.payouts[j].entry = e PROVE j = i
    <3>1. Holds(t, e, q.payouts[i].position) /\ Holds(t, e, q.payouts[j].position)
      BY <1>2, <2>1, <2>3 DEF Decision
    <3>2. q.payouts[i].position = q.payouts[j].position
      BY <3>1, OnePlace
    <3> QED
      BY <1>2, <3>2 DEF Decision
  <2>4. PICK x : x = Entry(PayoutKey(e), "TOURNAMENT_PAYOUT", q.payouts[i].amount,
                           BalanceAfter(entries[e].user, q.payouts, i), e)
    OBVIOUS
  <2>5. x.amount = q.payouts[i].amount /\ x.key = PayoutKey(e)
    BY <2>4 DEF Entry
  <2>6. LegOf(q, i, e, x)
    BY <2>1, <2>4 DEF LegOf
  <2>7. \A y : (\E j \in DOMAIN q.payouts : LegOf(q, j, e, y)) => y = x
    BY <2>3, <2>4 DEF LegOf
  <2>8. PayoutsOf(e)' = {x}
    BY <1>3, <2>2, <2>6, <2>7
  <2>9. entries'[e].status = "PAID" /\ entries'[e].paid /\ PayoutKey(e)' = PayoutKey(e)
    BY <1>3, <1>6 DEF PayoutKey
  <2>10. x.amount = entries'[e].prize
    BY <2>1, <2>5
  <2> QED
    BY <2>5, <2>8, <2>9, <2>10 DEF PaidOut
<1> QED
  BY <1>5, <1>6

\* The ledgers after a step.
LEMMA PaidOutKept ==
  ASSUME DeskInv, CountInv, PrizeInv, RowStep, NEW e \in Entries
  PROVE  PaidOut(e)'
<1>1. PaidOut(e) /\ PayoutKey(e)' = PayoutKey(e)
  BY DEF PrizeInv, PayoutKey
<1>2. ASSUME PayoutsOf(e)' = PayoutsOf(e), entries'[e] = entries[e] PROVE PaidOut(e)'
  BY <1>1, <1>2 DEF PaidOut
<1>3. CASE Still
  BY <1>2, <1>3 DEF Still, NothingPaid
<1>4. ASSUME NEW t, Opens(t) PROVE PaidOut(e)'
  BY <1>2, <1>4 DEF Opens, NothingPaid
<1>5. ASSUME PayoutsOf(e)' = PayoutsOf(e), entries[e].status # "PAID",
             entries'[e].status # "PAID", ~entries'[e].paid
      PROVE  PaidOut(e)'
  BY <1>1, <1>5 DEF PaidOut
<1>6. ASSUME NEW t, NEW f, Enters(t, f) PROVE PaidOut(e)'
  <2>1. PayoutsOf(e)' = PayoutsOf(e)
    BY <1>6 DEF Enters, NothingPaid
  <2>2. CASE e # f
    BY <1>2, <1>6, <2>1, <2>2 DEF Enters
  <2>3. CASE e = f
    BY <1>5, <1>6, <2>1, <2>3 DEF Enters
  <2> QED
    BY <2>2, <2>3
<1>7. ASSUME NEW t, NEW f, Leaves(t, f) PROVE PaidOut(e)'
  <2>1. PayoutsOf(e)' = PayoutsOf(e)
    BY <1>7 DEF Leaves, NothingPaid
  <2>2. CASE e # f
    BY <1>2, <1>7, <2>1, <2>2 DEF Leaves
  <2>3. CASE e = f
    <3>1. /\ entries[e].status # "PAID" /\ entries'[e].status # "PAID"
          /\ entries'[e].paid = entries[e].paid
      BY <1>7, <2>3 DEF Leaves
    <3> QED
      BY <1>1, <1>5, <2>1, <3>1 DEF PaidOut
  <2> QED
    BY <2>2, <2>3
<1> QED
  BY <1>3, <1>4, <1>6, <1>7, PaysOut DEF RowStep

\* Only a finish that pays an entry marks it as paid.
LEMMA PaidOnlyBy ==
  ASSUME DeskInv, PrizeInv, RowStep, NEW e \in Entries, ~entries[e].paid, entries'[e].paid
  PROVE  \E r \in Reqs : Pays(req[r], req[r].tour) /\ Finish(r) /\ PaidBy(req[r], e)
<1>1. ~Still /\ \A t : ~Opens(t)
  BY DEF Still, Opens
<1>2. ASSUME NEW t, NEW f, Enters(t, f) \/ Leaves(t, f) PROVE FALSE
  <2>1. CASE e # f
    BY <1>2, <2>1 DEF Enters, Leaves
  <2>2. CASE e = f
    BY <1>2, <2>2 DEF Enters, Leaves
  <2> QED
    BY <2>1, <2>2
<1>3. PICK r \in Reqs : Pays(req[r], req[r].tour) /\ Finish(r)
  BY <1>1, <1>2 DEF RowStep
<1>4. ASSUME ~PaidBy(req[r], e) PROVE FALSE
  <2>1. PICK q : q = req[r]
    OBVIOUS
  <2>2. /\ e # q.winner => entries'[e] = entries[e]
        /\ e = q.winner => entries'[e] = [entries[e] EXCEPT !.position = 1]
    BY <1>3, <1>4, <2>1 DEF Pays
  <2>3. PICK old, row : old = entries[e] /\ row = [old EXCEPT !.position = 1]
    OBVIOUS
  <2>4. old \in EntryRows
    BY <2>3 DEF DeskInv, Books, RowsTyped
  <2>5. row.paid = old.paid
    BY <2>3, <2>4 DEF EntryRows
  <2> QED
    BY <2>2, <2>3, <2>5
<1> QED
  BY <1>3, <1>4

\* Nobody pays the winners of a finish that holds the row.
LEMMA StillDueKept ==
  ASSUME DeskInv, CountInv, PrizeInv, RowStep, NEW s \in Reqs, req[s].op = "finish",
         req[s].pc = "pay", req'[s].pc # "idle", NEW i \in DOMAIN req[s].payouts,
         ~entries[req[s].payouts[i].entry].paid
  PROVE  ~entries'[req[s].payouts[i].entry].paid
<1>1. PICK e, t : e = req[s].payouts[i].entry /\ t = req[s].tour
  OBVIOUS
<1>2. EntryIn(e, t) /\ tourLock[t] = s
  BY <1>1, OwnShape DEF ShapeOf, LockShape, HoldingSteps
<1>3. ASSUME entries'[e].paid PROVE FALSE
  <2>1. PICK r \in Reqs : Pays(req[r], req[r].tour) /\ Finish(r) /\ PaidBy(req[r], e)
    BY <1>1, <1>2, <1>3, PaidOnlyBy DEF EntryIn
  <2>2. PICK z : z = req[r].tour
    OBVIOUS
  <2>3. req[r].op = "finish" /\ req[r].pc = "pay"
    BY <2>1 DEF Pays
  <2>4. e \in EntriesOf(z) /\ tourLock[z] = r
    <3>1. \A j \in DOMAIN req[r].payouts : req[r].payouts[j].entry \in EntriesOf(z)
      BY <2>1, <2>2, PayingKnows
    <3> QED
      BY <2>1, <2>2, <2>3, <3>1, OwnShape DEF PaidBy, LockShape, HoldingSteps
  <2>5. z = t /\ r = s
    BY <1>2, <2>4 DEF EntriesOf, EntryIn
  <2>6. req'[r].pc = "idle"
    BY <2>1 DEF Finish, Idle, DeskInv, Desk, RequestsTyped
  <2> QED
    BY <2>5, <2>6
<1> QED
  BY <1>1, <1>3

\* A finish pays each place of the grade whose holder was not paid, once.
EachPlaceOnce(q, holder, prizes, payouts) ==
  /\ \A i \in DOMAIN payouts :
       /\ payouts[i].position \in DOMAIN prizes
       /\ ~entries[holder[payouts[i].position]].paid
       /\ payouts[i].entry = holder[payouts[i].position]
       /\ payouts[i].amount = Share(q.pool, prizes[payouts[i].position])
       /\ \A j \in DOMAIN payouts : payouts[j].position = payouts[i].position => i = j
  /\ \A p \in DOMAIN prizes :
       ~entries[holder[p]].paid => \E i \in DOMAIN payouts : payouts[i].position = p

\* The payouts do so.
LEMMA PayoutsOnce ==
  ASSUME NEW n \in DOMAIN Settings, NEW q, NEW holder, NEW payouts,
         payouts = Payouts(q, holder, Settings[n].prizes)
  PROVE  EachPlaceOnce(q, holder, Settings[n].prizes, payouts)
<1> DEFINE prizes == Settings[n].prizes
           unpaid == Unpaid(holder, prizes)
           due == Ascending(unpaid)
<1>1. unpaid \in SUBSET Nat /\ IsFiniteSet(unpaid) /\ unpaid \subseteq DOMAIN prizes
  <2>1. unpaid \subseteq DOMAIN prizes
    BY DEF Unpaid
  <2>2. IsFiniteSet(DOMAIN prizes) /\ DOMAIN prizes \subseteq Nat
    BY SettingConstants
  <2> QED
    BY <2>1, <2>2, FS_Subset
<1>2. /\ \A i \in DOMAIN due : due[i] \in unpaid
      /\ \A i, j \in DOMAIN due : due[i] = due[j] => i = j
      /\ \A x \in unpaid : \E i \in DOMAIN due : due[i] = x
  BY <1>1, AscendingMembers, AscendingOnce
<1>3. DOMAIN payouts = DOMAIN due /\ \A i \in DOMAIN due :
        /\ payouts[i].position = due[i] /\ payouts[i].entry = holder[due[i]]
        /\ payouts[i].amount = Share(q.pool, prizes[due[i]])
  BY DEF Payouts
<1>4. \A p : p \in unpaid <=> p \in DOMAIN prizes /\ ~entries[holder[p]].paid
  BY DEF Unpaid
<1> HIDE DEF due, unpaid, prizes
<1>5. \A i \in DOMAIN payouts :
        /\ payouts[i].position \in DOMAIN prizes
        /\ ~entries[holder[payouts[i].position]].paid
        /\ payouts[i].entry = holder[payouts[i].position]
        /\ payouts[i].amount = Share(q.pool, prizes[payouts[i].position])
        /\ \A j \in DOMAIN payouts : payouts[j].position = payouts[i].position => i = j
  BY <1>2, <1>3, <1>4
<1>6. \A p \in DOMAIN prizes :
        ~entries[holder[p]].paid => \E i \in DOMAIN payouts : payouts[i].position = p
  BY <1>2, <1>3, <1>4
<1> QED
  BY <1>5, <1>6 DEF EachPlaceOnce, prizes

\* One member is all there is.
LEMMA OnlyMember ==
  ASSUME NEW S, IsFiniteSet(S), Cardinality(S) = 1, NEW x \in S
  PROVE  S = {x}
<1>1. Cardinality(S \ {x}) = 0 /\ IsFiniteSet(S \ {x})
  BY FS_RemoveElement
<1>2. S \ {x} = {}
  BY <1>1, FS_EmptySet
<1> QED
  BY <1>2

\* Whoever may stand for a place holds it, and then the tournament runs or ran.
LEMMA HoldersHold ==
  ASSUME EveryGradePaysMore, DeskInv, CountInv, PrizeInv, NEW t \in Tournaments, Open(t),
         NEW holder \in Holders(t, Prizes(t))
  PROVE  /\ tours[t].status \in {"RUNNING", "FINISHED"}
         /\ \A p \in DOMAIN Prizes(t) :
              holder[p] \in EntriesOf(t) /\ Holds(t, holder[p], p)
<1>1. CountSound(t) /\ PlacesSound(t) /\ tours[t].setting \in ValidSettings
  BY DEF CountInv, PrizeInv, CountSound, Open
<1>2. tours[t].setting \in DOMAIN Settings /\ DOMAIN Prizes(t) \subseteq Nat \ {0}
  BY <1>1, SettingConstants DEF ValidSettings, Prizes, Setting
<1>3. \A p \in DOMAIN Prizes(t) :
        /\ holder[p] \in EntriesOf(t)
        /\ p = 1 /\ Cardinality(AliveIn(t)) = 1 => holder[p] \in AliveIn(t)
        /\ ~(p = 1 /\ Cardinality(AliveIn(t)) = 1) => entries[holder[p]].position = p
  BY DEF Holders
<1>4. tours[t].status \in {"RUNNING", "FINISHED"}
  <2>1. PICK p \in DOMAIN Prizes(t) : p > 1
    BY <1>1 DEF EveryGradePaysMore, Prizes, Setting
  <2>2. holder[p] \in EntriesOf(t) /\ entries[holder[p]].position = p /\ p # 0
    BY <1>2, <1>3, <2>1
  <2>3. tours[t].status # "REGISTERING"
    BY <1>1, <2>2 DEF CountSound, PlacesSound
  <2>4. tours[t] \in TourRows /\ tours[t].status # "NONE"
    BY DEF DeskInv, Books, RowsTyped, Open
  <2> QED
    BY <2>3, <2>4 DEF TourRows
<1>5. ASSUME NEW p \in DOMAIN Prizes(t) PROVE Holds(t, holder[p], p)
  <2>1. PICK e : e = holder[p]
    OBVIOUS
  <2>2. CASE p = 1 /\ Cardinality(AliveIn(t)) = 1
    <3>1. e \in AliveIn(t)
      BY <1>3, <2>1, <2>2
    <3>2. AliveIn(t) = {e}
      BY <2>2, <3>1, OnlyMember, EntrySets
    <3> QED
      BY <2>1, <2>2, <3>2, <1>3 DEF Holds
  <2>3. CASE ~(p = 1 /\ Cardinality(AliveIn(t)) = 1)
    <3>1. e \in EntriesOf(t) /\ entries[e].position = p /\ p # 0
      BY <1>2, <1>3, <2>1, <2>3
    <3>2. CountDown(t)
      BY <1>4, Counting
    <3>3. entries[e].status \in {"REGISTERED", "ELIMINATED", "PAID"}
      BY <3>1, <3>2 DEF CountDown
    <3>4. CASE entries[e].status = "REGISTERED"
      BY <1>1, <2>1, <3>1, <3>4 DEF PlacesSound, Holds
    <3>5. CASE entries[e].status \in {"ELIMINATED", "PAID"}
      BY <2>1, <3>1, <3>5 DEF Out, Holds
    <3> QED
      BY <3>3, <3>4, <3>5
  <2> QED
    BY <2>2, <2>3
<1> QED
  BY <1>3, <1>4, <1>5

\* A tournament whose entries were all cancelled takes no finish.
LEMMA NobodyRefunded ==
  ASSUME DeskInv, CountInv, PrizeInv, NEW t \in Tournaments, Open(t)
  PROVE  ~(EntriesOf(t) # {} /\ NotRefunded(t) = {})
<1>1. CountSound(t) /\ tours[t] \in TourRows /\ tours[t].status # "NONE"
  BY DEF CountInv, DeskInv, Books, RowsTyped, Open
<1>2. \A e \in EntriesOf(t) : entries[e].status # "REFUNDED"
  <2>1. CASE tours[t].status = "REGISTERING"
    BY <1>1, <2>1 DEF CountSound
  <2>2. CASE tours[t].status \in {"RUNNING", "FINISHED"}
    BY <2>2, Counting DEF CountDown
  <2> QED
    BY <1>1, <2>1, <2>2 DEF TourRows
<1> QED
  BY <1>2 DEF NotRefunded

\* What a finish decides from one reading of the entries.
LEMMA DecisionMade ==
  ASSUME EveryGradePaysMore, DeskInv, CountInv, PrizeInv, NEW t \in Tournaments, Open(t),
         NEW q, NEW new, new.pool = q.pool, Decided(q, t, Prizes(t), new.payouts, new.winner)
  PROVE  Decision(new, t)
<1>1. PICK holder \in Holders(t, Prizes(t)) : new.payouts = Payouts(q, holder, Prizes(t))
  BY NobodyRefunded DEF Decided
<1>2. PICK payouts : payouts = new.payouts
  OBVIOUS
<1>3. /\ tours[t].status \in {"RUNNING", "FINISHED"}
      /\ \A p \in DOMAIN Prizes(t) : holder[p] \in EntriesOf(t) /\ Holds(t, holder[p], p)
  BY HoldersHold
<1>4. CountDown(t) /\ PlacesSound(t)
  BY <1>3, Counting DEF PrizeInv
<1>5. tours[t].setting \in ValidSettings /\ tours[t].setting \in DOMAIN Settings
  BY DEF CountInv, CountSound, ValidSettings, Open
<1>6. /\ \A i \in DOMAIN payouts :
           /\ payouts[i].position \in DOMAIN Prizes(t)
           /\ ~entries[holder[payouts[i].position]].paid
           /\ payouts[i].entry = holder[payouts[i].position]
           /\ payouts[i].amount = Share(q.pool, Prizes(t)[payouts[i].position])
           /\ \A j \in DOMAIN payouts : payouts[j].position = payouts[i].position => i = j
      /\ \A p \in DOMAIN Prizes(t) :
           ~entries[holder[p]].paid => \E i \in DOMAIN payouts : payouts[i].position = p
  <2>1. Prizes(t) = Settings[tours[t].setting].prizes
    BY DEF Prizes, Setting
  <2>2. EachPlaceOnce(q, holder, Prizes(t), payouts)
    BY <1>1, <1>2, <1>5, <2>1, PayoutsOnce
  <2> QED
    BY <2>2 DEF EachPlaceOnce
<1>7. \A i \in DOMAIN payouts : Holds(t, payouts[i].entry, payouts[i].position)
  BY <1>3, <1>6
<1>8. ASSUME payouts = <<>> PROVE tours[t].status = "FINISHED"
  <2>1. PICK p \in DOMAIN Prizes(t) : TRUE
    BY <1>5 DEF EveryGradePaysMore, Prizes, Setting
  <2>2. entries[holder[p]].paid
    BY <1>6, <1>8
  <2> QED
    BY <1>3, <1>4, <2>2 DEF PlacesSound
<1>9. ASSUME NEW i \in DOMAIN payouts, NEW p \in DOMAIN Prizes(t)
      PROVE  \E j \in DOMAIN payouts : payouts[j].position = p
  <2>1. CASE tours[t].status = "FINISHED"
    <3>0. PICK n : n = payouts[i].position
      OBVIOUS
    <3>1. PICK e \in EntriesOf(t) : entries[e].paid /\ entries[e].position = n
      BY <1>4, <1>6, <2>1, <3>0 DEF PlacesSound
    <3>2. Holds(t, e, n)
      BY <3>1, PaidIsOut DEF Holds
    <3>3. e = holder[n]
      BY <1>3, <1>4, <1>6, <3>0, <3>1, <3>2, PlaceTaken
    <3> QED
      BY <1>6, <3>0, <3>1, <3>3
  <2>2. CASE tours[t].status # "FINISHED"
    <3>1. ~entries[holder[p]].paid
      BY <1>3, <1>4, <2>2 DEF PlacesSound
    <3> QED
      BY <1>6, <3>1
  <2> QED
    BY <2>1, <2>2
<1>10. ASSUME new.winner # 0 PROVE Holds(t, new.winner, 1)
  <2>1. Cardinality(AliveIn(t)) = 1 /\ new.winner = CHOOSE e \in AliveIn(t) : TRUE
    BY <1>10, NobodyRefunded DEF Decided
  <2>2. AliveIn(t) # {}
    BY <2>1, FS_EmptySet
  <2>3. new.winner \in AliveIn(t)
    BY <2>1, <2>2
  <2>4. AliveIn(t) = {new.winner}
    BY <2>1, <2>3, OnlyMember, EntrySets
  <2> QED
    BY <2>3, <2>4, EntrySets DEF Holds
<1>11. payouts # <<>> => \E i \in DOMAIN payouts : TRUE
  <2>1. payouts = [i \in DOMAIN payouts |-> payouts[i]]
    BY <1>1, <1>2 DEF Payouts
  <2>2. DOMAIN payouts = {} => payouts = <<>>
    BY <2>1
  <2> QED
    BY <2>2
<1> QED
  BY <1>2, <1>3, <1>6, <1>7, <1>8, <1>9, <1>10, <1>11 DEF Decision

\* A key that an entry was paid with is used.
LEMMA PaidKeyUsed ==
  ASSUME PrizeInv, NEW e \in Entries, KeyUnused(PayoutKey(e))
  PROVE  ~entries[e].paid
<1> SUFFICES ASSUME entries[e].paid PROVE FALSE
  OBVIOUS
<1>1. PICK x : PayoutsOf(e) = {x} /\ x.key = PayoutKey(e)
  BY DEF PrizeInv, PaidOut
<1>2. x \in PayoutsOf(e)
  BY <1>1
<1>3. PICK u \in Users : x \in Marked(ledger[u], e, "TOURNAMENT_PAYOUT")
  BY <1>2, LegsAreMarked DEF PayoutsOf
<1>4. PayoutKey(e) \in KeysUsed
  BY <1>1, <1>3 DEF KeysUsed, Marked, Listed
<1> QED
  BY <1>4 DEF KeyUnused

\* What a finish knows after a step.
LEMMA FinishSoundKept ==
  ASSUME EveryGradePaysMore, DeskInv, DeskInv', CountInv, PrizeInv, RowStep,
         NEW s \in Reqs, Moves(req[s], req'[s])
  PROVE  FinishSound(req[s])'
<1>1. PICK old, new : old = req[s] /\ new = req'[s]
  OBVIOUS
<1>2. /\ FinishSound(old) /\ Moves(old, new) /\ old \in TourRequests /\ new \in TourRequests
      /\ ShapeOf(old)
  BY <1>1, OwnShape DEF PrizeInv, DeskInv, Desk, RequestsTyped
<1>3. PICK t : t = new.tour
  OBVIOUS
<1>4. ASSUME new.pc # "idle", new.op = "finish"
      PROVE  /\ new.pool <= tours'[t].pool
             /\ new.pc = "entries" => new.setting = tours'[t].setting
             /\ new.pc \in {"lock", "pay"} => Decision(new, t)'
             /\ new.pc = "pay" =>
                  \A i \in DOMAIN new.payouts : i < new.next => ~entries'[new.payouts[i].entry].paid
  <2>1. CASE Begins(old, new)
    <3>1. new.pc = "grade" /\ new.pool = tours[t].pool /\ tours' = tours
      BY <1>3, <1>4, <2>1 DEF Begins
    <3>2. new.pool \in Nat
      BY <1>2 DEF TourRequests
    <3> QED
      BY <3>1, <3>2
  <2>2. CASE old.pc # "idle" /\ old.op = "finish" /\ new.tour = old.tour /\ new.pool = old.pool
    <3>1. Open(t) /\ t \in Tournaments /\ old.pool <= tours[t].pool /\ old.pool \in Nat
      BY <1>2, <1>3, <2>2 DEF FinishSound, ShapeOf, Open, TourRequests
    <3>2. tours[t].pool \in Int /\ tours'[t].pool >= tours[t].pool
          /\ tours'[t].setting = tours[t].setting
      BY <3>1, PoolGrows
    <3>3. new.pool <= tours'[t].pool
      <4>1. tours'[t].pool \in Int
        BY <3>1 DEF DeskInv, Books, RowsTyped, TourRows
      <4> QED
        BY <2>2, <3>1, <3>2, <4>1
    <3>4. ASSUME new.payouts = old.payouts, new.winner = old.winner, old.pc \in {"lock", "pay"}
          PROVE  Decision(new, t)'
      <4>1. Decision(old, t)
        BY <1>2, <1>3, <2>2, <3>4 DEF FinishSound
      <4>2. Decision(new, t)
        BY <2>2, <3>4, <4>1 DEF Decision
      <4> QED
        BY <3>1, <4>2, DecisionKept
    <3>5. ASSUME old.pc = "pay", NEW i \in DOMAIN old.payouts, ~entries[old.payouts[i].entry].paid
          PROVE  ~entries'[old.payouts[i].entry].paid
      BY <1>1, <1>4, <2>2, <3>5, StillDueKept
    <3>6. CASE new = old
      <4>1. old.pc = "pay" =>
              \A i \in DOMAIN old.payouts : i < old.next => ~entries[old.payouts[i].entry].paid
        BY <1>2, <2>2 DEF FinishSound, StillDue
      <4>2. old.pc = "entries" => old.setting = tours[t].setting
        BY <1>2, <1>3, <2>2 DEF FinishSound
      <4> QED
        BY <3>2, <3>3, <3>4, <3>5, <3>6, <4>1, <4>2
    <3>7. CASE ReadsGrade(old, new)
      <4>1. new.pc = "entries" /\ new.setting = tours[t].setting
        BY <1>3, <2>2, <3>7 DEF ReadsGrade
      <4> QED
        BY <3>2, <3>3, <4>1
    <3>8. CASE ReadsEntries(old, new)
      <4>1. /\ new.pc = "lock" /\ old.pc = "entries"
            /\ Decided(old, t, Settings[old.setting].prizes, new.payouts, new.winner)
        BY <1>3, <2>2, <3>8 DEF ReadsEntries
      <4>2. Settings[old.setting].prizes = Prizes(t)
        BY <1>2, <1>3, <2>2, <4>1 DEF FinishSound, Prizes, Setting
      <4>3. Decided(old, t, Prizes(t), new.payouts, new.winner)
        BY <4>1, <4>2
      <4>4. Decision(new, t)
        BY <2>2, <3>1, <4>3, DecisionMade
      <4> QED
        BY <3>1, <3>3, <4>1, <4>4, DecisionKept
    <3>9. CASE LocksTour(old, new)
      <4>1. /\ old.pc = "lock" /\ new.pc = "pay" /\ new.next = 1
            /\ new.payouts = old.payouts /\ new.winner = old.winner
        BY <3>9 DEF LocksTour
      <4>2. \A i \in DOMAIN new.payouts : ~(i < new.next)
        <5>1. new.payouts \in Seq(PayoutRows)
          BY <1>2 DEF TourRequests
        <5> QED
          BY <4>1, <5>1
      <4> QED
        BY <3>3, <3>4, <4>1, <4>2
    <3>10. CASE LocksWinner(old, new)
      <4>1. /\ old.pc = "pay" /\ new.pc = "pay" /\ new.next = old.next + 1 /\ entries' = entries
            /\ new.payouts = old.payouts /\ new.winner = old.winner
            /\ KeyUnused(PayoutKey(old.payouts[old.next].entry))
        BY <3>10 DEF LocksWinner
      <4>2. \A i \in DOMAIN old.payouts : i < old.next => ~entries[old.payouts[i].entry].paid
        BY <1>2, <2>2, <4>1 DEF FinishSound, StillDue
      <4>3. ASSUME NEW i \in DOMAIN old.payouts, i < new.next
            PROVE  ~entries[old.payouts[i].entry].paid
        <5>1. i \in Nat /\ old.next \in Nat
          <6>1. old.payouts \in Seq(PayoutRows) /\ old.next \in Nat
            BY <1>2 DEF TourRequests
          <6> QED
            BY <6>1
        <5>2. i < old.next \/ i = old.next
          BY <4>1, <4>3, <5>1
        <5>3. old.payouts[i].entry \in Entries
          BY <1>2, <2>2 DEF ShapeOf, EntryIn
        <5>4. CASE i = old.next
          BY <4>1, <5>3, <5>4, PaidKeyUsed
        <5> QED
          BY <4>2, <5>2, <5>4
      <4> QED
        BY <3>3, <3>4, <4>1, <4>3
    <3>11. ReadsGrade(old, new) \/ ReadsEntries(old, new) \/ LocksTour(old, new)
           \/ LocksWinner(old, new) \/ new = old
      BY <1>2, <1>4, <2>2 DEF Moves, Idle, Begins, Continues
    <3> QED
      BY <3>6, <3>7, <3>8, <3>9, <3>10, <3>11
  <2>3. Begins(old, new) \/ (/\ old.pc # "idle" /\ old.op = "finish" /\ new.tour = old.tour
                             /\ new.pool = old.pool)
    BY <1>2, <1>4 DEF Moves, Idle, Same, Continues, ReadsGrade, ReadsEntries, LocksTour, LocksWinner
  <2> QED
    BY <2>1, <2>2, <2>3
<1>5. FinishSound(new)'
  BY <1>3, <1>4 DEF FinishSound, StillDue
<1> QED
  BY <1>1, <1>5 DEF FinishSound, StillDue, Decision, Holds

\* The invariant about prizes is one.
LEMMA PrizeKept ==
  ASSUME EveryGradePaysMore, DeskInv, DeskInv', NobodyEdits, CountInv, PrizeInv, [Next]_vars
  PROVE  PrizeInv'
<1>1. RowStep
  BY StepsOfRows DEF CountInv
<1>2. \A t \in Tournaments : PlacesSound(t)'
  BY <1>1, PlacesKept
<1>3. \A e \in Entries : PaidOut(e)'
  BY <1>1, PaidOutKept
<1>4. \A r \in Reqs : FinishSound(req[r])'
  BY <1>1, RequestMoves, FinishSoundKept
<1> QED
  BY <1>2, <1>3, <1>4 DEF PrizeInv

\* It holds initially.
LEMMA InitPrize ==
  ASSUME Init
  PROVE  PrizeInv
<1>1. DeskInv
  BY InitDesk
<1>2. /\ \A t \in Tournaments : tours[t].status = "NONE" /\ tours[t].pool = 0
      /\ \A e \in Entries : ~entries[e].paid /\ entries[e].status = "NONE"
      /\ \A r \in Reqs : req[r].pc = "idle"
  BY DEF Init, NoTour, NoEntry, Idle
<1>3. ASSUME NEW t \in Tournaments PROVE PlacesSound(t)
  BY <1>2, EntrySets DEF PlacesSound
<1>4. ASSUME NEW e \in Entries PROVE PaidOut(e)
  <2>1. PayoutsOf(e) = {}
    <3> SUFFICES ASSUME NEW u \in Users PROVE Marked(ledger[u], e, "TOURNAMENT_PAYOUT") = {}
      BY LegsAreMarked DEF PayoutsOf
    <3>1. CASE balance[u] = 0
      BY <3>1 DEF Init, Marked, Listed
    <3>2. CASE balance[u] # 0
      <4>1. ledger[u] = <<Entry(<<"deposit", u>>, "PIX_DEPOSIT", balance[u], balance[u], None)>>
        BY <3>2 DEF Init
      <4> QED
        BY <4>1 DEF Marked, Listed, Entry
    <3> QED
      BY <3>1, <3>2
  <2> QED
    BY <1>2, <2>1 DEF PaidOut
<1> QED
  BY <1>2, <1>3, <1>4 DEF PrizeInv, FinishSound

-----------------------------------------------------------------------------
(* Sums.                                                                   *)

\* A sum over what a function maps a set to, each of them once.
LEMMA SumOfImages ==
  ASSUME NEW S, IsFiniteSet(S), NEW g, NEW f, \A x \in S : f[g[x]] \in Int,
         \A x, y \in S : g[x] = g[y] => x = y
  PROVE  /\ SumFunctionOnSet(f, {g[x] : x \in S})
              = SumFunctionOnSet([x \in S |-> f[g[x]]], S)
         /\ Cardinality({g[x] : x \in S}) = Cardinality(S)
<1> DEFINE h == [x \in S |-> f[g[x]]]
           Image(T) == {g[x] : x \in T}
           F == {T \in SUBSET S : /\ SumFunctionOnSet(f, Image(T)) = SumFunctionOnSet(h, T)
                                  /\ Cardinality(Image(T)) = Cardinality(T)}
<1>1. {} \in F
  <2>1. Image({}) = {}
    OBVIOUS
  <2>2. SumFunctionOnSet(f, {}) = 0 /\ SumFunctionOnSet(h, {}) = 0
    BY SumEmpty
  <2> HIDE DEF h, Image
  <2> QED
    BY <2>1, <2>2
<1>2. ASSUME NEW T \in SUBSET S, NEW x \in S \ T, T \in F
      PROVE  T \cup {x} \in F
  <2>1. IsFiniteSet(T) /\ IsFiniteSet(Image(T))
    BY FS_Subset, ImageFinite
  <2>2. g[x] \notin Image(T) /\ Image(T \cup {x}) = Image(T) \cup {g[x]}
    OBVIOUS
  <2>3. /\ \A z \in Image(T) : f[z] \in Int
        /\ \A z \in T : h[z] \in Int
        /\ h[x] = f[g[x]] /\ h[x] \in Int /\ x \notin T
    OBVIOUS
  <2>4. /\ SumFunctionOnSet(f, Image(T)) = SumFunctionOnSet(h, T)
        /\ Cardinality(Image(T)) = Cardinality(T)
    BY <1>2
  <2> HIDE DEF h, Image, F
  <2>5. SumFunctionOnSet(f, Image(T) \cup {g[x]}) = SumFunctionOnSet(f, Image(T)) + f[g[x]]
    <3>1. f[g[x]] \in Int
      BY <2>3
    <3> QED
      BY ONLY <2>1, <2>2, <2>3, <3>1, SumAdd, SMT
  <2>6. SumFunctionOnSet(h, T \cup {x}) = SumFunctionOnSet(h, T) + h[x]
    BY ONLY <2>1, <2>3, SumAdd, SMT
  <2>7. /\ Cardinality(Image(T) \cup {g[x]}) = Cardinality(Image(T)) + 1
        /\ Cardinality(T \cup {x}) = Cardinality(T) + 1
    BY <2>1, <2>2, <2>3, FS_AddElement
  <2>8. /\ SumFunctionOnSet(f, Image(T \cup {x})) = SumFunctionOnSet(h, T \cup {x})
        /\ Cardinality(Image(T \cup {x})) = Cardinality(T \cup {x})
    BY <2>2, <2>3, <2>4, <2>5, <2>6, <2>7
  <2> QED
    BY <2>8 DEF F
<1> HIDE DEF F
<1>3. SUBSET S \subseteq F
  BY <1>1, <1>2, SubsetInduction
<1>4. S \in F
  BY <1>3
<1> QED
  BY <1>4 DEF F

\* A total of n prizes is a part of the pool, in hundredths of a percent, each of them rounded.
InShare(total, share, n, pool) == 10000 * total <= pool * share + 5000 * n

\* Prizes that are a part of the pool add up to one.
LEMMA SumOfShares ==
  ASSUME NEW S, IsFiniteSet(S), NEW f, NEW g, NEW pool \in Nat,
         \A x \in S : f[x] \in Nat, \A x \in S : g[x] \in Nat,
         \A x \in S : InShare(f[x], g[x], 1, pool)
  PROVE  InShare(SumFunctionOnSet(f, S), SumFunctionOnSet(g, S), Cardinality(S), pool)
<1> USE DEF InShare
<1> DEFINE F == {T \in SUBSET S : 10000 * SumFunctionOnSet(f, T)
                                    <= pool * SumFunctionOnSet(g, T) + 5000 * Cardinality(T)}
<1>0. IsFiniteSet(S)
  OBVIOUS
<1>1. {} \in F
  <2>1. SumFunctionOnSet(f, {}) = 0 /\ SumFunctionOnSet(g, {}) = 0 /\ Cardinality({}) = 0
    BY SumEmpty, FS_EmptySet
  <2> QED
    BY <2>1
<1>2. ASSUME NEW T \in SUBSET S, NEW x \in S \ T, T \in F
      PROVE  T \cup {x} \in F
  <2>1. IsFiniteSet(T) /\ Cardinality(T) \in Nat
    BY FS_Subset, FS_CardinalityType
  <2>2. /\ \A z \in T : f[z] \in Int /\ g[z] \in Int /\ f[z] \in Nat /\ g[z] \in Nat
        /\ x \notin T /\ f[x] \in Int /\ g[x] \in Int
    OBVIOUS
  <2>3. PICK a, b, c, d, n : /\ a = SumFunctionOnSet(f, T) /\ b = SumFunctionOnSet(g, T)
                             /\ c = f[x] /\ d = g[x] /\ n = Cardinality(T)
    OBVIOUS
  <2>4. /\ SumFunctionOnSet(f, T \cup {x}) = a + c
        /\ SumFunctionOnSet(g, T \cup {x}) = b + d
    <3>1. SumFunctionOnSet(f, T \cup {x}) = SumFunctionOnSet(f, T) + f[x]
      BY ONLY <2>1, <2>2, SumAdd, SMT
    <3>2. SumFunctionOnSet(g, T \cup {x}) = SumFunctionOnSet(g, T) + g[x]
      BY ONLY <2>1, <2>2, SumAdd, SMT
    <3> QED
      BY ONLY <2>3, <3>1, <3>2, Zenon
  <2>5. Cardinality(T \cup {x}) = n + 1
    <3>0. IsFiniteSet(T) /\ x \notin T
      BY <2>1
    <3>1. Cardinality(T \cup {x}) = Cardinality(T) + 1
      BY ONLY <3>0, FS_AddElement, Zenon
    <3> QED
      BY ONLY <2>3, <3>1, Zenon
  <2>6. a \in Nat /\ b \in Nat
    <3>1. SumFunctionOnSet(f, T) \in Nat
      BY ONLY <2>1, <2>2, SumNatural, SMT
    <3>2. SumFunctionOnSet(g, T) \in Nat
      BY ONLY <2>1, <2>2, SumNatural, SMT
    <3> QED
      BY <2>3, <3>1, <3>2
  <2>7. c \in Nat /\ d \in Nat /\ n \in Nat /\ 10000 * c <= pool * d + 5000
    BY <2>1, <2>3
  <2>8. 10000 * a <= pool * b + 5000 * n
    BY <1>2, <2>3
  <2>9. pool * (b + d) = pool * b + pool * d /\ pool * b \in Nat /\ pool * d \in Nat
    BY <2>6, <2>7
  <2>10. 10000 * (a + c) <= pool * (b + d) + 5000 * (n + 1)
    <3>1. PICK u, v : u = pool * b /\ v = pool * d
      OBVIOUS
    <3>2. u \in Nat /\ v \in Nat /\ pool * (b + d) = u + v
      BY <2>9, <3>1
    <3>3. 10000 * (a + c) <= (u + v) + 5000 * (n + 1)
      BY <2>6, <2>7, <2>8, <3>1, <3>2
    <3> QED
      BY <3>2, <3>3
  <2> HIDE DEF F
  <2> QED
    BY <2>4, <2>5, <2>10 DEF F
<1> HIDE DEF F
<1>3. SUBSET S \subseteq F
  BY ONLY <1>0, <1>1, <1>2, SubsetInduction, Zenon
<1>4. S \in F
  BY <1>3
<1> QED
  BY <1>4 DEF F

\* A sum of natural numbers over fewer of them is not larger.
LEMMA SumOfFewer ==
  ASSUME NEW S, IsFiniteSet(S), NEW f, \A x \in S : f[x] \in Nat, NEW U \in SUBSET S
  PROVE  SumFunctionOnSet(f, U) <= SumFunctionOnSet(f, S)
<1> DEFINE F == {T \in SUBSET (S \ U) :
                   SumFunctionOnSet(f, U) <= SumFunctionOnSet(f, U \cup T)}
<1>1. IsFiniteSet(U) /\ IsFiniteSet(S \ U)
  BY FS_Subset
<1>2. {} \in F
  <2>1. \A x \in U : f[x] \in Nat
    OBVIOUS
  <2>2. SumFunctionOnSet(f, U) \in Nat
    BY ONLY <1>1, <2>1, SumNatural, SMT
  <2>3. U \cup {} = U
    OBVIOUS
  <2> QED
    BY <2>2, <2>3
<1>3. ASSUME NEW T \in SUBSET (S \ U), NEW x \in (S \ U) \ T, T \in F
      PROVE  T \cup {x} \in F
  <2>1. PICK V : V = U \cup T
    OBVIOUS
  <2>2. /\ IsFiniteSet(V) /\ \A z \in V : f[z] \in Int /\ f[z] \in Nat
        /\ x \notin V /\ f[x] \in Int /\ f[x] \in Nat /\ V \cup {x} = U \cup (T \cup {x})
    BY <2>1, FS_Subset
  <2>3. SumFunctionOnSet(f, V \cup {x}) = SumFunctionOnSet(f, V) + f[x]
    BY ONLY <2>2, SumAdd, SMT
  <2>4. SumFunctionOnSet(f, V) \in Nat
    BY ONLY <2>2, SumNatural, SMT
  <2>5. SumFunctionOnSet(f, U) \in Nat
    <3>1. \A z \in U : f[z] \in Nat
      OBVIOUS
    <3> QED
      BY ONLY <1>1, <3>1, SumNatural, SMT
  <2>6. SumFunctionOnSet(f, U) <= SumFunctionOnSet(f, V)
    BY <1>3, <2>1
  <2>7. SumFunctionOnSet(f, U) <= SumFunctionOnSet(f, V \cup {x})
    BY <2>2, <2>3, <2>4, <2>5, <2>6
  <2>8. SumFunctionOnSet(f, U) <= SumFunctionOnSet(f, U \cup (T \cup {x}))
    BY <2>2, <2>7
  <2> QED
    BY <2>8
<1> DEFINE R == S \ U
<1>4. IsFiniteSet(R) /\ \A T \in SUBSET R : \A x \in R \ T : T \in F => T \cup {x} \in F
  BY <1>1, <1>3
<1> HIDE DEF F, R
<1>5. R \in F
  <2>1. SUBSET R \subseteq F
    BY ONLY <1>2, <1>4, SubsetInduction, ZenonT(60)
  <2> QED
    BY ONLY <2>1
<1>6. S \ U \in F /\ U \cup (S \ U) = S
  BY <1>5 DEF R
<1>7. SumFunctionOnSet(f, U) <= SumFunctionOnSet(f, U \cup (S \ U))
  BY <1>6 DEF F
<1> QED
  BY <1>6, <1>7

-----------------------------------------------------------------------------
(* What the theorems say.                                                  *)

PaidIn(t) == {e \in EntriesOf(t) : entries[e].paid}

\* The leg of an entry that was paid.
LegFor(e) == CHOOSE x : PayoutsOf(e) = {x}

\* Who was paid in a tournament has a leg and a place of its own.
LEMMA PaidLegs ==
  ASSUME DeskInv, PrizeInv, NEW t \in Tournaments
  PROVE  /\ PaidIn(t) \subseteq EntriesOf(t) /\ PaidIn(t) \subseteq Entries
         /\ IsFiniteSet(PaidIn(t))
         /\ \A e \in PaidIn(t) :
              /\ PayoutsOf(e) = {LegFor(e)} /\ LegFor(e).amount = entries[e].prize
              /\ LegFor(e).key = PayoutKey(e) /\ entries[e].prize \in Nat
              /\ tours[t].status = "FINISHED" /\ e \in Out(t)
         /\ PrizesOf(t) = {LegFor(e) : e \in PaidIn(t)}
<1>1. PaidIn(t) \subseteq EntriesOf(t) /\ PaidIn(t) \subseteq Entries /\ IsFiniteSet(PaidIn(t))
  <2>1. PaidIn(t) \subseteq EntriesOf(t) /\ PaidIn(t) \subseteq Entries
    BY EntrySets DEF PaidIn
  <2> QED
    BY <2>1, EntriesFinite
<1>2. ASSUME NEW e \in PaidIn(t)
      PROVE  /\ PayoutsOf(e) = {LegFor(e)} /\ LegFor(e).amount = entries[e].prize
             /\ LegFor(e).key = PayoutKey(e) /\ entries[e].prize \in Nat
  <2>1. e \in Entries /\ entries[e].paid
    BY <1>1 DEF PaidIn
  <2>2. PICK x : PayoutsOf(e) = {x} /\ x.amount = entries[e].prize /\ x.key = PayoutKey(e)
    BY <2>1 DEF PrizeInv, PaidOut
  <2>3. PayoutsOf(e) = {LegFor(e)}
    BY <2>2 DEF LegFor
  <2>4. LegFor(e) = x
    BY <2>2, <2>3
  <2>5. entries[e].prize \in Nat
    BY <2>1 DEF DeskInv, Books, RowsTyped, EntryRows
  <2> QED
    BY <2>2, <2>3, <2>4, <2>5
<1>3. ASSUME NEW e \in PaidIn(t) PROVE e \in Out(t) /\ tours[t].status = "FINISHED"
  BY PaidIsOut DEF PaidIn, PrizeInv, PlacesSound
<1>4. \A e \in EntriesOf(t) : e \notin PaidIn(t) => PayoutsOf(e) = {}
  BY EntrySets DEF PaidIn, PrizeInv, PaidOut
<1>5. PrizesOf(t) = {LegFor(e) : e \in PaidIn(t)}
  BY <1>1, <1>2, <1>4 DEF PrizesOf
<1> QED
  BY <1>1, <1>2, <1>3, <1>5

\* A part of the pool is no more than the pool.
LEMMA ShareBelow ==
  ASSUME NEW pool \in Nat, NEW share \in Nat, share <= 10000
  PROVE  pool * share <= 10000 * pool
<1>1. PICK d \in Nat : 10000 = share + d
  <2>1. 10000 - share \in Nat /\ 10000 = share + (10000 - share)
    OBVIOUS
  <2> QED
    BY <2>1
<1>2. pool * (share + d) = pool * share + pool * d /\ pool * d \in Nat /\ pool * share \in Nat
  OBVIOUS
<1>3. pool * 10000 = 10000 * pool
  OBVIOUS
<1>4. pool * 10000 = pool * share + pool * d
  BY <1>1, <1>2
<1> QED
  BY <1>2, <1>3, <1>4

\* The prizes of a tournament add up to its pool at most, but for the rounding.
LEMMA PotSuffices ==
  ASSUME EveryGradeFits, DeskInv, CountInv, PrizeInv, NEW t \in Tournaments
  PROVE  Total(PrizesOf(t)) <= tours[t].pool + Cardinality(PrizesOf(t))
<1> DEFINE W == PaidIn(t)
           amounts == [x \in PrizesOf(t) |-> x.amount]
           prize == [e \in W |-> entries[e].prize]
           percent == [e \in W |-> Prizes(t)[entries[e].position]]
           legs == [e \in W |-> LegFor(e)]
           places == [e \in W |-> entries[e].position]
<1>1. /\ IsFiniteSet(W) /\ W \subseteq Entries
      /\ \A e \in W :
           /\ LegFor(e).amount = entries[e].prize /\ LegFor(e).key = PayoutKey(e)
           /\ entries[e].prize \in Nat /\ tours[t].status = "FINISHED" /\ e \in Out(t)
      /\ PrizesOf(t) = {LegFor(e) : e \in W}
  BY PaidLegs
<1>2. CASE W = {}
  <2>1. PrizesOf(t) = {}
    BY <1>1, <1>2
  <2>2. Total({}) = 0 /\ Cardinality({}) = 0
    BY SumEmpty, FS_EmptySet DEF Total
  <2>3. tours[t].pool \in Nat
    BY PoolNatural DEF DeskInv, PrizeInv, PlacesSound
  <2> QED
    BY <2>1, <2>2, <2>3
<1>3. CASE W # {}
  <2>1. tours[t].status = "FINISHED" /\ CountDown(t) /\ PlacesSound(t) /\ Open(t)
    BY <1>1, <1>3, Counting DEF PrizeInv, Open
  <2>2. /\ tours[t].pool \in Nat /\ tours[t].setting \in DOMAIN Settings
        /\ tours[t].setting \in ValidSettings
    BY <2>1, PoolNatural DEF DeskInv, CountInv, CountSound
  <2>3. /\ IsFiniteSet(DOMAIN Prizes(t)) /\ \A p \in DOMAIN Prizes(t) : Prizes(t)[p] \in Nat
    BY <2>2, SettingConstants DEF Prizes, Setting
  <2>4. \A e \in W : /\ entries[e].position \in DOMAIN Prizes(t)
                     /\ 10000 * entries[e].prize
                          <= tours[t].pool * Prizes(t)[entries[e].position] + 5000
    BY <2>1 DEF PlacesSound, PaidIn
  <2>5. \A e, f \in W : legs[e] = legs[f] => e = f
    <3>1. \A e, f \in W : LegFor(e) = LegFor(f) => PayoutKey(e) = PayoutKey(f)
      BY <1>1
    <3> QED
      BY <3>1 DEF PayoutKey
  <2>6. \A e, f \in W : places[e] = places[f] => e = f
    BY <1>1, <2>1 DEF CountDown
  <2>7. /\ {legs[e] : e \in W} = PrizesOf(t)
        /\ \A e \in W : /\ legs[e] \in PrizesOf(t) /\ amounts[legs[e]] = entries[e].prize
                        /\ amounts[legs[e]] \in Int
    BY <1>1
  <2>8. /\ [e \in W |-> amounts[legs[e]]] = prize
        /\ [e \in W |-> Prizes(t)[places[e]]] = percent
    BY <2>7
  <2>9. /\ \A e \in W : Prizes(t)[places[e]] \in Int
        /\ \A e \in W : /\ prize[e] \in Nat /\ percent[e] \in Nat
                        /\ 10000 * prize[e] <= tours[t].pool * percent[e] + 5000
        /\ {places[e] : e \in W} \in SUBSET DOMAIN Prizes(t)
    BY <1>1, <2>3, <2>4
  <2>10. Total(PrizesOf(t)) = SumFunctionOnSet(amounts, PrizesOf(t))
    BY DEF Total
  <2> HIDE DEF W, amounts, prize, percent, legs, places
  <2>11. /\ SumFunctionOnSet(amounts, PrizesOf(t)) = SumFunctionOnSet(prize, W)
         /\ Cardinality(PrizesOf(t)) = Cardinality(W)
    <3>1. \A e \in W : amounts[legs[e]] \in Int
      BY <2>7
    <3>2. /\ SumFunctionOnSet(amounts, {legs[e] : e \in W})
               = SumFunctionOnSet([e \in W |-> amounts[legs[e]]], W)
          /\ Cardinality({legs[e] : e \in W}) = Cardinality(W)
      BY ONLY <1>1, <2>5, <3>1, SumOfImages, ZenonT(60)
    <3> QED
      BY ONLY <2>7, <2>8, <3>2, Zenon
  <2>12. PICK grade : grade = Prizes(t)
    OBVIOUS
  <2>13. /\ SumFunctionOnSet(percent, W) <= SumFunctionOnSet(grade, DOMAIN grade)
         /\ SumFunctionOnSet(grade, DOMAIN grade) \in Nat
    <3>1. IsFiniteSet(W) /\ \A e \in W : grade[places[e]] \in Int
      BY <1>1, <2>9, <2>12
    <3>2. SumFunctionOnSet(grade, {places[e] : e \in W})
            = SumFunctionOnSet([e \in W |-> grade[places[e]]], W)
      BY ONLY <2>6, <3>1, SumOfImages, Zenon
    <3>3. [e \in W |-> grade[places[e]]] = percent
      BY <2>8, <2>12
    <3>4. /\ IsFiniteSet(DOMAIN grade) /\ \A p \in DOMAIN grade : grade[p] \in Nat
          /\ {places[e] : e \in W} \in SUBSET DOMAIN grade
      BY <2>3, <2>9, <2>12
    <3>5. SumFunctionOnSet(grade, {places[e] : e \in W}) <= SumFunctionOnSet(grade, DOMAIN grade)
      BY ONLY <3>4, SumOfFewer
    <3>6. SumFunctionOnSet(grade, DOMAIN grade) \in Nat
      BY ONLY <3>4, SumNatural, Zenon
    <3>7. SumFunctionOnSet(percent, W) = SumFunctionOnSet(grade, {places[e] : e \in W})
      BY ONLY <3>2, <3>3, Zenon
    <3> QED
      BY ONLY <3>5, <3>6, <3>7, SMT
  <2>14. SumFunctionOnSet(grade, DOMAIN grade) <= 10000
    BY <2>2, <2>12 DEF EveryGradeFits, Prizes, Setting
  <2>15. PICK pool \in Nat : pool = tours[t].pool
    BY <2>2
  <2>16. /\ SumFunctionOnSet(prize, W) \in Nat /\ SumFunctionOnSet(percent, W) \in Nat
         /\ Cardinality(W) \in Nat
         /\ 10000 * SumFunctionOnSet(prize, W)
              <= pool * SumFunctionOnSet(percent, W) + 5000 * Cardinality(W)
    <3>1. IsFiniteSet(W)
      BY <1>1
    <3>2. \A e \in W : prize[e] \in Nat
      BY <2>9
    <3>3. \A e \in W : percent[e] \in Nat
      BY <2>9
    <3>4. \A e \in W : InShare(prize[e], percent[e], 1, pool)
      BY <2>9, <2>15 DEF InShare
    <3>5. SumFunctionOnSet(prize, W) \in Nat
      BY ONLY <3>1, <3>2, SumNatural, Zenon
    <3>6. SumFunctionOnSet(percent, W) \in Nat
      BY ONLY <3>1, <3>3, SumNatural, Zenon
    <3>7. Cardinality(W) \in Nat
      BY ONLY <3>1, FS_CardinalityType, Zenon
    <3>8. pool \in Nat
      BY <2>15
    <3>9. InShare(SumFunctionOnSet(prize, W), SumFunctionOnSet(percent, W), Cardinality(W), pool)
      BY ONLY <3>1, <3>2, <3>3, <3>4, <3>8, SumOfShares, Zenon
    <3> QED
      BY ONLY <3>5, <3>6, <3>7, <3>9 DEF InShare
  <2>17. PICK total, share, n : /\ total = SumFunctionOnSet(prize, W)
                               /\ share = SumFunctionOnSet(percent, W)
                               /\ n = Cardinality(W)
    OBVIOUS
  <2>18. /\ total \in Nat /\ share \in Nat /\ n \in Nat /\ share <= 10000
         /\ 10000 * total <= pool * share + 5000 * n /\ pool \in Nat
    <3>1. share <= 10000
      BY ONLY <2>13, <2>14, <2>16, <2>17, SMT
    <3> QED
      BY ONLY <2>15, <2>16, <2>17, <3>1
  <2>19. pool * share <= 10000 * pool
    BY ONLY <2>18, ShareBelow, SMT
  <2>20. total <= pool + n
    <3>1. PICK m : m = pool * share
      OBVIOUS
    <3>2. m \in Nat /\ m <= 10000 * pool /\ 10000 * total <= m + 5000 * n
      BY <2>18, <2>19, <3>1
    <3> QED
      BY ONLY <2>18, <3>2, SMT
  <2> QED
    BY ONLY <2>10, <2>11, <2>15, <2>17, <2>20, Zenon
<1> QED
  BY <1>2, <1>3

\* Prizes come from the pot.
LEMMA PrizesFromThePot ==
  ASSUME EveryGradeFits, DeskInv, CountInv, PrizeInv
  PROVE  PrizesComeFromThePot
<1> SUFFICES ASSUME NEW t \in Tournaments
             PROVE  /\ Total(PrizesOf(t)) <= tours[t].pool + Cardinality(PrizesOf(t))
                    /\ PrizesOf(t) # {} => tours[t].status = "FINISHED"
                    /\ \A e, f \in EntriesOf(t) :
                         e # f /\ entries[e].status = "PAID" /\ entries[f].status = "PAID" =>
                           entries[e].position # entries[f].position
                    /\ \A e \in EntriesOf(t) :
                         /\ entries[e].paid <=> PayoutsOf(e) # {}
                         /\ entries[e].paid => Total(PayoutsOf(e)) = entries[e].prize
  BY DEF PrizesComeFromThePot
<1>1. PrizesOf(t) # {} => tours[t].status = "FINISHED"
  BY PaidLegs
<1>2. ASSUME NEW e \in EntriesOf(t), NEW f \in EntriesOf(t), e # f,
             entries[e].status = "PAID", entries[f].status = "PAID"
      PROVE  entries[e].position # entries[f].position
  <2>1. e \in Out(t) /\ f \in Out(t) /\ entries[e].paid
    BY <1>2, PaidIsOut
  <2>2. tours[t].status = "FINISHED"
    BY <2>1 DEF PrizeInv, PlacesSound
  <2>3. CountDown(t)
    BY <2>2, Counting
  <2> QED
    BY <1>2, <2>1, <2>3 DEF CountDown
<1>3. ASSUME NEW e \in EntriesOf(t)
      PROVE  /\ entries[e].paid <=> PayoutsOf(e) # {}
             /\ entries[e].paid => Total(PayoutsOf(e)) = entries[e].prize
  <2>1. PaidOut(e)
    BY EntrySets DEF PrizeInv
  <2>2. CASE entries[e].paid
    <3>1. PICK x : PayoutsOf(e) = {x} /\ x.amount = entries[e].prize
      BY <2>1, <2>2 DEF PaidOut
    <3>2. x.amount \in Int
      BY <3>1, EntrySets DEF DeskInv, Books, RowsTyped, EntryRows
    <3> QED
      BY <2>2, <3>1, <3>2, TotalOfOne
  <2>3. CASE ~entries[e].paid
    BY <2>1, <2>3 DEF PaidOut
  <2> QED
    BY <2>2, <2>3
<1> QED
  BY <1>1, <1>2, <1>3, PotSuffices

-----------------------------------------------------------------------------
(* A finished tournament.                                                  *)

\* What is final of a tournament: its row, its entries, their prizes, and who was paid.
Final(t) ==
  /\ tours'[t] = tours[t]
  /\ EntriesOf(t)' = EntriesOf(t)
  /\ \A e \in EntriesOf(t) :
       /\ PayoutsOf(e)' = PayoutsOf(e)
       /\ entries[e].paid => entries'[e] = entries[e]

\* A row of the tournament that keeps its columns is the same row.
LEMMA SameRow ==
  ASSUME DeskInv, DeskInv', NEW t \in Tournaments,
         tours'[t].status = tours[t].status, tours'[t].setting = tours[t].setting,
         tours'[t].pool = tours[t].pool
  PROVE  tours'[t] = tours[t]
<1>1. PICK old, new : old = tours[t] /\ new = tours'[t]
  OBVIOUS
<1>2. old \in TourRows /\ new \in TourRows
  BY <1>1 DEF DeskInv, Books, RowsTyped, TourRows
<1>3. old.status = new.status /\ old.setting = new.setting /\ old.pool = new.pool
  BY <1>1
<1>4. old = new
  BY <1>2, <1>3 DEF TourRows
<1> QED
  BY <1>1, <1>4

\* The entries of a finished tournament get no other prize.
LEMMA FinishedPaysNoMore ==
  ASSUME DeskInv, CountInv, PrizeInv, RowStep, NEW t \in Tournaments,
         tours[t].status = "FINISHED", NEW e \in EntriesOf(t)
  PROVE  PayoutsOf(e)' = PayoutsOf(e)
<1>1. e \in Entries /\ entries[e].tour = t
  BY DEF EntriesOf
<1>2. CASE NothingPaid
  BY <1>1, <1>2 DEF NothingPaid
<1>3. ASSUME NEW r \in Reqs, NEW z, Pays(req[r], z) PROVE PayoutsOf(e)' = PayoutsOf(e)
  <2>1. PICK q : q = req[r]
    OBVIOUS
  <2>2. ASSUME NEW i \in DOMAIN q.payouts, q.payouts[i].entry = e PROVE FALSE
    <3>1. e \in EntriesOf(z)
      BY <1>3, <2>1, <2>2, PayingKnows
    <3>2. z = t
      BY <1>1, <3>1 DEF EntriesOf
    <3>3. q.payouts = <<>>
      BY <1>3, <2>1, <3>2, PaysNothingTwice
    <3> QED
      BY <2>2, <3>3
  <2>3. \A x : x \in PayoutsOf(e)' <=>
                 x \in PayoutsOf(e) \/ \E i \in DOMAIN q.payouts : LegOf(q, i, e, x)
    BY <1>1, <1>3, <2>1 DEF Pays
  <2>4. \A x : ~(\E i \in DOMAIN q.payouts : LegOf(q, i, e, x))
    BY <2>2 DEF LegOf
  <2> QED
    BY <2>3, <2>4
<1> QED
  BY <1>2, <1>3 DEF RowStep, Still, Opens, Enters, Leaves

\* A step leaves a finished tournament as it is, but for who is eliminated after all.
LEMMA FinishedStays ==
  ASSUME DeskInv, DeskInv', CountInv, PrizeInv, RowStep, NEW t \in Tournaments,
         tours[t].status = "FINISHED"
  PROVE  Final(t)
<1>1. \A e \in EntriesOf(t) : PayoutsOf(e)' = PayoutsOf(e)
  BY FinishedPaysNoMore
<1>2. CountDown(t)
  BY Counting
<1>3. CASE SameTour(t)
  BY <1>1, <1>3, SamePlaces DEF Final
<1>4. ~Opens(t) /\ \A e : ~Enters(t, e)
  BY DEF Opens, Enters
<1>5. ASSUME NEW f, Leaves(t, f) PROVE Final(t)
  <2>1. /\ f \in AliveIn(t) /\ EntriesOf(t)' = EntriesOf(t)
        /\ \A e \in EntriesOf(t) \ {f} : entries'[e] = entries[e]
    BY <1>2, <1>5, LeavesCountDown
  <2>2. tours'[t] = tours[t]
    BY <1>5, SameRow DEF Leaves
  <2>3. ~entries[f].paid
    BY <2>1, EntrySets, PaidIsOut
  <2> QED
    BY <1>1, <2>1, <2>2, <2>3 DEF Final
<1>6. ASSUME NEW r \in Reqs, Pays(req[r], t) PROVE Final(t)
  <2>1. PICK q : q = req[r]
    OBVIOUS
  <2>2. q.payouts = <<>> /\ Decision(q, t) /\ Pays(q, t)
    BY <1>6, <2>1, PaysNothingTwice, PayingKnows
  <2>3. tours'[t] = tours[t]
    BY <1>6, SameRow DEF Pays
  <2>4. \A e : ~PaidBy(q, e)
    BY <2>2 DEF PaidBy
  <2>5. EntriesOf(t)' = EntriesOf(t)
    <3>1. \A e \in Entries : entries'[e].tour = entries[e].tour
      BY <2>2, Zenon DEF Pays
    <3> QED
      BY <3>1 DEF EntriesOf
  <2>6. ASSUME NEW e \in EntriesOf(t), entries[e].paid PROVE entries'[e] = entries[e]
    <3>1. e \in Entries /\ e \in Out(t)
      BY <2>6, EntrySets, PaidIsOut
    <3>2. CASE e # q.winner
      BY <2>2, <2>4, <3>1, <3>2 DEF Pays
    <3>3. CASE e = q.winner
      <4>1. PICK old, row : old = entries[e] /\ row = [old EXCEPT !.position = 1]
        OBVIOUS
      <4>2. entries'[e] = row
        BY <2>2, <2>4, <3>1, <3>3, <4>1 DEF Pays
      <4>3. old \in EntryRows
        BY <3>1, <4>1 DEF DeskInv, Books, RowsTyped
      <4>4. e # 0
        BY <3>1, TournamentConstants DEF Entries
      <4>5. Holds(t, e, 1)
        BY <2>2, <3>3, <4>4 DEF Decision
      <4>6. e \notin AliveIn(t)
        BY <3>1, EntrySets
      <4>7. old.position = 1
        BY <4>1, <4>5, <4>6 DEF Holds
      <4>8. row = old
        BY <4>1, <4>3, <4>7 DEF EntryRows
      <4> QED
        BY <4>1, <4>2, <4>8
    <3> QED
      BY <3>2, <3>3
  <2> QED
    BY <1>1, <2>3, <2>5, <2>6 DEF Final
<1> QED
  BY <1>3, <1>4, <1>5, <1>6, RowStepOf

-----------------------------------------------------------------------------
(* The theorems.                                                           *)

\* The invariant of the places and what it rests on.
CountingInv == DeskInv /\ NobodyEdits /\ CountInv

\* Nobody edits a setting, and the places are counted.
THEOREM CountingIsSound ==
  ASSUME Freezeouts
  PROVE  Spec => []CountingInv
<1>1. Init => CountingInv
  <2>1. Init => NobodyEdits
    BY DEF Init, Idle, NobodyEdits, EditSteps
  <2> QED
    BY <2>1, InitDesk, InitCount DEF CountingInv
<1>2. CountingInv /\ [Next]_vars => CountingInv'
  <2>1. "update" \notin Workload
    BY DEF Freezeouts
  <2> QED
    BY <2>1, NobodyEditsKept, NextKeeps, CountKept DEF CountingInv
<1> QED
  BY <1>1, <1>2, PTL DEF Spec

\* In a freezeout without late entries the places count down, none twice and none left out,
\* whoever eliminates, finishes or enters at the same time.
THEOREM PlacesCounted ==
  ASSUME Freezeouts
  PROVE  Spec => []PlacesCountDown
<1>1. CountingInv => PlacesCountDown
  BY CountedDown DEF CountingInv
<1> QED
  BY <1>1, CountingIsSound, PTL

\* Prizes are paid as two finishes decide before they take the lock.
THEOREM PrizesAreSound ==
  ASSUME Freezeouts, EveryGradePaysMore
  PROVE  Spec => [](CountingInv /\ PrizeInv)
<1>1. Init => PrizeInv
  BY InitPrize
<1>2. CountingInv /\ CountingInv' /\ PrizeInv /\ [Next]_vars => PrizeInv'
  BY PrizeKept DEF CountingInv
<1> QED
  BY <1>1, <1>2, CountingIsSound, PTL DEF Spec

\* Once finished, a tournament neither pays nor collects, and whoever was paid keeps place
\* and prize, whichever finishes and eliminations were decided before.
THEOREM FinishedTournamentsStay ==
  ASSUME Freezeouts, EveryGradePaysMore
  PROVE  Spec => FinishedIsFinal
<1>1. /\ CountingInv /\ PrizeInv /\ CountingInv' /\ [Next]_vars
      => [\A t \in Tournaments :
            tours[t].status = "FINISHED" =>
              /\ tours'[t] = tours[t]
              /\ EntriesOf(t)' = EntriesOf(t)
              /\ \A e \in EntriesOf(t) :
                   /\ PayoutsOf(e)' = PayoutsOf(e)
                   /\ entries[e].paid => entries'[e] = entries[e]]_vars
  <2> SUFFICES ASSUME CountingInv, PrizeInv, CountingInv', [Next]_vars,
                      NEW t \in Tournaments, tours[t].status = "FINISHED"
               PROVE  Final(t)
    BY DEF Final
  <2>1. RowStep
    BY StepsOfRows DEF CountingInv, CountInv
  <2> QED
    BY <2>1, FinishedStays DEF CountingInv
<1> QED
  BY <1>1, PrizesAreSound, PTL DEF Spec, FinishedIsFinal

\* The prizes of a finish never exceed the prize pool, but for the rounding of each; each is
\* posted once, to who has its place.
THEOREM PrizesAreFromThePot ==
  ASSUME Freezeouts, EveryGradePaysMore, EveryGradeFits
  PROVE  Spec => []PrizesComeFromThePot
<1>1. CountingInv /\ PrizeInv => PrizesComeFromThePot
  BY PrizesFromThePot DEF CountingInv
<1> QED
  BY <1>1, PrizesAreSound, PTL

=============================================================================
