----------------------------- MODULE Tournament -----------------------------
(***************************************************************************)
(* The tournaments of one clube as TournamentService runs them, over the   *)
(* wallets of WalletLedger and the rooms of Seating.  A request is a slot  *)
(* that takes one HTTP call after the other; the steps of a call are its   *)
(* awaits.  What a transaction does after its last wait is one step,       *)
(* because other requests see it only when it commits.                     *)
(***************************************************************************)
EXTENDS WalletLedger, Seating

CONSTANTS Guests,           \* users that do not exist until a walk-in registers
          Tournaments,
          MaxEntries,       \* rows of tournament_entries
          Keys,             \* values of the Idempotency-Key header
          Settings,         \* what an admin may ask a tournament to be, by number
          Positions,        \* final positions an admin may type in
          Openings,         \* balances a wallet may start with
          Levels,           \* blind levels, as far as the cut for entries looks
          Workload          \* operations the clients of this instance call, "bonus"
                            \* when they may ask for it, "time" when time passes

ASSUME TournamentConstants ==
  /\ Guests \subseteq Users
  /\ None \notin Users \cup Tournaments
  /\ MaxEntries \in Nat /\ Positions \subseteq Nat \ {0} /\ Openings \subseteq Nat
  /\ Levels \subseteq Nat

\* What the validation of a tournament's form lets through: amounts are not
\* negative, a grade is keyed by positions that count from one, and a table seats two
\* at least.
ASSUME SettingConstants ==
  \A n \in DOMAIN Settings :
    LET s == Settings[n]
    IN  /\ s.buyIn \in Nat /\ s.fee \in Nat /\ s.bonus \in Nat /\ s.max \in Nat
        /\ s.maxReentries \in Nat /\ s.capacity \in Nat \ {0, 1}
        /\ IsFiniteSet(DOMAIN s.prizes) /\ DOMAIN s.prizes \subseteq Nat \ {0}
        /\ \A p \in DOMAIN s.prizes : s.prizes[p] \in Nat

VARIABLES tours,            \* tournaments: status, setting, prize pool
          time,             \* startsAt and lateRegUntil passed or not, blind level
          entries,          \* tournament_entries
          rooms,            \* tournament_tables and active tournament_seats
          tourLock,         \* the request that holds the tournament's row lock
          req               \* control state and local variables of each request

tourVars == <<tours, time, entries, rooms>>
vars == <<walletVars, tourVars, tourLock, req>>

Entries == 1 .. MaxEntries
Alive == {"REGISTERED"}

NoTour == [status |-> "NONE", setting |-> 0, pool |-> 0]
NoEntry ==
  [status |-> "NONE", tour |-> None, user |-> None, bonus |-> FALSE, position |-> 0,
   prize |-> 0, paid |-> FALSE]
EmptyRoom == [tables |-> <<>>, at |-> [e \in Entries |-> NoSeat], clash |-> FALSE]
Idle ==
  [pc |-> "idle", op |-> None, tour |-> None, user |-> None, key |-> None, bonus |-> FALSE,
   entry |-> 0, position |-> 0, setting |-> 0, pool |-> 0, payouts |-> <<>>, next |-> 0,
   winner |-> 0]

Init ==
  /\ wallets = Users \ Guests
  /\ balance \in [Users -> Openings \cup {0}]
  /\ \A g \in Guests : balance[g] = 0
  /\ ledger = [u \in Users |->
       IF balance[u] = 0 THEN <<>>
       ELSE <<Entry(<<"deposit", u>>, "PIX_DEPOSIT", balance[u], balance[u], None)>>]
  /\ walletLock = [u \in Users |-> None]
  /\ tours = [t \in Tournaments |-> NoTour]
  /\ time = [t \in Tournaments |-> [phase |-> "before", level |-> 1]]
  /\ entries = [e \in Entries |-> NoEntry]
  /\ rooms = [t \in Tournaments |-> EmptyRoom]
  /\ tourLock = [t \in Tournaments |-> None]
  /\ req = [r \in Reqs |-> Idle]

-----------------------------------------------------------------------------

Setting(t) == Settings[tours[t].setting]
EntriesOf(t) == {e \in Entries : entries[e].tour = t}
AliveIn(t) == {e \in EntriesOf(t) : entries[e].status \in Alive}
NotRefunded(t) == {e \in EntriesOf(t) : entries[e].status # "REFUNDED"}

\* Rows are numbered in the order they are inserted.
Unused == {e \in Entries : entries[e].status = "NONE"}

\* Percentages are in hundredths of a percent; the grade may miss 100% by one.
ValidGrade(prizes) ==
  LET sum == MapThenSumSet(LAMBDA p : prizes[p], DOMAIN prizes)
  IN  sum \in 10000 - 1 .. 10000 + 1

\* assertCoherentReentryConfig; 0 stands for a column left null.
CoherentReentry(s) ==
  /\ ~s.reentry => s.maxReentries = 0 /\ s.untilLevel = 0
  /\ s.levels > 0 => s.untilLevel <= s.levels

ValidSettings ==
  {n \in DOMAIN Settings : ValidGrade(Settings[n].prizes) /\ CoherentReentry(Settings[n])}

Goto(r, pc) == req' = [req EXCEPT ![r].pc = pc]
Finish(r) == req' = [req EXCEPT ![r] = Idle]

Begin(r, arguments) ==
  /\ req[r].pc = "idle"
  /\ arguments.op \in Workload
  /\ req' = [req EXCEPT ![r] = arguments]
  /\ UNCHANGED <<walletVars, tourVars, tourLock>>

\* Mutant: the tournament is read without FOR UPDATE.
NoTourLock(t) == TRUE

\* SELECT ... FOR UPDATE on the tournament.
TourFree(t) == tourLock[t] = None

ToursUnlocked(r) ==
  [t \in Tournaments |-> IF tourLock[t] = r THEN None ELSE tourLock[t]]

\* The transaction ends without having written anything.
Rollback(r) ==
  /\ walletLock' = Unlocked(r)
  /\ tourLock' = ToursUnlocked(r)
  /\ Finish(r)
  /\ UNCHANGED <<wallets, balance, ledger, tourVars>>

RegisterOps == {"register", "registerGuest"}

LedgerKey(q) ==
  IF q.op \in RegisterOps THEN <<"tournament-buyin", q.key>>
  ELSE <<"tournament-refund", q.key>>

PayoutKey(e) == <<"tournament-payout", e>>

-----------------------------------------------------------------------------
(* Arrivals: the statements of each route before its first await.          *)

CreateTournament(t) ==
  /\ tours[t].status = "NONE"
  /\ \E n \in ValidSettings :
       tours' = [tours EXCEPT ![t] = [status |-> "REGISTERING", setting |-> n, pool |-> 0]]
  /\ UNCHANGED <<walletVars, time, entries, rooms, tourLock, req>>

RegisterEntry(r) ==
  \E u \in wallets, t \in Tournaments, k \in Keys, b \in BOOLEAN :
    /\ tours[t].status # "NONE" /\ (b => "bonus" \in Workload)
    /\ Begin(r, [Idle EXCEPT !.pc = "lookup", !.op = "register", !.tour = t, !.user = u,
                             !.key = k, !.bonus = b])

RegisterGuestEntry(r) ==
  \E t \in Tournaments, k \in Keys, b \in BOOLEAN :
    /\ tours[t].status # "NONE" /\ (b => "bonus" \in Workload)
    /\ Begin(r, [Idle EXCEPT !.pc = "lookup", !.op = "registerGuest", !.tour = t,
                             !.key = k, !.bonus = b])

UnregisterEntry(r) ==
  \E u \in wallets, t \in Tournaments, k \in Keys :
    /\ tours[t].status # "NONE"
    /\ Begin(r, [Idle EXCEPT !.pc = "lookup", !.op = "unregister", !.tour = t, !.user = u,
                             !.key = k])

EliminateEntry(r) ==
  \E e \in Entries, p \in Positions \cup {0} :
    /\ entries[e].status # "NONE"
    /\ Begin(r, [Idle EXCEPT !.pc = "lock", !.op = "eliminate", !.tour = entries[e].tour,
                             !.entry = e, !.position = p])

RedrawTables(r) ==
  \E t \in Tournaments :
    /\ tours[t].status # "NONE"
    /\ Begin(r, [Idle EXCEPT !.pc = "lock", !.op = "redraw", !.tour = t])

\* updateTournament reads the tournament and its entries, and refuses early.
UpdateTournament(r) ==
  \E t \in Tournaments, n \in ValidSettings :
    /\ tours[t].status = "REGISTERING" /\ NotRefunded(t) = {}
    /\ Begin(r, [Idle EXCEPT !.pc = "update", !.op = "update", !.tour = t, !.setting = n])

\* finishTournament's first query, outside the transaction.
FinishTournament(r) ==
  \E t \in Tournaments :
    /\ tours[t].status \in {"REGISTERING", "RUNNING"}
    /\ Begin(r, [Idle EXCEPT !.pc = "grade", !.op = "finish", !.tour = t,
                             !.pool = tours[t].pool])

\* Wall-clock time: the start, the end of late registration, and the levels,
\* which an admin may also step back.
TimePasses(t) ==
  /\ "time" \in Workload /\ tours[t].status # "NONE"
  /\ \/ /\ time[t].phase = "before"
        /\ time' = [time EXCEPT ![t].phase = "late"]
     \/ /\ time[t].phase = "late"
        /\ time' = [time EXCEPT ![t].phase = "over"]
     \/ \E l \in Levels \ {time[t].level} : time' = [time EXCEPT ![t].level = l]
  /\ UNCHANGED <<walletVars, tours, entries, rooms, tourLock, req>>

-----------------------------------------------------------------------------
(* register, registerGuest and unregister.                                 *)

\* findReplay on the fast path, before the transaction.
FindReplay(r) ==
  /\ req[r].pc = "lookup"
  /\ IF KeyUnused(LedgerKey(req[r])) THEN Goto(r, "lock") ELSE Finish(r)
  /\ UNCHANGED <<walletVars, tourVars, tourLock>>

OpenForEntries(t, again) ==
  \/ tours[t].status = "REGISTERING"
  \/ tours[t].status = "RUNNING" /\ (again \/ (Setting(t).late /\ time[t].phase # "over"))

\* assertRegistrationAllowed; previous counts every entry but the refunded ones.
RegistrationAllowed(t, previous) ==
  /\ previous > 0 =>
       Setting(t).reentry
       /\ (Setting(t).maxReentries = 0 \/ previous <= Setting(t).maxReentries)
  /\ OpenForEntries(t, previous > 0)
  /\ ~(/\ tours[t].status = "RUNNING" /\ Setting(t).untilLevel > 0
       /\ time[t].level > Setting(t).untilLevel)

PreviousEntries(t, u) == {e \in NotRefunded(t) : entries[e].user = u}

RoomForOne(t) == Cardinality(AliveIn(t)) < Setting(t).max

Eligible(t, previous, bonus) ==
  /\ RegistrationAllowed(t, previous)
  /\ RoomForOne(t)
  /\ bonus => Setting(t).bonus > 0

\* tournament_entries_active_user_unique.
NotAliveYet(t, u) == \A e \in AliveIn(t) : entries[e].user # u

\* The lock, then everything that decides is read under it: the replay again,
\* the previous entries, the tournament, how many are alive.
LockAndCheck(r) ==
  LET q == req[r]
      u == q.user
      previous == IF q.op = "register" THEN Cardinality(PreviousEntries(q.tour, u)) ELSE 0
      accepted ==
        /\ KeyUnused(LedgerKey(q))
        /\ IF q.op = "unregister"
           THEN /\ tours[q.tour].status = "REGISTERING"
                /\ \E e \in AliveIn(q.tour) : entries[e].user = u
           ELSE /\ Eligible(q.tour, previous, q.bonus)
                /\ q.op = "register" => NotAliveYet(q.tour, u)
                /\ Unused # {}
  IN  /\ q.pc = "lock" /\ q.op \in RegisterOps \cup {"unregister"}
      /\ TourFree(q.tour)
      /\ IF accepted
         THEN /\ tourLock' = [tourLock EXCEPT ![q.tour] = r]
              /\ req' = [req EXCEPT
                   ![r].pc = IF q.op = "registerGuest" THEN "commit" ELSE "wallet",
                   ![r].entry = IF q.op = "unregister"
                                THEN CHOOSE e \in AliveIn(q.tour) : entries[e].user = u ELSE 0]
         ELSE Finish(r) /\ UNCHANGED tourLock
      /\ UNCHANGED <<walletVars, tourVars>>

TakeWalletLock(r) ==
  /\ req[r].pc = "wallet"
  /\ LockWallet(r, req[r].user)
  /\ Goto(r, "commit")
  /\ UNCHANGED <<tourVars, tourLock>>

Price(t, bonus) ==
  Setting(t).buyIn + Setting(t).fee + (IF bonus THEN Setting(t).bonus ELSE 0)

\* Mutant: the fee goes into the pool.
PoolShareWithFee(t) == Setting(t).buyIn + Setting(t).fee

\* What an entry adds to the prize pool: neither fee nor staff bonus.
PoolShare(t) == Setting(t).buyIn

\* createEntryLocked: the entry, its debit, the prize pool, the seat.
CreateEntry(q, u, e) ==
  /\ entries' = [entries EXCEPT ![e] =
       [NoEntry EXCEPT !.status = "REGISTERED", !.tour = q.tour, !.user = u, !.bonus = q.bonus]]
  /\ tours' = [tours EXCEPT ![q.tour].pool = @ + PoolShare(q.tour)]
  /\ rooms' = [rooms EXCEPT ![q.tour] = SeatEntry(@, e, Setting(q.tour).capacity)]

CommitRegister(r) ==
  LET q == req[r]
      u == q.user
      e == Min(Unused)
      debit == -Price(q.tour, q.bonus)
  IN  /\ q.pc = "commit" /\ q.op = "register"
      /\ Unused # {}
      /\ Postable(balance[u], debit, LedgerKey(q))
      /\ CreateEntry(q, u, e)
      /\ ApplyLedgerEntry(u, balance[u], debit, "TOURNAMENT_BUY_IN", LedgerKey(q), e)
      /\ walletLock' = Unlocked(r)
      /\ tourLock' = ToursUnlocked(r)
      /\ Finish(r)
      /\ UNCHANGED <<wallets, time>>

\* The guest's user, membership and wallet are born in the transaction, and the
\* cash received is posted just before the buy-in it pays for.
CommitRegisterGuest(r) ==
  LET q == req[r]
      price == Price(q.tour, q.bonus)
      cashKey == <<"guest-cash-in", q.key>>
      e == Min(Unused)
  IN  /\ q.pc = "commit" /\ q.op = "registerGuest"
      /\ Unused # {} /\ KeyUnused(cashKey) /\ KeyUnused(LedgerKey(q))
      /\ \E g \in Guests \ wallets :
           /\ wallets' = wallets \cup {g}
           /\ CreateEntry(q, g, e)
           /\ ledger' = [ledger EXCEPT ![g] =
                Postings(0, price, "ADJUSTMENT", cashKey, None)
                \o Postings(price, -price, "TOURNAMENT_BUY_IN", LedgerKey(q), e)]
      /\ tourLock' = ToursUnlocked(r)
      /\ Finish(r)
      /\ UNCHANGED <<balance, walletLock, time>>

\* The refund is what the entry would cost now.
CommitUnregister(r) ==
  LET q == req[r]
      u == q.user
      t == q.tour
      e == q.entry
      refund == Price(t, entries[e].bonus)
  IN  /\ q.pc = "commit" /\ q.op = "unregister"
      /\ KeyUnused(LedgerKey(q))
      /\ ApplyLedgerEntry(u, balance[u], refund, "TOURNAMENT_REFUND", LedgerKey(q), e)
      /\ tours' = [tours EXCEPT ![t].pool = @ - PoolShare(t)]
      /\ entries' = [entries EXCEPT ![e].status = "REFUNDED"]
      /\ rooms' = [rooms EXCEPT ![t] = Vacate(@, e)]
      /\ walletLock' = Unlocked(r)
      /\ tourLock' = ToursUnlocked(r)
      /\ Finish(r)
      /\ UNCHANGED <<wallets, time>>

\* No funds, or a key another transaction has used in the meantime.
RefuseCommit(r) ==
  LET q == req[r]
  IN  /\ q.pc = "commit" /\ q.op \in RegisterOps \cup {"unregister"}
      /\ \/ ~KeyUnused(LedgerKey(q))
         \/ q.op \in RegisterOps /\ Unused = {}
         \/ q.op = "register"
            /\ ~Postable(balance[q.user], -Price(q.tour, q.bonus), LedgerKey(q))
         \/ q.op = "registerGuest"
            /\ (~KeyUnused(<<"guest-cash-in", q.key>>) \/ Guests \subseteq wallets)
      /\ Rollback(r)
-----------------------------------------------------------------------------
(* eliminate, redraw and update: nothing is waited for after the row lock. *)

\* Mutant: the entry is counted among those who are still alive.
PlaceAmongAll(t, e) == Cardinality(AliveIn(t)) + 1

\* Without a position of the admin's, the players left make the place.
AutomaticPosition(t, e) == Cardinality(AliveIn(t) \ {e}) + 1

CommitEliminate(r) ==
  LET q == req[r]
      t == q.tour
      e == q.entry
  IN  /\ q.pc = "lock" /\ q.op = "eliminate"
      /\ TourFree(t)
      /\ entries[e].status \notin {"ELIMINATED", "PAID"}
      /\ entries' = [entries EXCEPT
           ![e].status = "ELIMINATED",
           ![e].position = IF q.position > 0 THEN q.position ELSE AutomaticPosition(t, e)]
      /\ tours' = [tours EXCEPT
           ![t].status = IF @ = "REGISTERING" THEN "RUNNING" ELSE @]
      /\ rooms' = [rooms EXCEPT ![t] = Vacate(@, e)]
      /\ Finish(r)
      /\ UNCHANGED <<walletVars, time, tourLock>>

RefuseEliminate(r) ==
  /\ req[r].pc = "lock" /\ req[r].op = "eliminate"
  /\ TourFree(req[r].tour)
  /\ entries[req[r].entry].status \in {"ELIMINATED", "PAID"}
  /\ Finish(r)
  /\ UNCHANGED <<walletVars, tourVars, tourLock>>

\* Everyone alive is drawn again, in any order; with nobody alive it is an error.
CommitRedraw(r) ==
  LET t == req[r].tour
  IN  /\ req[r].pc = "lock" /\ req[r].op = "redraw"
      /\ TourFree(t)
      /\ IF AliveIn(t) = {} THEN UNCHANGED rooms
         ELSE \E order \in SetToSeqs(AliveIn(t)) :
                rooms' = [rooms EXCEPT ![t] = Redraw(@, order, Setting(t).capacity)]
      /\ Finish(r)
      /\ UNCHANGED <<walletVars, tours, time, entries, tourLock>>

Editable(t) == tours[t].status = "REGISTERING" /\ NotRefunded(t) = {}

\* The guarded UPDATE sees the entries of the snapshot its statement starts with.
StartUpdate(r) ==
  /\ req[r].pc = "update"
  /\ IF Editable(req[r].tour) THEN Goto(r, "apply") ELSE Finish(r)
  /\ UNCHANGED <<walletVars, tourVars, tourLock>>

\* When it has waited for the row, it looks again at the row's own columns only.
ApplyUpdate(r) ==
  LET q == req[r]
  IN  /\ q.pc = "apply"
      /\ TourFree(q.tour)
      /\ tours' = IF tours[q.tour].status = "REGISTERING"
                  THEN [tours EXCEPT ![q.tour].setting = q.setting] ELSE tours
      /\ Finish(r)
      /\ UNCHANGED <<walletVars, time, entries, rooms, tourLock>>

-----------------------------------------------------------------------------
(* finishTournament: three reads, each its own snapshot, then the          *)
(* transaction that pays what they said.                                   *)

FinishReadGrade(r) ==
  /\ req[r].pc = "grade"
  /\ req' = [req EXCEPT ![r].pc = "entries", ![r].setting = tours[req[r].tour].setting]
  /\ UNCHANGED <<walletVars, tourVars, tourLock>>

\* A percentage of the pool, to the cent, half up.
Share(pool, percentage) == (pool * percentage + 5000) \div 10000

\* Who may stand for each prized position: the last one alive is the champion,
\* the other positions are those recorded, and of several entries with the same
\* one the map keeps any, for the query has no order.
Holders(t, prizes) ==
  LET champion == AliveIn(t)
  IN  {h \in [DOMAIN prizes -> EntriesOf(t)] :
        \A p \in DOMAIN prizes :
          IF p = 1 /\ Cardinality(champion) = 1 THEN h[p] \in champion
          ELSE entries[h[p]].position = p}

Unpaid(holder, prizes) == {p \in DOMAIN prizes : ~entries[holder[p]].paid}

Payouts(q, holder, prizes) ==
  LET due == Ascending(Unpaid(holder, prizes))
  IN  [i \in DOMAIN due |->
        [entry |-> holder[due[i]], position |-> due[i],
         amount |-> Share(q.pool, prizes[due[i]])]]

FinishReadEntries(r) ==
  LET q == req[r]
      t == q.tour
      prizes == Settings[q.setting].prizes
      champion == AliveIn(t)
      cancelled == EntriesOf(t) # {} /\ NotRefunded(t) = {}
      tooMany == Cardinality(champion) > 1 /\ 1 \in DOMAIN prizes
      proceed(payouts, winner) ==
        req' = [req EXCEPT ![r].pc = "lock", ![r].payouts = payouts, ![r].winner = winner]
  IN  /\ q.pc = "entries"
      /\ IF cancelled THEN proceed(<<>>, 0)
         ELSE IF tooMany \/ Holders(t, prizes) = {} THEN Finish(r)
         ELSE \E holder \in Holders(t, prizes) :
                proceed(Payouts(q, holder, prizes),
                        IF Cardinality(champion) = 1 THEN CHOOSE e \in champion : TRUE ELSE 0)
      /\ UNCHANGED <<walletVars, tourVars, tourLock>>

FinishLock(r) ==
  /\ req[r].pc = "lock" /\ req[r].op = "finish"
  /\ TourFree(req[r].tour)
  /\ tourLock' = [tourLock EXCEPT ![req[r].tour] = r]
  /\ req' = [req EXCEPT ![r].pc = "pay", ![r].next = 1]
  /\ UNCHANGED <<walletVars, tourVars>>

NextPayout(q) == q.payouts[q.next]
NextWinner(q) == entries[NextPayout(q).entry].user

\* The winners' wallets are locked one after the other, in the order of the grade.
LockNextWinner(r) ==
  LET q == req[r]
  IN  /\ q.pc = "pay" /\ q.next <= Len(q.payouts)
      /\ walletLock[NextWinner(q)] \in {None, r}
      /\ KeyUnused(PayoutKey(NextPayout(q).entry))
      /\ walletLock' = [walletLock EXCEPT ![NextWinner(q)] = r]
      /\ req' = [req EXCEPT ![r].next = @ + 1]
      /\ UNCHANGED <<wallets, balance, ledger, tourVars, tourLock>>

\* The entry was paid by another finish: the whole transaction is undone.
RefusePayout(r) ==
  LET q == req[r]
  IN  /\ q.pc = "pay" /\ q.next <= Len(q.payouts)
      /\ walletLock[NextWinner(q)] \in {None, r}
      /\ ~KeyUnused(PayoutKey(NextPayout(q).entry))
      /\ Rollback(r)

\* The payouts of a request that go to one user.
Won(u, payouts) == {i \in DOMAIN payouts : entries[payouts[i].entry].user = u}

\* The balance of one user after those of the first n payouts that are theirs.
BalanceAfter(u, payouts, n) ==
  balance[u]
    + SumFunctionOnSet([i \in DOMAIN payouts |-> payouts[i].amount],
                       {i \in Won(u, payouts) : i <= n})

\* What a finish posts for one user, in the order of the grade.
PrizePostings(u, payouts) ==
  LET won == Ascending(Won(u, payouts))
  IN  [k \in DOMAIN won |->
        LET p == payouts[won[k]]
        IN  Entry(PayoutKey(p.entry), "TOURNAMENT_PAYOUT", p.amount,
                  BalanceAfter(u, payouts, won[k]), p.entry)]

\* The rows are written whatever they have become since they were read.
CommitFinish(r) ==
  LET q == req[r]
      paidAt(e) == {i \in DOMAIN q.payouts : q.payouts[i].entry = e}
      settled(e) ==
        IF paidAt(e) # {}
        THEN LET p == q.payouts[Min(paidAt(e))]
             IN  [entries[e] EXCEPT !.status = "PAID", !.paid = TRUE, !.prize = p.amount,
                                    !.position = p.position]
        ELSE IF e = q.winner THEN [entries[e] EXCEPT !.position = 1] ELSE entries[e]
  IN  /\ q.pc = "pay" /\ q.next > Len(q.payouts)
      /\ balance' = [u \in Users |-> BalanceAfter(u, q.payouts, Len(q.payouts))]
      /\ ledger' = [u \in Users |-> ledger[u] \o PrizePostings(u, q.payouts)]
      /\ entries' = [e \in Entries |-> settled(e)]
      /\ tours' = [tours EXCEPT ![q.tour].status = "FINISHED"]
      /\ walletLock' = Unlocked(r)
      /\ tourLock' = ToursUnlocked(r)
      /\ Finish(r)
      /\ UNCHANGED <<wallets, time, rooms>>

-----------------------------------------------------------------------------

\* The process dies, the connection drops or the transaction times out.
Fail(r) == req[r].pc # "idle" /\ Rollback(r)

\* The request whose lock this one waits for, if it waits.
WaitsFor(r) ==
  LET q == req[r]
  IN  CASE q.pc \in {"lock", "apply"} -> tourLock[q.tour]
        [] q.pc = "wallet" -> walletLock[q.user]
        [] q.pc = "pay" /\ q.next <= Len(q.payouts) -> walletLock[NextWinner(q)]
        [] OTHER -> None

\* Mutant: nobody looks for deadlocks.
NoCycleFound(r) == FALSE

InCycle(r) ==
  \E S \in SUBSET Reqs : r \in S /\ \A q \in S : WaitsFor(q) \in S \ {q}

\* PostgreSQL finds the cycle after a second and aborts one of its transactions.
AbortDeadlock(r) == InCycle(r) /\ Rollback(r)

Arrive(r) ==
  \/ RegisterEntry(r) \/ RegisterGuestEntry(r) \/ UnregisterEntry(r) \/ EliminateEntry(r)
  \/ RedrawTables(r) \/ UpdateTournament(r) \/ FinishTournament(r)

TakeLock(r) ==
  \/ LockAndCheck(r) \/ TakeWalletLock(r) \/ CommitEliminate(r) \/ RefuseEliminate(r)
  \/ CommitRedraw(r) \/ ApplyUpdate(r) \/ FinishLock(r) \/ LockNextWinner(r)
  \/ RefusePayout(r)

Proceed(r) ==
  \/ FindReplay(r) \/ CommitRegister(r) \/ CommitRegisterGuest(r) \/ CommitUnregister(r)
  \/ RefuseCommit(r) \/ StartUpdate(r) \/ FinishReadGrade(r) \/ FinishReadEntries(r)
  \/ CommitFinish(r) \/ AbortDeadlock(r)

Next ==
  \/ \E t \in Tournaments : CreateTournament(t) \/ TimePasses(t)
  \/ \E r \in Reqs : Arrive(r) \/ TakeLock(r) \/ Proceed(r) \/ Fail(r)

Spec == Init /\ [][Next]_vars

\* The server keeps running what it accepted, and a row lock that is asked for is
\* granted in turn.
FairSpec == Spec /\ \A r \in Reqs : WF_vars(Proceed(r)) /\ SF_vars(TakeLock(r))
=============================================================================
