------------------------------ MODULE CashTable ------------------------------
(***************************************************************************)
(* The cash tables of one clube as TableService runs them: every HTTP      *)
(* request is a sequence of awaited database calls, and other requests run *)
(* between any two of them.  A request is served once; a client that does  *)
(* not get an answer sends another request with the same idempotency key.  *)
(***************************************************************************)
EXTENDS WalletLedger, FiniteSets, Functions

CONSTANTS Guests,           \* users that do not exist until a walk-in is seated
          Tables, Sessions, \* identities, not yet created in the initial state
          Keys,             \* values of the Idempotency-Key header
          MaxSeats,         \* seats of a table
          BuyIns, Results,  \* amounts a request may name
          Ranges,           \* [min, max] buy-in ranges an admin may ask for
          Openings,         \* balances a wallet may start with
          MaxAttempts,      \* attempts on a lost optimistic lock (3 in the code)
          Workload          \* operations the clients of this instance call

ASSUME CashTableConstants ==
  /\ Guests \subseteq Users
  /\ None \notin Users \cup Sessions \cup Tables
  /\ MaxSeats \in Nat /\ MaxAttempts \in Nat \ {0}
  /\ BuyIns \subseteq Nat /\ Results \subseteq Int /\ Openings \subseteq Nat
  /\ Ranges \subseteq [min : Nat, max : Nat]

VARIABLES tables,           \* status and buy-in range of each table
          sessions,         \* table_sessions rows
          movements,        \* stack_movements of each session, oldest first
          results,          \* history: results applied to each stack so far
          req               \* control state and local variables of each request

tableVars == <<tables, sessions, movements, results>>
vars == <<walletVars, tableVars, req>>

CashOps == {"cashOut", "adminCashOut", "close"}
Ops == CashOps \cup {"sit", "sitGuest", "rebuy", "movement", "reopen"}

Seats == 1 .. MaxSeats

NoTable == [status |-> "NONE", range |-> [min |-> 0, max |-> 0]]
NoSession ==
  [status |-> "NONE", user |-> None, table |-> None, seat |-> 0, stack |-> 0,
   bought |-> 0, cashed |-> 0, version |-> 0]
NewRequest ==
  [pc |-> "new", op |-> None, key |-> None, user |-> None, table |-> None, seat |-> 0,
   session |-> None, amount |-> 0, version |-> 0, stack |-> 0, bal |-> 0, tries |-> 0,
   todo |-> {}, listed |-> {}]

Init ==
  /\ wallets = Users \ Guests
  /\ balance \in [Users -> Openings \cup {0}]
  /\ \A g \in Guests : balance[g] = 0
  /\ ledger = [u \in Users |->
       IF balance[u] = 0 THEN <<>>
       ELSE <<Entry(<<"deposit", u>>, "PIX_DEPOSIT", balance[u], balance[u], None)>>]
  /\ walletLock = [u \in Users |-> None]
  /\ tables = [t \in Tables |-> NoTable]
  /\ sessions = [s \in Sessions |-> NoSession]
  /\ movements = [s \in Sessions |-> <<>>]
  /\ results = [s \in Sessions |-> 0]
  /\ req = [r \in Reqs |-> NewRequest]

-----------------------------------------------------------------------------

Exists(s) == sessions[s].status # "NONE"
Active(s) == sessions[s].status = "ACTIVE"
ActiveAt(t) == {s \in Sessions : Active(s) /\ sessions[s].table = t}

\* The two partial unique indexes on ACTIVE sessions.
SeatFree(t, seat) == \A s \in ActiveAt(t) : sessions[s].seat # seat
NotSeated(t, u) == \A s \in ActiveAt(t) : sessions[s].user # u

InRange(t, amount) == tables[t].range.min <= amount /\ amount <= tables[t].range.max

At(r, op, pc) == req[r].op \in op /\ req[r].pc = pc
Goto(r, pc) == req' = [req EXCEPT ![r].pc = pc]
Finish(r) == Goto(r, "done")

\* A request enters the server with the arguments of its route.
Begin(r, arguments) ==
  /\ req[r].pc = "new"
  /\ arguments.op \in Workload
  /\ req' = [req EXCEPT ![r] = arguments]
  /\ UNCHANGED <<walletVars, tableVars>>

\* Each route has a key space of its own, and closing keys by session.
LedgerKey(q) ==
  CASE q.op \in {"sit", "sitGuest"} -> <<"buyin", q.key>>
    [] q.op = "rebuy"               -> <<"rebuy", q.key>>
    [] q.op = "cashOut"             -> <<"cashout", q.key>>
    [] q.op = "adminCashOut"        -> <<"admin-cashout", q.key>>
    [] OTHER                        -> <<"close-table", q.session>>

\* Whose wallet the request debits or credits.
Payer(q) == IF q.op = "sit" THEN q.user ELSE sessions[q.session].user

-----------------------------------------------------------------------------
(* The first statements of each route, up to its first await on data that  *)
(* can still change.                                                       *)

CreateTable(t) ==
  /\ tables[t].status = "NONE"
  /\ \E range \in Ranges :
       /\ range.min <= range.max
       /\ tables' = [tables EXCEPT ![t] = [status |-> "OPEN", range |-> range]]
  /\ UNCHANGED <<walletVars, sessions, movements, results, req>>

SitAtTable(r) ==
  \E u \in wallets, t \in Tables, seat \in Seats, b \in BuyIns, k \in Keys :
    /\ tables[t].status = "OPEN"
    /\ InRange(t, b)
    /\ Begin(r, [NewRequest EXCEPT !.pc = "lookup", !.op = "sit", !.key = k, !.user = u,
                  !.table = t, !.seat = seat, !.amount = b])

SitGuestAtTable(r) ==
  \E t \in Tables, seat \in Seats, b \in BuyIns, k \in Keys :
    /\ tables[t].status = "OPEN"
    /\ InRange(t, b)
    /\ Begin(r, [NewRequest EXCEPT !.pc = "lookup", !.op = "sitGuest", !.key = k,
                  !.table = t, !.seat = seat, !.amount = b])

Rebuy(r) ==
  \E s \in Sessions, b \in BuyIns, k \in Keys :
    /\ Exists(s)
    /\ InRange(sessions[s].table, b)
    /\ Begin(r, [NewRequest EXCEPT !.pc = "lookup", !.op = "rebuy", !.key = k,
                  !.session = s, !.amount = b])

CashOut(r) ==
  \E s \in Sessions, op \in {"cashOut", "adminCashOut"}, k \in Keys :
    /\ Exists(s)
    /\ Begin(r, [NewRequest EXCEPT !.pc = "lookup", !.op = op, !.key = k,
                  !.session = s])

RecordMovement(r) ==
  \E s \in Sessions, a \in Results :
    /\ Exists(s)
    /\ Begin(r, [NewRequest EXCEPT !.pc = "read", !.op = "movement", !.session = s,
                  !.amount = a])

CloseTable(r) ==
  \E t \in Tables :
    /\ tables[t].status = "OPEN"
    /\ Begin(r, [NewRequest EXCEPT !.pc = "list", !.op = "close", !.table = t])

ReopenTable(r) ==
  \E t \in Tables :
    /\ tables[t].status = "CLOSED"
    /\ Begin(r, [NewRequest EXCEPT !.pc = "set", !.op = "reopen", !.table = t])

-----------------------------------------------------------------------------
(* Steps shared by the routes that move money.                             *)

\* A key that is already in the ledger is a replay: answer without acting.
\* Closing goes on with the next session instead.
FindReplay(r) ==
  LET q == req[r]
      replay == IF q.op = "close" THEN "next" ELSE "done"
      proceed == CASE q.op = "sit"      -> "lock"
                   [] q.op = "sitGuest" -> "commit"
                   [] OTHER             -> "read"
  IN  /\ q.pc = "lookup"
      /\ Goto(r, IF KeyUnused(LedgerKey(q)) THEN proceed ELSE replay)
      /\ UNCHANGED <<walletVars, tableVars>>

\* mustGetSession at the top of an attempt: the stack and the version the
\* rest of the attempt relies on.  A session that has ended is an error.
ReadSession(r) ==
  LET q == req[r]
      fresh == sessions[q.session]
      proceed == IF q.op = "movement" THEN "apply" ELSE "lock"
      refused == ~Active(q.session) \/ (q.op = "movement" /\ fresh.stack + q.amount < 0)
  IN  /\ q.pc = "read"
      /\ IF refused THEN Finish(r)
         ELSE req' = [req EXCEPT ![r].pc = proceed, ![r].version = fresh.version,
                                 ![r].stack = fresh.stack]
      /\ UNCHANGED <<walletVars, tableVars>>

TakeWalletLock(r) ==
  LET u == Payer(req[r])
  IN  /\ req[r].pc = "lock"
      /\ LockWallet(r, u)
      /\ req' = [req EXCEPT ![r].pc = "commit", ![r].bal = balance[u]]
      /\ UNCHANGED tableVars

\* Mutant: the update does not compare versions.
AnyVersion(q) == TRUE

\* UPDATE ... WHERE version = fresh.version matched the row.
SameVersion(q) == sessions[q.session].version = q.version

\* What the transaction asks of the wallet.
Amount(q) == IF q.op \in CashOps THEN q.stack ELSE -q.amount

\* Mutant: the movement records what was asked for, also when a stack is cashed out.
MovementAskedFor(q, amount, reason, after) ==
  [reason |-> reason, amount |-> q.amount, after |-> after, key |-> LedgerKey(q)]

Movement(q, amount, reason, after) ==
  [reason |-> reason, amount |-> amount, after |-> after, key |-> LedgerKey(q)]

Seated(q, u) ==
  [status |-> "ACTIVE", user |-> u, table |-> q.table, seat |-> q.seat,
   stack |-> q.amount, bought |-> q.amount, cashed |-> 0, version |-> 1]

\* Mutant: running out of attempts is not an error for closeTable.
NextAttemptOrSkip(r) ==
  req' = [req EXCEPT ![r].tries = @ + 1,
                     ![r].pc = IF req[r].tries + 1 < MaxAttempts THEN "read"
                               ELSE IF req[r].op = "close" THEN "next" ELSE "done"]

\* An attempt whose version is stale is rolled back and made again, if any is left.
NextAttempt(r) ==
  req' = [req EXCEPT ![r].tries = @ + 1,
                     ![r].pc = IF req[r].tries + 1 < MaxAttempts THEN "read" ELSE "done"]

-----------------------------------------------------------------------------
(* The transactions.  Everything between the lock and the commit is        *)
(* invisible to other requests, so each is one step.                       *)

TakeSeat(q, u, s) ==
  /\ sessions[s].status = "NONE"
  /\ SeatFree(q.table, q.seat) /\ NotSeated(q.table, u)
  /\ sessions' = [sessions EXCEPT ![s] = Seated(q, u)]
  /\ movements' = [movements EXCEPT ![s] =
       Append(@, Movement(q, q.amount, "BUY_IN", q.amount))]

CommitSit(r) ==
  LET q == req[r]
  IN  /\ At(r, {"sit"}, "commit")
      /\ Postable(q.bal, -q.amount, LedgerKey(q))
      /\ \E s \in Sessions :
           /\ TakeSeat(q, q.user, s)
           /\ ApplyLedgerEntry(q.user, q.bal, -q.amount, "TABLE_BUY_IN", LedgerKey(q), s)
      /\ walletLock' = Unlocked(r)
      /\ Finish(r)
      /\ UNCHANGED <<wallets, tables, results>>

\* The guest's user, membership and wallet are created in the transaction, so
\* there is nothing to lock; the cash received and the buy-in cancel out.
CommitSitGuest(r) ==
  LET q == req[r]
      cashKey == <<"guest-cash-in", q.key>>
  IN  /\ At(r, {"sitGuest"}, "commit")
      /\ Postable(0, q.amount, cashKey)
      /\ Postable(q.amount, -q.amount, LedgerKey(q))
      /\ \E g \in Guests \ wallets, s \in Sessions :
           /\ TakeSeat(q, g, s)
           /\ wallets' = wallets \cup {g}
           /\ ledger' = [ledger EXCEPT ![g] =
                Postings(0, q.amount, "ADJUSTMENT", cashKey, None)
                \o Postings(q.amount, -q.amount, "TABLE_BUY_IN", LedgerKey(q), s)]
      /\ Finish(r)
      /\ UNCHANGED <<balance, walletLock, tables, results>>

CommitRebuy(r) ==
  LET q == req[r]
      s == q.session
      newStack == q.stack + q.amount
  IN  /\ At(r, {"rebuy"}, "commit")
      /\ Postable(q.bal, -q.amount, LedgerKey(q))
      /\ SameVersion(q)
      /\ ApplyLedgerEntry(Payer(q), q.bal, -q.amount, "TABLE_BUY_IN", LedgerKey(q), s)
      /\ sessions' = [sessions EXCEPT ![s].stack = newStack,
                                      ![s].bought = @ + q.amount,
                                      ![s].version = @ + 1]
      /\ movements' = [movements EXCEPT ![s] =
           Append(@, Movement(q, q.amount, "BUY_IN", newStack))]
      /\ walletLock' = Unlocked(r)
      /\ Finish(r)
      /\ UNCHANGED <<wallets, tables, results>>

CommitCashOut(r) ==
  LET q == req[r]
      s == q.session
  IN  /\ At(r, CashOps, "commit")
      /\ Postable(q.bal, q.stack, LedgerKey(q))
      /\ SameVersion(q)
      /\ ApplyLedgerEntry(Payer(q), q.bal, q.stack, "TABLE_CASH_OUT", LedgerKey(q), s)
      /\ sessions' = [sessions EXCEPT ![s].status = "CASHED_OUT",
                                      ![s].stack = 0,
                                      ![s].cashed = @ + q.stack,
                                      ![s].version = @ + 1]
      /\ movements' = [movements EXCEPT ![s] =
           Append(@, Movement(q, -q.stack, "CASH_OUT", 0))]
      /\ walletLock' = Unlocked(r)
      /\ Goto(r, IF q.op = "close" THEN "next" ELSE "done")
      /\ UNCHANGED <<wallets, tables, results>>

\* The optimistic lock was lost: roll back, and read the session again.
RetryCommit(r) ==
  /\ At(r, CashOps \cup {"rebuy"}, "commit")
  /\ Postable(req[r].bal, Amount(req[r]), LedgerKey(req[r]))
  /\ ~SameVersion(req[r])
  /\ walletLock' = Unlocked(r)
  /\ NextAttempt(r)
  /\ UNCHANGED <<wallets, balance, ledger, tableVars>>

\* No funds, a key or a seat taken in the meantime: the transaction is rolled
\* back and the error ends the request, the whole closing included.
RefuseCommit(r) ==
  LET q == req[r]
  IN  /\ q.pc = "commit"
      /\ \/ ~Postable(q.bal, Amount(q), LedgerKey(q)) /\ q.op # "sitGuest"
         \/ q.op = "sitGuest" /\ ~KeyUnused(LedgerKey(q))
         \/ q.op \in {"sit", "sitGuest"} /\ ~SeatFree(q.table, q.seat)
         \/ q.op = "sit" /\ ~NotSeated(q.table, q.user)
      /\ walletLock' = Unlocked(r)
      /\ Finish(r)
      /\ UNCHANGED <<wallets, balance, ledger, tableVars>>

-----------------------------------------------------------------------------
(* recordMovement runs outside any transaction: two statements.            *)

ApplyMovement(r) ==
  LET q == req[r]
      s == q.session
      newStack == q.stack + q.amount
  IN  /\ q.pc = "apply"
      /\ SameVersion(q)
      /\ sessions' = [sessions EXCEPT ![s].stack = newStack, ![s].version = @ + 1]
      /\ results' = [results EXCEPT ![s] = @ + q.amount]
      /\ Goto(r, "insert")
      /\ UNCHANGED <<walletVars, tables, movements>>

RetryMovement(r) ==
  /\ req[r].pc = "apply"
  /\ ~SameVersion(req[r])
  /\ NextAttempt(r)
  /\ UNCHANGED <<walletVars, tableVars>>

InsertMovement(r) ==
  LET q == req[r]
  IN  /\ q.pc = "insert"
      /\ movements' = [movements EXCEPT ![q.session] =
           Append(@, [reason |-> "HAND_RESULT", amount |-> q.amount,
                      after |-> q.stack + q.amount, key |-> None])]
      /\ Finish(r)
      /\ UNCHANGED <<walletVars, tables, sessions, results>>

-----------------------------------------------------------------------------
(* closeTable and reopenTable.                                             *)

ListSessions(r) ==
  LET found == ActiveAt(req[r].table)
  IN  /\ req[r].pc = "list"
      /\ req' = [req EXCEPT ![r].pc = "next", ![r].todo = found, ![r].listed = found]
      /\ UNCHANGED <<walletVars, tableVars>>

\* Mutant: the loop never leaves a session behind it.
CloseNextForever(r) ==
  /\ req[r].pc = "next"
  /\ \E s \in req[r].todo :
       req' = [req EXCEPT ![r].pc = "lookup", ![r].session = s, ![r].tries = 0]
  /\ UNCHANGED <<walletVars, tableVars>>

\* The loop over the listed sessions, in the order the query returned them.
CloseNext(r) ==
  /\ req[r].pc = "next"
  /\ \E s \in req[r].todo :
       req' = [req EXCEPT ![r].pc = "lookup", ![r].session = s, ![r].tries = 0,
                          ![r].todo = @ \ {s}]
  /\ UNCHANGED <<walletVars, tableVars>>

SetClosed(r) ==
  /\ req[r].pc = "next"
  /\ req[r].todo = {}
  /\ tables' = [tables EXCEPT ![req[r].table].status = "CLOSED"]
  /\ Finish(r)
  /\ UNCHANGED <<walletVars, sessions, movements, results>>

SetOpen(r) ==
  /\ At(r, {"reopen"}, "set")
  /\ tables' = [tables EXCEPT ![req[r].table].status = "OPEN"]
  /\ Finish(r)
  /\ UNCHANGED <<walletVars, sessions, movements, results>>

\* The process dies, the connection drops or the transaction times out: what
\* was not committed is rolled back and nobody finishes the request.
Fail(r) ==
  /\ req[r].pc \notin {"new", "done"}
  /\ walletLock' = Unlocked(r)
  /\ Finish(r)
  /\ UNCHANGED <<wallets, balance, ledger, tableVars>>

-----------------------------------------------------------------------------

Arrive(r) ==
  \/ SitAtTable(r) \/ SitGuestAtTable(r) \/ Rebuy(r) \/ CashOut(r)
  \/ RecordMovement(r) \/ CloseTable(r) \/ ReopenTable(r)

Proceed(r) ==
  \/ FindReplay(r) \/ ReadSession(r) \/ TakeWalletLock(r)
  \/ CommitSit(r) \/ CommitSitGuest(r) \/ CommitRebuy(r) \/ CommitCashOut(r)
  \/ RetryCommit(r) \/ RefuseCommit(r)
  \/ ApplyMovement(r) \/ RetryMovement(r) \/ InsertMovement(r)
  \/ ListSessions(r) \/ CloseNext(r) \/ SetClosed(r) \/ SetOpen(r)

Next ==
  \/ \E t \in Tables : CreateTable(t)
  \/ \E r \in Reqs : Arrive(r) \/ Proceed(r) \/ Fail(r)

Spec == Init /\ [][Next]_vars

\* The server keeps running the requests it accepted; the database grants row
\* locks in the order they were asked for.
FairSpec == Spec /\ \A r \in Reqs : WF_vars(Proceed(r))
=============================================================================
