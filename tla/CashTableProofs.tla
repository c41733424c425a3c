--------------------------- MODULE CashTableProofs ---------------------------
(***************************************************************************)
(* Type correctness of CashTable and its locks, for every value of the     *)
(* constants.                                                              *)
(*                                                                         *)
(* TypeOK is not inductive: a commit writes what the request computed some *)
(* steps earlier, so the invariant also says what the locals of a request  *)
(* hold at each step (RequestShape), and that every session that exists    *)
(* has an owner with a wallet (SessionShape).                              *)
(*                                                                         *)
(* The two locks of the money routes: the optimistic version of a session  *)
(* (VersionInv) and the row lock of a wallet (LockInv), and what follows   *)
(* from them.  At the end, the loop of closeTable (CloseInv).              *)
(*                                                                         *)
(* The books: the money of the clube is conserved (MoneyConserved), the    *)
(* wallets and the stack ledgers pair up entry by entry (DoubleEntry), and *)
(* the routes implement ChipBank.  Both sums are inductive once the two    *)
(* locks make the balance and the stack of a commit current.               *)
(***************************************************************************)
EXTENDS CashTableProps, SumLemmas

\* The request works on a session row that exists.
OnSession(q) == q.session \in Sessions /\ Exists(q.session)

\* What the locals of a request hold at each point of its route: the arguments
\* its controller validated, and the session, once the route has one.
WellFormed(q) ==
  \/ /\ q.op = "sit"
     /\ q.pc \in {"lookup", "lock", "commit"}
     /\ q.key \in Keys /\ q.table \in Tables /\ q.amount \in BuyIns /\ q.user \in wallets
  \/ /\ q.op = "sitGuest"
     /\ q.pc \in {"lookup", "commit"}
     /\ q.key \in Keys /\ q.table \in Tables /\ q.amount \in BuyIns
  \/ /\ q.op = "rebuy"
     /\ q.pc \in {"lookup", "read", "lock", "commit"}
     /\ q.key \in Keys /\ q.amount \in BuyIns /\ OnSession(q)
  \/ /\ q.op \in {"cashOut", "adminCashOut"}
     /\ q.pc \in {"lookup", "read", "lock", "commit"}
     /\ q.key \in Keys /\ OnSession(q)
  \/ /\ q.op = "movement"
     /\ q.pc \in {"read", "insert"} \/ (q.pc = "apply" /\ q.stack + q.amount >= 0)
     /\ q.amount \in Results /\ OnSession(q)
  \/ /\ q.op = "close"
     /\ q.pc \in {"list", "next"} \/ (q.pc \in {"lookup", "read", "lock", "commit"} /\ OnSession(q))
     /\ q.table \in Tables
     /\ \A s \in q.todo : Exists(s)
  \/ q.op = "reopen" /\ q.pc = "set" /\ q.table \in Tables

\* Steps change where a request is, never what it was asked to do.
SameRoute(p, q) ==
  p.op = q.op /\ p.key = q.key /\ p.user = q.user /\ p.table = q.table /\ p.amount = q.amount

\* Every request in progress is well formed.
RequestShape == \A r \in Reqs : req[r].pc \notin {"new", "done"} => WellFormed(req[r])

\* A session row that exists belongs to somebody with a wallet and to a table;
\* one that does not is blank, and no result was ever applied to it.
SessionShape ==
  \A s \in Sessions :
    IF Exists(s) THEN sessions[s].user \in wallets /\ sessions[s].table \in Tables
    ELSE sessions[s] = NoSession /\ results[s] = 0

\* The inductive invariant behind TypeOK.
TypeInv == TypeOK /\ RequestShape /\ SessionShape

\* Moving a request to another step keeps the requests well typed.
LEMMA GotoTyped ==
  ASSUME req \in [Reqs -> Requests], NEW r \in Reqs, NEW pc \in Steps, Goto(r, pc)
  PROVE  req' \in [Reqs -> Requests]
BY DEF Goto, Requests

\* Wallets and session rows are never deleted, so a step of one request cannot
\* spoil the locals of another.
LEMMA ShapeKept ==
  ASSUME TypeInv, NEW r \in Reqs,
         wallets \subseteq wallets',
         \A s \in Sessions : Exists(s) => Exists(s)',
         \A p \in Reqs \ {r} : req'[p] = req[p],
         req'[r].pc \in {"new", "done"} \/ WellFormed(req[r])'
  PROVE  RequestShape'
<1> SUFFICES ASSUME NEW p \in Reqs, p # r, req[p].pc \notin {"new", "done"}
             PROVE  WellFormed(req[p])'
  BY DEF RequestShape
<1>1. WellFormed(req[p])
  BY DEF TypeInv, RequestShape
<1>2. req'[p] = req[p] /\ req[p].todo \subseteq Sessions
  BY DEF TypeInv, TypeOK, Requests
<1> QED
  BY <1>1, <1>2 DEF WellFormed, OnSession

\* A step that writes no row but possibly a wallet's lock keeps the invariant.
LEMMA ControlStep ==
  ASSUME TypeInv, NEW r \in Reqs,
         UNCHANGED <<wallets, balance, ledger, tables, sessions, movements, results>>,
         walletLock' \in [Users -> Reqs \cup {None}],
         req' \in [Reqs -> Requests],
         \A p \in Reqs \ {r} : req'[p] = req[p],
         req'[r].pc \in {"new", "done"} \/ WellFormed(req[r])'
  PROVE  TypeInv'
<1>1. TypeOK'
  BY DEF TypeInv, TypeOK
<1>2. RequestShape'
  BY ShapeKept DEF Exists
<1>3. SessionShape'
  BY DEF TypeInv, SessionShape, Exists
<1> QED
  BY <1>1, <1>2, <1>3 DEF TypeInv

\* Accepting a request whose arguments passed validation keeps the invariant.
LEMMA BeginTyped ==
  ASSUME TypeInv, NEW r \in Reqs, NEW q \in Requests, Begin(r, q), WellFormed(q)
  PROVE  TypeInv'
<1>1. req' = [req EXCEPT ![r] = q]
      /\ UNCHANGED <<wallets, balance, ledger, walletLock, tables, sessions, movements, results>>
  BY DEF Begin, walletVars, tableVars
<1>2. req' \in [Reqs -> Requests] /\ req'[r] = q /\ \A p \in Reqs \ {r} : req'[p] = req[p]
  BY <1>1 DEF TypeInv, TypeOK
<1>3. WellFormed(req[r])'
  BY <1>1, <1>2 DEF WellFormed, OnSession, Exists
<1> QED
  BY <1>1, <1>2, <1>3, ControlStep DEF TypeInv, TypeOK

\* The blank request is well typed.
LEMMA NewRequestTyped == NewRequest \in Requests
BY DEF NewRequest, Requests, Steps

\* Every route of TableController starts with well-formed arguments.
LEMMA ArriveTyped ==
  ASSUME TypeInv, NEW r \in Reqs, Arrive(r)
  PROVE  TypeInv'
<1>1. CASE SitAtTable(r)
  <2>1. PICK u \in wallets, t \in Tables, seat \in Seats, b \in BuyIns, k \in Keys :
          Begin(r, [NewRequest EXCEPT !.pc = "lookup", !.op = "sit", !.key = k, !.user = u,
                                      !.table = t, !.seat = seat, !.amount = b])
    BY <1>1 DEF SitAtTable
  <2> DEFINE q == [NewRequest EXCEPT !.pc = "lookup", !.op = "sit", !.key = k, !.user = u,
                                      !.table = t, !.seat = seat, !.amount = b]
  <2>2. u \in Users /\ seat \in Nat /\ b \in Int
    BY CashTableConstants DEF Seats, TypeInv, TypeOK
  <2>3. q \in Requests
    BY <2>2, NewRequestTyped DEF Requests, Steps, Ops, CashOps
  <2>4. WellFormed(q)
    BY DEF NewRequest, WellFormed, OnSession
  <2> QED
    BY <2>1, <2>3, <2>4, BeginTyped
<1>2. CASE SitGuestAtTable(r)
  <2>1. PICK t \in Tables, seat \in Seats, b \in BuyIns, k \in Keys :
          Begin(r, [NewRequest EXCEPT !.pc = "lookup", !.op = "sitGuest", !.key = k,
                                      !.table = t, !.seat = seat, !.amount = b])
    BY <1>2 DEF SitGuestAtTable
  <2> DEFINE q == [NewRequest EXCEPT !.pc = "lookup", !.op = "sitGuest", !.key = k,
                                      !.table = t, !.seat = seat, !.amount = b]
  <2>2. seat \in Nat /\ b \in Int
    BY CashTableConstants DEF Seats
  <2>3. q \in Requests
    BY <2>2, NewRequestTyped DEF Requests, Steps, Ops, CashOps
  <2>4. WellFormed(q)
    BY DEF NewRequest, WellFormed, OnSession
  <2> QED
    BY <2>1, <2>3, <2>4, BeginTyped
<1>3. CASE Rebuy(r)
  <2>1. PICK s \in Sessions, b \in BuyIns, k \in Keys :
          /\ Exists(s)
          /\ Begin(r, [NewRequest EXCEPT !.pc = "lookup", !.op = "rebuy", !.key = k,
                                         !.session = s, !.amount = b])
    BY <1>3 DEF Rebuy
  <2> DEFINE q == [NewRequest EXCEPT !.pc = "lookup", !.op = "rebuy", !.key = k,
                                      !.session = s, !.amount = b]
  <2>2. b \in Int
    BY CashTableConstants
  <2>3. q \in Requests
    BY <2>2, NewRequestTyped DEF Requests, Steps, Ops, CashOps
  <2>4. WellFormed(q)
    BY <2>1 DEF NewRequest, WellFormed, OnSession
  <2> QED
    BY <2>1, <2>3, <2>4, BeginTyped
<1>4. CASE CashOut(r)
  <2>1. PICK s \in Sessions, op \in {"cashOut", "adminCashOut"}, k \in Keys :
          /\ Exists(s)
          /\ Begin(r, [NewRequest EXCEPT !.pc = "lookup", !.op = op, !.key = k,
                                         !.session = s])
    BY <1>4 DEF CashOut
  <2> DEFINE q == [NewRequest EXCEPT !.pc = "lookup", !.op = op, !.key = k, !.session = s]
  <2>2. q \in Requests
    BY CashTableConstants, NewRequestTyped DEF Requests, Steps, Ops, CashOps
  <2>3. WellFormed(q)
    BY <2>1 DEF NewRequest, WellFormed, OnSession
  <2> QED
    BY <2>1, <2>2, <2>3, BeginTyped
<1>5. CASE RecordMovement(r)
  <2>1. PICK s \in Sessions, a \in Results :
          /\ Exists(s)
          /\ Begin(r, [NewRequest EXCEPT !.pc = "read", !.op = "movement", !.session = s,
                                         !.amount = a])
    BY <1>5 DEF RecordMovement
  <2> DEFINE q == [NewRequest EXCEPT !.pc = "read", !.op = "movement", !.session = s,
                                      !.amount = a]
  <2>2. q \in Requests
    BY CashTableConstants, NewRequestTyped DEF Requests, Steps, Ops, CashOps
  <2>3. WellFormed(q)
    BY <2>1 DEF NewRequest, WellFormed, OnSession
  <2> QED
    BY <2>1, <2>2, <2>3, BeginTyped
<1>6. CASE CloseTable(r)
  <2>1. PICK t \in Tables :
          Begin(r, [NewRequest EXCEPT !.pc = "list", !.op = "close", !.table = t])
    BY <1>6 DEF CloseTable
  <2> DEFINE q == [NewRequest EXCEPT !.pc = "list", !.op = "close", !.table = t]
  <2>2. q \in Requests
    BY CashTableConstants, NewRequestTyped DEF Requests, Steps, Ops, CashOps
  <2>3. WellFormed(q)
    BY DEF NewRequest, WellFormed, OnSession
  <2> QED
    BY <2>1, <2>2, <2>3, BeginTyped
<1>7. CASE ReopenTable(r)
  <2>1. PICK t \in Tables :
          Begin(r, [NewRequest EXCEPT !.pc = "set", !.op = "reopen", !.table = t])
    BY <1>7 DEF ReopenTable
  <2> DEFINE q == [NewRequest EXCEPT !.pc = "set", !.op = "reopen", !.table = t]
  <2>2. q \in Requests
    BY CashTableConstants, NewRequestTyped DEF Requests, Steps, Ops, CashOps
  <2>3. WellFormed(q)
    BY DEF NewRequest, WellFormed, OnSession
  <2> QED
    BY <2>1, <2>2, <2>3, BeginTyped
<1> QED
  BY <1>1, <1>2, <1>3, <1>4, <1>5, <1>6, <1>7 DEF Arrive

\* The replay lookup of sit, re-buy, cash-out and closing keeps the invariant.
LEMMA FindReplayTyped ==
  ASSUME TypeInv, NEW r \in Reqs, FindReplay(r)
  PROVE  TypeInv'
<1>1. WellFormed(req[r]) /\ req[r].pc = "lookup" /\ req[r] \in Requests
  BY DEF TypeInv, TypeOK, RequestShape, FindReplay
<1>2. PICK pc \in {"lock", "commit", "read", "next", "done"} :
        /\ Goto(r, pc)
        /\ req[r].op = "sit" => pc \in {"lock", "done"}
        /\ req[r].op = "sitGuest" => pc \in {"commit", "done"}
        /\ req[r].op = "close" => pc \in {"next", "read"}
        /\ req[r].op \notin {"sit", "sitGuest", "close"} => pc \in {"read", "done"}
  BY DEF FindReplay
<1>3. req' \in [Reqs -> Requests]
  BY <1>2, GotoTyped DEF TypeInv, TypeOK, Steps
<1>4. UNCHANGED <<wallets, balance, ledger, walletLock, tables, sessions, movements, results>>
  BY DEF FindReplay, walletVars, tableVars
<1>5. /\ \A p \in Reqs \ {r} : req'[p] = req[p]
      /\ SameRoute(req'[r], req[r]) /\ req'[r].pc = pc
      /\ req'[r].session = req[r].session /\ req'[r].todo = req[r].todo
  BY <1>1, <1>2 DEF TypeInv, TypeOK, Requests, Goto, SameRoute
<1>6. pc = "done" \/ WellFormed(req[r])'
  <2>1. UNCHANGED <<wallets, sessions>>
    BY <1>4
  <2> QED
    BY <1>1, <1>2, <1>5, <2>1 DEF WellFormed, OnSession, Exists, SameRoute
<1> QED
  BY <1>3, <1>4, <1>5, <1>6, ControlStep DEF TypeInv, TypeOK

\* mustGetSession keeps the invariant: the snapshot it takes is well typed, and
\* a movement goes on only if the stack it will write is not negative.
LEMMA ReadSessionTyped ==
  ASSUME TypeInv, NEW r \in Reqs, ReadSession(r)
  PROVE  TypeInv'
<1> DEFINE q == req[r]
           fresh == sessions[q.session]
<1>1. /\ WellFormed(q) /\ q.pc = "read" /\ q \in Requests
      /\ q.session \in Sessions /\ fresh \in SessionRows
  BY DEF TypeInv, TypeOK, RequestShape, ReadSession, WellFormed, OnSession
<1>2. UNCHANGED <<wallets, balance, ledger, walletLock, tables, sessions, movements, results>>
  BY DEF ReadSession, walletVars, tableVars
<1>3. CASE req' = [req EXCEPT ![r].pc = "done"]
  <2>1. req' \in [Reqs -> Requests] /\ req'[r].pc = "done" /\ \A p \in Reqs \ {r} : req'[p] = req[p]
    BY <1>1, <1>3 DEF TypeInv, TypeOK, Requests, Steps
  <2> QED
    BY <1>2, <2>1, ControlStep DEF TypeInv, TypeOK
<1>4. ASSUME NEW pc \in {"apply", "lock"},
             pc = "apply" <=> q.op = "movement",
             pc = "apply" => fresh.stack + q.amount >= 0,
             req' = [req EXCEPT ![r].pc = pc, ![r].version = fresh.version,
                                ![r].stack = fresh.stack]
      PROVE  TypeInv'
  <2>1. fresh.version \in Nat /\ fresh.stack \in Nat
    BY <1>1 DEF SessionRows
  <2>2. req'[r] = [q EXCEPT !.pc = pc, !.version = fresh.version, !.stack = fresh.stack]
        /\ \A p \in Reqs \ {r} : req'[p] = req[p]
    BY <1>4 DEF TypeInv, TypeOK, Requests
  <2>3. req' \in [Reqs -> Requests]
    BY <1>1, <1>4, <2>1, ZenonT(60) DEF TypeInv, TypeOK, Requests, Steps
  <2>4. /\ SameRoute(req'[r], q) /\ req'[r].pc = pc /\ req'[r].stack = fresh.stack
        /\ req'[r].session = q.session /\ req'[r].todo = q.todo
    BY <1>1, <2>2 DEF Requests, SameRoute
  <2>5. WellFormed(req[r])'
    BY <1>1, <1>2, <1>4, <2>4 DEF WellFormed, OnSession, Exists, SameRoute
  <2> QED
    BY <1>2, <2>2, <2>3, <2>5, ControlStep DEF TypeInv, TypeOK
<1>5. fresh.stack \in Int /\ q.amount \in Int
  BY <1>1 DEF SessionRows, Requests
<1>6. CASE q.op = "movement"
  BY <1>3, <1>4, <1>5, <1>6 DEF ReadSession, Finish, Goto
<1>7. CASE q.op # "movement"
  BY <1>3, <1>4, <1>7 DEF ReadSession, Finish, Goto
<1> QED
  BY <1>6, <1>7

\* Releasing the locks of a request keeps the lock table well typed.
LEMMA UnlockedTyped ==
  ASSUME walletLock \in [Users -> Reqs \cup {None}], NEW r
  PROVE  Unlocked(r) \in [Users -> Reqs \cup {None}]
BY DEF Unlocked

\* The wallet a route is about to lock or post to exists.
LEMMA PayerTyped ==
  ASSUME TypeInv, NEW r \in Reqs, req[r].pc \in {"lock", "commit"}, req[r].op # "sitGuest"
  PROVE  /\ Payer(req[r]) \in wallets
         /\ req[r].op # "sit" => req[r].session \in Sessions /\ Exists(req[r].session)
BY DEF TypeInv, RequestShape, SessionShape, WellFormed, OnSession, Payer

\* SELECT ... FOR UPDATE keeps the invariant: the balance read is well typed.
LEMMA TakeWalletLockTyped ==
  ASSUME TypeInv, NEW r \in Reqs, TakeWalletLock(r)
  PROVE  TypeInv'
<1> DEFINE u == Payer(req[r])
<1>1. WellFormed(req[r]) /\ req[r].pc = "lock" /\ req[r] \in Requests
  BY DEF TypeInv, TypeOK, RequestShape, TakeWalletLock
<1>2. u \in Users /\ balance[u] \in Nat
  BY <1>1, PayerTyped DEF TypeInv, TypeOK, WellFormed
<1>3. /\ UNCHANGED <<wallets, balance, ledger, tables, sessions, movements, results>>
      /\ walletLock' = [walletLock EXCEPT ![u] = r]
      /\ req' = [req EXCEPT ![r].pc = "commit", ![r].bal = balance[u]]
  BY DEF TakeWalletLock, LockWallet, tableVars
<1>4. walletLock' \in [Users -> Reqs \cup {None}]
  BY <1>3 DEF TypeInv, TypeOK
<1>5. req' \in [Reqs -> Requests]
  BY <1>1, <1>2, <1>3, ZenonT(60) DEF TypeInv, TypeOK, Requests, Steps
<1>6. req'[r] = [req[r] EXCEPT !.pc = "commit", !.bal = balance[u]]
      /\ \A p \in Reqs \ {r} : req'[p] = req[p]
  BY <1>3 DEF TypeInv, TypeOK, Requests
<1>7. /\ SameRoute(req'[r], req[r]) /\ req'[r].pc = "commit"
      /\ req'[r].session = req[r].session /\ req'[r].todo = req[r].todo
  BY <1>1, <1>6 DEF Requests, SameRoute
<1>8. WellFormed(req[r])'
  <2>1. WellFormed(req[r]) /\ req[r].pc = "lock" /\ UNCHANGED <<wallets, sessions>>
    BY <1>1, <1>3
  <2> QED
    BY <1>7, <2>1 DEF WellFormed, OnSession, Exists, SameRoute
<1> QED
  BY <1>3, <1>4, <1>5, <1>6, <1>8, ControlStep

\* Rolling back an attempt and reading the session again keeps the invariant.
LEMMA NextAttemptTyped ==
  ASSUME TypeInv, NEW r \in Reqs, NextAttempt(r),
         UNCHANGED <<wallets, balance, ledger, tables, sessions, movements, results>>,
         walletLock' \in [Users -> Reqs \cup {None}],
         req[r].op \in {"rebuy", "movement"} \cup CashOps,
         req[r].pc \in {"commit", "apply"}
  PROVE  TypeInv'
<1>1. WellFormed(req[r]) /\ req[r] \in Requests
  BY DEF TypeInv, TypeOK, RequestShape
<1>2. PICK pc \in {"read", "done"} :
        req' = [req EXCEPT ![r].tries = @ + 1, ![r].pc = pc]
  BY DEF NextAttempt
<1>3. req'[r] = [req[r] EXCEPT !.tries = @ + 1, !.pc = pc]
      /\ \A p \in Reqs \ {r} : req'[p] = req[p]
  BY <1>2 DEF TypeInv, TypeOK, Requests
<1>4. req' \in [Reqs -> Requests]
  BY <1>1, <1>2, SMTT(40) DEF TypeInv, TypeOK, Requests, Steps
<1>5. /\ SameRoute(req'[r], req[r]) /\ req'[r].pc = pc
      /\ req'[r].session = req[r].session /\ req'[r].todo = req[r].todo
  BY <1>1, <1>3 DEF Requests, SameRoute
<1>6. WellFormed(req[r])' \/ pc = "done"
  BY <1>1, <1>5 DEF WellFormed, OnSession, Exists, SameRoute, CashOps
<1> QED
  BY <1>3, <1>4, <1>5, <1>6, ControlStep

\* Ending a request, in success or in error, keeps the invariant.
LEMMA EndTyped ==
  ASSUME TypeInv, NEW r \in Reqs, Finish(r),
         UNCHANGED <<wallets, balance, ledger, tables, sessions, movements, results>>,
         walletLock' \in [Users -> Reqs \cup {None}]
  PROVE  TypeInv'
<1>1. req' \in [Reqs -> Requests]
  BY GotoTyped DEF TypeInv, TypeOK, Finish, Steps
<1>2. req'[r].pc = "done" /\ \A p \in Reqs \ {r} : req'[p] = req[p]
  BY DEF TypeInv, TypeOK, Requests, Finish, Goto
<1> QED
  BY <1>1, <1>2, ControlStep

\* closeTable's listing and its loop keep the invariant: every session still to
\* be cashed out exists.
LEMMA LoopTyped ==
  ASSUME TypeInv, NEW r \in Reqs, ListSessions(r) \/ CloseNext(r)
  PROVE  TypeInv'
<1>1. WellFormed(req[r]) /\ req[r] \in Requests
  BY DEF TypeInv, TypeOK, RequestShape, ListSessions, CloseNext
<1>2. UNCHANGED <<wallets, balance, ledger, walletLock, tables, sessions, movements, results>>
  BY DEF ListSessions, CloseNext, walletVars, tableVars
<1>3. CASE ListSessions(r)
  <2> DEFINE found == ActiveAt(req[r].table)
  <2>1. found \subseteq Sessions /\ \A s \in found : Exists(s)
    BY DEF ActiveAt, Active, Exists
  <2>2. req' = [req EXCEPT ![r].pc = "next", ![r].todo = found, ![r].listed = found]
    BY <1>3 DEF ListSessions
  <2>3. req'[r] = [req[r] EXCEPT !.pc = "next", !.todo = found, !.listed = found]
        /\ \A p \in Reqs \ {r} : req'[p] = req[p]
    BY <2>2 DEF TypeInv, TypeOK, Requests
  <2>4. req' \in [Reqs -> Requests]
    <3>1. [req[r] EXCEPT !.pc = "next", !.todo = found, !.listed = found] \in Requests
      BY <1>1, <2>1 DEF Requests, Steps
    <3>2. req \in [Reqs -> Requests]
      BY DEF TypeInv, TypeOK
    <3> QED
      BY <2>2, <3>1, <3>2
  <2>5. /\ SameRoute(req'[r], req[r]) /\ req'[r].pc = "next" /\ req'[r].todo = found
    BY <1>1, <2>3 DEF Requests, SameRoute
  <2>6. req[r].pc = "list"
    BY <1>3 DEF ListSessions
  <2>7. WellFormed(req[r])'
    BY <1>1, <1>2, <2>1, <2>5, <2>6 DEF WellFormed, OnSession, Exists, SameRoute
  <2> QED
    BY <1>2, <2>3, <2>4, <2>7, ControlStep DEF TypeInv, TypeOK
<1>4. CASE CloseNext(r)
  <2>1. PICK s \in req[r].todo :
          req' = [req EXCEPT ![r].pc = "lookup", ![r].session = s, ![r].tries = 0,
                             ![r].todo = @ \ {s}]
    BY <1>4 DEF CloseNext
  <2>2. s \in Sessions /\ Exists(s)
    BY <1>1, <1>4 DEF CloseNext, WellFormed, Requests, OnSession
  <2>3. req'[r] = [req[r] EXCEPT !.pc = "lookup", !.session = s, !.tries = 0, !.todo = @ \ {s}]
        /\ \A p \in Reqs \ {r} : req'[p] = req[p]
    BY <2>1 DEF TypeInv, TypeOK, Requests
  <2>4. req' \in [Reqs -> Requests]
    <3>1. [req[r] EXCEPT !.pc = "lookup", !.session = s, !.tries = 0, !.todo = @ \ {s}]
          \in Requests
      BY <1>1, <2>2 DEF Requests, Steps
    <3>2. req \in [Reqs -> Requests]
      BY DEF TypeInv, TypeOK
    <3> QED
      BY <2>1, <3>1, <3>2
  <2>5. /\ SameRoute(req'[r], req[r]) /\ req'[r].pc = "lookup" /\ req'[r].session = s
        /\ req'[r].todo \subseteq req[r].todo
    BY <1>1, <2>3 DEF Requests, SameRoute
  <2>6. req[r].pc = "next"
    BY <1>4 DEF CloseNext
  <2>7. WellFormed(req[r])'
    BY <1>1, <1>2, <2>2, <2>5, <2>6 DEF WellFormed, OnSession, Exists, SameRoute
  <2> QED
    BY <1>2, <2>3, <2>4, <2>7, ControlStep DEF TypeInv, TypeOK
<1> QED
  BY <1>3, <1>4

(***************************************************************************)
(* The steps that write rows.                                              *)
(***************************************************************************)

\* applyLedgerEntry writes well-typed entries and a balance that is never
\* negative, whatever the amount: on standby the shortfall is credited first.
LEMMA LedgerTyped ==
  ASSUME ledger \in [Users -> Seq(Entries)], balance \in [Users -> Nat],
         NEW u \in Users, NEW bal \in Nat, NEW amount \in Int, NEW type \in EntryTypes,
         NEW key \in DirectKeys, NEW session \in Sessions \cup {None},
         ApplyLedgerEntry(u, bal, amount, type, key, session)
  PROVE  ledger' \in [Users -> Seq(Entries)] /\ balance' \in [Users -> Nat]
<1>1. NewBalance(bal, amount) \in Nat
  BY DEF NewBalance, Overdraws
<1>2. Entry(key, type, amount, NewBalance(bal, amount), session) \in Entries
  BY <1>1 DEF Entry, Entries, LedgerKeys
<1>3. Overdraws(bal, amount) =>
        Entry(TopUpKey(key), "ADJUSTMENT", -(bal + amount), -amount, None) \in Entries
  BY DEF Entry, Entries, LedgerKeys, TopUpKey, Overdraws, EntryTypes
<1>4. Postings(bal, amount, type, key, session) \in Seq(Entries)
  BY <1>2, <1>3 DEF Postings
<1> QED
  BY <1>1, <1>4 DEF ApplyLedgerEntry

\* The idempotency key a route writes is one of the keys of the ledger.
LEMMA LedgerKeyTyped ==
  ASSUME TypeInv, NEW r \in Reqs, req[r].pc = "commit"
  PROVE  LedgerKey(req[r]) \in DirectKeys
BY DEF TypeInv, RequestShape, WellFormed, OnSession, LedgerKey, DirectKeys

\* A transaction that writes one session row, and belongs to a request at its
\* commit or at its stack update, keeps the invariant if the row is well typed.
LEMMA RowStep ==
  ASSUME TypeInv, NEW r \in Reqs, NEW s \in Sessions,
         wallets \subseteq wallets', wallets' \subseteq Users,
         ledger' \in [Users -> Seq(Entries)], balance' \in [Users -> Nat],
         walletLock' \in [Users -> Reqs \cup {None}],
         UNCHANGED tables,
         NEW row \in SessionRows, sessions' = [sessions EXCEPT ![s] = row],
         row.status # "NONE", row.user \in wallets', row.table \in Tables,
         movements' \in [Sessions -> Seq(Moves)],
         results' \in [Sessions -> Int],
         \A z \in Sessions \ {s} : results'[z] = results[z],
         NEW pc \in {"insert", "next", "done"}, Goto(r, pc),
         pc = "insert" => req[r].op = "movement",
         pc = "next" => req[r].op = "close",
         req[r].pc \in {"commit", "apply"}
  PROVE  TypeInv'
<1>1. req' \in [Reqs -> Requests]
  BY GotoTyped DEF TypeInv, TypeOK, Steps
<1>2. TypeOK'
  BY <1>1 DEF TypeInv, TypeOK
<1>3. \A z \in Sessions : sessions'[z] = IF z = s THEN row ELSE sessions[z]
  BY DEF TypeInv, TypeOK
<1>4. \A z \in Sessions : Exists(z) => Exists(z)'
  BY <1>3 DEF Exists
<1>5. SessionShape'
  <2>1. ASSUME NEW z \in Sessions, z # s
        PROVE  IF Exists(z)' THEN sessions'[z].user \in wallets' /\ sessions'[z].table \in Tables
               ELSE sessions'[z] = NoSession /\ results'[z] = 0
    <3>1. sessions'[z] = sessions[z] /\ results'[z] = results[z] /\ (Exists(z)' <=> Exists(z))
      BY <1>3, <2>1 DEF Exists
    <3>2. IF Exists(z) THEN sessions[z].user \in wallets /\ sessions[z].table \in Tables
          ELSE sessions[z] = NoSession /\ results[z] = 0
      BY DEF TypeInv, SessionShape
    <3> QED
      BY <3>1, <3>2
  <2>2. Exists(s)' /\ sessions'[s].user \in wallets' /\ sessions'[s].table \in Tables
    BY <1>3 DEF Exists
  <2>3. NoSession' = NoSession
    BY DEF NoSession
  <2> QED
    BY <2>1, <2>2, <2>3 DEF SessionShape
<1>6. /\ \A p \in Reqs \ {r} : req'[p] = req[p]
      /\ req'[r] = [req[r] EXCEPT !.pc = pc]
      /\ WellFormed(req[r]) /\ req[r] \in Requests
  BY DEF TypeInv, TypeOK, RequestShape, Goto
<1>7. /\ SameRoute(req'[r], req[r]) /\ req'[r].pc = pc
      /\ req'[r].session = req[r].session /\ req'[r].todo = req[r].todo
      /\ req[r].todo \subseteq Sessions
  BY <1>6 DEF Requests, SameRoute
<1>8. req'[r].pc \in {"new", "done"} \/ WellFormed(req[r])'
  BY <1>4, <1>6, <1>7 DEF WellFormed, OnSession, SameRoute
<1>9. RequestShape'
  BY <1>4, <1>6, <1>8, ShapeKept
<1> QED
  BY <1>2, <1>5, <1>9 DEF TypeInv

\* The transaction of sitAtTable keeps the invariant.
LEMMA CommitSitTyped ==
  ASSUME TypeInv, NEW r \in Reqs, CommitSit(r)
  PROVE  TypeInv'
<1> DEFINE q == req[r]
<1>1. /\ q \in Requests /\ q.pc = "commit" /\ q.op = "sit"
      /\ q.table \in Tables /\ q.user \in wallets /\ q.user \in Users /\ q.amount \in Nat
      /\ q.bal \in Nat /\ q.seat \in Nat
  BY CashTableConstants
  DEF TypeInv, TypeOK, RequestShape, CommitSit, At, WellFormed, Requests
<1>2. PICK s \in Sessions :
        /\ TakeSeat(q, q.user, s)
        /\ ApplyLedgerEntry(q.user, q.bal, -q.amount, "TABLE_BUY_IN", LedgerKey(q), s)
  BY DEF CommitSit
<1> DEFINE row == Seated(q, q.user)
           move == Movement(q, q.amount, "BUY_IN", q.amount)
<1>3. LedgerKey(q) \in DirectKeys
  BY <1>1, LedgerKeyTyped
<1>4. ledger' \in [Users -> Seq(Entries)] /\ balance' \in [Users -> Nat]
  BY <1>1, <1>2, <1>3, LedgerTyped, SMTT(40) DEF TypeInv, TypeOK, EntryTypes
<1>5. row \in SessionRows /\ row.status # "NONE" /\ row.user = q.user /\ row.table = q.table
  BY <1>1 DEF Seated, SessionRows
<1>6. move \in Moves
  BY <1>1, <1>3 DEF Movement, Moves, LedgerKeys
<1>7. sessions' = [sessions EXCEPT ![s] = row] /\ movements' \in [Sessions -> Seq(Moves)]
  BY <1>2, <1>6 DEF TakeSeat, TypeInv, TypeOK
<1>8. /\ UNCHANGED <<wallets, tables, results>> /\ Goto(r, "done")
      /\ walletLock' \in [Users -> Reqs \cup {None}]
  BY UnlockedTyped DEF CommitSit, Finish, TypeInv, TypeOK
<1>9. wallets' \subseteq Users /\ results' \in [Sessions -> Int]
  BY <1>8 DEF TypeInv, TypeOK
<1> QED
  BY <1>1, <1>4, <1>5, <1>7, <1>8, <1>9, RowStep

\* The transaction of sitGuestAtTable keeps the invariant: the guest's wallet is
\* created with the seat, and both entries of the cash paid are well typed.
LEMMA CommitSitGuestTyped ==
  ASSUME TypeInv, NEW r \in Reqs, CommitSitGuest(r)
  PROVE  TypeInv'
<1> DEFINE q == req[r]
           cashKey == <<"guest-cash-in", q.key>>
<1>1. /\ q \in Requests /\ q.pc = "commit" /\ q.op = "sitGuest" /\ q.key \in Keys
      /\ q.table \in Tables /\ q.amount \in Nat /\ q.seat \in Nat
  BY CashTableConstants
  DEF TypeInv, TypeOK, RequestShape, CommitSitGuest, At, WellFormed, Requests
<1>2. PICK g \in Guests \ wallets, s \in Sessions :
        /\ TakeSeat(q, g, s)
        /\ wallets' = wallets \cup {g}
        /\ ledger' = [ledger EXCEPT ![g] =
             Postings(0, q.amount, "ADJUSTMENT", cashKey, None)
             \o Postings(q.amount, -q.amount, "TABLE_BUY_IN", LedgerKey(q), s)]
  BY DEF CommitSitGuest
<1>3. g \in Users
  BY CashTableConstants
<1> DEFINE row == Seated(q, g)
           move == Movement(q, q.amount, "BUY_IN", q.amount)
           cash == Entry(cashKey, "ADJUSTMENT", q.amount, q.amount, None)
           buyIn == Entry(LedgerKey(q), "TABLE_BUY_IN", -q.amount, 0, s)
<1>4. LedgerKey(q) \in DirectKeys /\ cashKey \in DirectKeys
  BY <1>1, LedgerKeyTyped DEF DirectKeys
<1>5. /\ Postings(0, q.amount, "ADJUSTMENT", cashKey, None) = <<cash>>
      /\ Postings(q.amount, -q.amount, "TABLE_BUY_IN", LedgerKey(q), s) = <<buyIn>>
  BY <1>1 DEF Postings, Overdraws, NewBalance
<1>6. cash \in Entries /\ buyIn \in Entries
  BY <1>1, <1>4 DEF Entry, Entries, LedgerKeys, EntryTypes
<1>7. ledger' \in [Users -> Seq(Entries)]
  <2>1. <<cash>> \o <<buyIn>> \in Seq(Entries)
    BY <1>6
  <2> QED
    BY <1>2, <1>5, <2>1 DEF TypeInv, TypeOK
<1>8. row \in SessionRows /\ row.status # "NONE" /\ row.user = g /\ row.table = q.table
  BY <1>1, <1>3 DEF Seated, SessionRows
<1>9. move \in Moves
  BY <1>1, <1>4 DEF Movement, Moves, LedgerKeys
<1>10. sessions' = [sessions EXCEPT ![s] = row] /\ movements' \in [Sessions -> Seq(Moves)]
  BY <1>2, <1>9 DEF TakeSeat, TypeInv, TypeOK
<1>11. /\ UNCHANGED <<balance, walletLock, tables, results>> /\ Goto(r, "done")
       /\ wallets \subseteq wallets' /\ wallets' \subseteq Users /\ g \in wallets'
  BY <1>2, <1>3 DEF CommitSitGuest, Finish, TypeInv, TypeOK
<1> QED
  BY <1>1, <1>7, <1>8, <1>10, <1>11, RowStep DEF TypeInv, TypeOK

\* The transaction of rebuy keeps the invariant.
LEMMA CommitRebuyTyped ==
  ASSUME TypeInv, NEW r \in Reqs, CommitRebuy(r)
  PROVE  TypeInv'
<1> DEFINE q == req[r]
           s == q.session
           newStack == q.stack + q.amount
           move == Movement(q, q.amount, "BUY_IN", newStack)
<1>1. /\ q \in Requests /\ q.pc = "commit" /\ q.op = "rebuy"
      /\ s \in Sessions /\ Exists(s) /\ q.amount \in Nat /\ q.amount \in Int
      /\ q.bal \in Nat /\ q.stack \in Nat
  BY CashTableConstants
  DEF TypeInv, TypeOK, RequestShape, CommitRebuy, At, WellFormed, OnSession, Requests
<1> DEFINE row == [sessions[s] EXCEPT !.stack = newStack, !.bought = @ + q.amount,
                                      !.version = @ + 1]
<1>2. /\ ApplyLedgerEntry(Payer(q), q.bal, -q.amount, "TABLE_BUY_IN", LedgerKey(q), s)
      /\ sessions' = [sessions EXCEPT ![s].stack = newStack, ![s].bought = @ + q.amount,
                                      ![s].version = @ + 1]
      /\ movements' = [movements EXCEPT ![s] = Append(@, move)]
  BY DEF CommitRebuy
<1>3. LedgerKey(q) \in DirectKeys /\ Payer(q) \in Users
  BY <1>1, LedgerKeyTyped, PayerTyped DEF TypeInv, TypeOK
<1>4. ledger' \in [Users -> Seq(Entries)] /\ balance' \in [Users -> Nat]
  <2>1. -q.amount \in Int /\ "TABLE_BUY_IN" \in EntryTypes
    BY <1>1 DEF EntryTypes
  <2> QED
    BY <1>1, <1>2, <1>3, <2>1, LedgerTyped DEF TypeInv, TypeOK
<1>5. sessions[s] \in SessionRows /\ sessions[s].status # "NONE"
      /\ sessions[s].user \in wallets /\ sessions[s].table \in Tables
  BY <1>1 DEF TypeInv, TypeOK, SessionShape, Exists
<1>6. row \in SessionRows
  <2>1. /\ sessions[s].bought + q.amount \in Nat /\ sessions[s].version + 1 \in Nat
        /\ newStack \in Nat
    BY <1>1, <1>5 DEF SessionRows
  <2> QED
    BY <1>5, <2>1 DEF SessionRows
<1>7. row.status = sessions[s].status /\ row.user = sessions[s].user
      /\ row.table = sessions[s].table
  BY <1>5 DEF SessionRows
<1>8. sessions' = [sessions EXCEPT ![s] = row]
  BY <1>1, <1>2, <1>5 DEF TypeInv, TypeOK, SessionRows
<1>9. move \in Moves
  BY <1>1, <1>3 DEF Movement, Moves, LedgerKeys
<1>10. movements' \in [Sessions -> Seq(Moves)]
  BY <1>1, <1>2, <1>9 DEF TypeInv, TypeOK
<1> HIDE DEF row
<1>11. /\ UNCHANGED <<wallets, tables, results>> /\ Goto(r, "done")
       /\ walletLock' \in [Users -> Reqs \cup {None}]
       /\ wallets' \subseteq Users /\ results' \in [Sessions -> Int]
  BY UnlockedTyped DEF CommitRebuy, Finish, TypeInv, TypeOK
<1> QED
  BY <1>1, <1>4, <1>5, <1>6, <1>7, <1>8, <1>10, <1>11, RowStep

\* The transaction of doCashOut keeps the invariant, called from any route.
LEMMA CommitCashOutTyped ==
  ASSUME TypeInv, NEW r \in Reqs, CommitCashOut(r)
  PROVE  TypeInv'
<1> DEFINE q == req[r]
           s == q.session
           move == Movement(q, -q.stack, "CASH_OUT", 0)
<1>1. /\ q \in Requests /\ q.pc = "commit" /\ q.op \in CashOps
      /\ s \in Sessions /\ Exists(s) /\ q.bal \in Nat /\ q.stack \in Nat
  BY DEF TypeInv, TypeOK, RequestShape, CommitCashOut, At, WellFormed, OnSession, Requests, CashOps
<1> DEFINE row == [sessions[s] EXCEPT !.status = "CASHED_OUT", !.stack = 0,
                                      !.cashed = @ + q.stack, !.version = @ + 1]
<1>2. /\ ApplyLedgerEntry(Payer(q), q.bal, q.stack, "TABLE_CASH_OUT", LedgerKey(q), s)
      /\ sessions' = [sessions EXCEPT ![s].status = "CASHED_OUT", ![s].stack = 0,
                                      ![s].cashed = @ + q.stack, ![s].version = @ + 1]
      /\ movements' = [movements EXCEPT ![s] = Append(@, move)]
  BY DEF CommitCashOut
<1>3. LedgerKey(q) \in DirectKeys /\ Payer(q) \in Users
  BY <1>1, LedgerKeyTyped, PayerTyped DEF TypeInv, TypeOK, CashOps
<1>4. ledger' \in [Users -> Seq(Entries)] /\ balance' \in [Users -> Nat]
  BY <1>1, <1>2, <1>3, LedgerTyped, SMTT(40) DEF TypeInv, TypeOK, EntryTypes
<1>5. sessions[s] \in SessionRows
      /\ sessions[s].user \in wallets /\ sessions[s].table \in Tables
  BY <1>1 DEF TypeInv, TypeOK, SessionShape
<1>6. row \in SessionRows
  <2>1. sessions[s].cashed + q.stack \in Nat /\ sessions[s].version + 1 \in Nat
    BY <1>1, <1>5 DEF SessionRows
  <2> QED
    BY <1>5, <2>1 DEF SessionRows
<1>7. row.status = "CASHED_OUT" /\ row.user = sessions[s].user
      /\ row.table = sessions[s].table
  BY <1>5 DEF SessionRows
<1>8. sessions' = [sessions EXCEPT ![s] = row]
  BY <1>1, <1>2, <1>5 DEF TypeInv, TypeOK, SessionRows
<1>9. move \in Moves
  BY <1>1, <1>3 DEF Movement, Moves, LedgerKeys
<1>10. movements' \in [Sessions -> Seq(Moves)]
  BY <1>1, <1>2, <1>9 DEF TypeInv, TypeOK
<1> HIDE DEF row
<1>11. PICK pc \in {"next", "done"} : Goto(r, pc) /\ (pc = "next" => q.op = "close")
  BY DEF CommitCashOut
<1>12. /\ UNCHANGED <<wallets, tables, results>>
       /\ walletLock' \in [Users -> Reqs \cup {None}]
       /\ wallets' \subseteq Users /\ results' \in [Sessions -> Int]
  BY UnlockedTyped DEF CommitCashOut, TypeInv, TypeOK
<1> QED
  BY <1>1, <1>4, <1>5, <1>6, <1>7, <1>8, <1>10, <1>11, <1>12, RowStep

\* recordMovement's stack update keeps the invariant: the absolute stack it
\* writes was checked, when it was computed, not to be negative.
LEMMA ApplyMovementTyped ==
  ASSUME TypeInv, NEW r \in Reqs, ApplyMovement(r)
  PROVE  TypeInv'
<1> DEFINE q == req[r]
           s == q.session
           newStack == q.stack + q.amount
<1>1. /\ q \in Requests /\ q.pc = "apply" /\ q.op = "movement"
      /\ s \in Sessions /\ Exists(s) /\ q.stack + q.amount >= 0
      /\ q.stack \in Nat /\ q.amount \in Int
  BY DEF TypeInv, TypeOK, RequestShape, ApplyMovement, WellFormed, OnSession, Requests
<1> DEFINE row == [sessions[s] EXCEPT !.stack = newStack, !.version = @ + 1]
<1>2. /\ sessions' = [sessions EXCEPT ![s].stack = newStack, ![s].version = @ + 1]
      /\ results' = [results EXCEPT ![s] = @ + q.amount]
      /\ UNCHANGED <<wallets, balance, ledger, walletLock, tables, movements>>
      /\ Goto(r, "insert")
  BY DEF ApplyMovement, walletVars
<1>3. sessions[s] \in SessionRows /\ sessions[s].status # "NONE"
      /\ sessions[s].user \in wallets /\ sessions[s].table \in Tables
  BY <1>1 DEF TypeInv, TypeOK, SessionShape, Exists
<1>4. row \in SessionRows
  <2>1. newStack \in Nat /\ sessions[s].version + 1 \in Nat
    BY <1>1, <1>3 DEF SessionRows
  <2> QED
    BY <1>3, <2>1 DEF SessionRows
<1>5. row.status = sessions[s].status /\ row.user = sessions[s].user
      /\ row.table = sessions[s].table
  BY <1>3 DEF SessionRows
<1>6. sessions' = [sessions EXCEPT ![s] = row]
  BY <1>1, <1>2, <1>3 DEF TypeInv, TypeOK, SessionRows
<1> HIDE DEF row
<1>7. /\ results' \in [Sessions -> Int]
      /\ \A z \in Sessions \ {s} : results'[z] = results[z]
  BY <1>1, <1>2 DEF TypeInv, TypeOK
<1> QED
  BY <1>1, <1>2, <1>3, <1>4, <1>5, <1>6, <1>7, RowStep DEF TypeInv, TypeOK

\* recordMovement's second statement keeps the invariant.
LEMMA InsertMovementTyped ==
  ASSUME TypeInv, NEW r \in Reqs, InsertMovement(r)
  PROVE  TypeInv'
<1> DEFINE q == req[r]
           move == [reason |-> "HAND_RESULT", amount |-> q.amount,
                    after |-> q.stack + q.amount, key |-> None]
<1>1. /\ q \in Requests /\ q.session \in Sessions /\ q.amount \in Int /\ q.stack \in Nat
  BY DEF TypeInv, TypeOK, RequestShape, InsertMovement, WellFormed, OnSession, Requests
<1>2. move \in Moves
  BY <1>1 DEF Moves
<1>3. /\ movements' = [movements EXCEPT ![q.session] = Append(@, move)]
      /\ UNCHANGED <<wallets, balance, ledger, walletLock, tables, sessions, results>>
      /\ Goto(r, "done")
  BY DEF InsertMovement, Finish, walletVars
<1>4. movements' \in [Sessions -> Seq(Moves)]
  BY <1>1, <1>2, <1>3 DEF TypeInv, TypeOK
<1>5. req' \in [Reqs -> Requests]
  BY <1>3, GotoTyped DEF TypeInv, TypeOK, Steps
<1>6. TypeOK'
  BY <1>3, <1>4, <1>5 DEF TypeInv, TypeOK
<1>7. req'[r].pc = "done" /\ \A p \in Reqs \ {r} : req'[p] = req[p]
  BY <1>3 DEF TypeInv, TypeOK, Requests, Goto
<1>8. RequestShape'
  BY <1>3, <1>7, ShapeKept DEF Exists
<1>9. SessionShape'
  BY <1>3 DEF TypeInv, SessionShape, Exists
<1> QED
  BY <1>6, <1>8, <1>9 DEF TypeInv

\* A step that only writes a table's row keeps the invariant.
LEMMA TableStepTyped ==
  ASSUME TypeInv,
         UNCHANGED <<wallets, balance, ledger, walletLock, sessions, movements, results>>,
         NEW t \in Tables,
         NEW table \in [status : {"NONE", "OPEN", "CLOSED"}, range : [min : Nat, max : Nat]],
         tables' = [tables EXCEPT ![t] = table],
         req' = req \/ \E r \in Reqs : Finish(r)
  PROVE  TypeInv'
<1>1. tables' \in [Tables -> [status : {"NONE", "OPEN", "CLOSED"},
                              range : [min : Nat, max : Nat]]]
  BY DEF TypeInv, TypeOK
<1>2. SessionShape'
  BY DEF TypeInv, SessionShape, Exists
<1>3. CASE req' = req
  <2>1. RequestShape'
    BY <1>3 DEF TypeInv, RequestShape, WellFormed, OnSession, Exists
  <2> QED
    BY <1>1, <1>2, <1>3, <2>1 DEF TypeInv, TypeOK
<1>4. CASE \E r \in Reqs : Finish(r)
  <2>1. PICK r \in Reqs : Finish(r)
    BY <1>4
  <2>2. req' \in [Reqs -> Requests]
    BY <2>1, GotoTyped DEF TypeInv, TypeOK, Finish, Steps
  <2>3. req'[r].pc = "done" /\ \A p \in Reqs \ {r} : req'[p] = req[p]
    BY <2>1 DEF TypeInv, TypeOK, Requests, Finish, Goto
  <2>4. RequestShape'
    BY <2>3, ShapeKept DEF Exists
  <2> QED
    BY <1>1, <1>2, <2>2, <2>4 DEF TypeInv, TypeOK
<1> QED
  BY <1>3, <1>4

\* The invariant holds of the clube before its first request.
LEMMA InitTyped == Init => TypeInv
<1> SUFFICES ASSUME Init
             PROVE  TypeInv
  OBVIOUS
<1>1. balance \in [Users -> Nat]
  <2>1. balance \in [Users -> Openings \cup {0}]
    BY DEF Init
  <2>2. Openings \cup {0} \subseteq Nat
    BY CashTableConstants
  <2> QED
    BY <2>1, <2>2
<1>2. ASSUME NEW u \in Users
      PROVE  Entry(<<"deposit", u>>, "PIX_DEPOSIT", balance[u], balance[u], None) \in Entries
  BY <1>1 DEF Entry, Entries, LedgerKeys, DirectKeys, EntryTypes
<1>3. ledger \in [Users -> Seq(Entries)]
  BY <1>2 DEF Init
<1>4. NoSession \in SessionRows
  BY DEF NoSession, SessionRows
<1>5. TypeOK
  BY <1>1, <1>3, <1>4, NewRequestTyped DEF Init, TypeOK, NoTable
<1>6. RequestShape
  BY DEF Init, RequestShape, NewRequest
<1>7. SessionShape
  BY DEF Init, SessionShape, Exists, NoSession
<1> QED
  BY <1>5, <1>6, <1>7 DEF TypeInv

\* Every step keeps the invariant.
LEMMA NextTyped == TypeInv /\ [Next]_vars => TypeInv'
<1> SUFFICES ASSUME TypeInv, [Next]_vars
             PROVE  TypeInv'
  OBVIOUS
<1>1. ASSUME NEW t \in Tables, CreateTable(t)
      PROVE  TypeInv'
  <2>1. PICK range \in Ranges : tables' = [tables EXCEPT ![t] = [status |-> "OPEN", range |-> range]]
    BY <1>1 DEF CreateTable
  <2>2. [status |-> "OPEN", range |-> range]
          \in [status : {"NONE", "OPEN", "CLOSED"}, range : [min : Nat, max : Nat]]
    BY CashTableConstants
  <2>3. UNCHANGED <<wallets, balance, ledger, walletLock, sessions, movements, results, req>>
    BY <1>1 DEF CreateTable, walletVars
  <2> QED
    BY <2>1, <2>2, <2>3, TableStepTyped
<1>2. ASSUME NEW r \in Reqs, SetClosed(r) \/ SetOpen(r)
      PROVE  TypeInv'
  <2>1. PICK status \in {"OPEN", "CLOSED"} :
          tables' = [tables EXCEPT ![req[r].table].status = status]
    BY <1>2 DEF SetClosed, SetOpen
  <2>2. req[r].table \in Tables
    BY <1>2 DEF SetClosed, SetOpen, At, TypeInv, RequestShape, WellFormed
  <2> DEFINE table == [tables[req[r].table] EXCEPT !.status = status]
  <2>3. table \in [status : {"NONE", "OPEN", "CLOSED"}, range : [min : Nat, max : Nat]]
    BY <2>2 DEF TypeInv, TypeOK
  <2>4. tables' = [tables EXCEPT ![req[r].table] = table]
    BY <2>1
  <2>5. /\ UNCHANGED <<wallets, balance, ledger, walletLock, sessions, movements, results>>
        /\ Finish(r)
    BY <1>2 DEF SetClosed, SetOpen, walletVars
  <2> HIDE DEF table
  <2> QED
    BY <2>2, <2>3, <2>4, <2>5, TableStepTyped
<1>3. ASSUME NEW r \in Reqs, RetryCommit(r) \/ RetryMovement(r)
      PROVE  TypeInv'
  <2>1. /\ NextAttempt(r)
        /\ UNCHANGED <<wallets, balance, ledger, tables, sessions, movements, results>>
        /\ walletLock' \in [Users -> Reqs \cup {None}]
        /\ req[r].pc \in {"commit", "apply"}
    BY <1>3, UnlockedTyped DEF RetryCommit, RetryMovement, At, walletVars, tableVars, TypeInv, TypeOK
  <2>2. req[r].op \in {"rebuy", "movement"} \cup CashOps
    BY <1>3 DEF RetryCommit, RetryMovement, At, TypeInv, RequestShape, WellFormed
  <2> QED
    BY <2>1, <2>2, NextAttemptTyped
<1>4. ASSUME NEW r \in Reqs, RefuseCommit(r) \/ Fail(r)
      PROVE  TypeInv'
  <2>1. /\ Finish(r)
        /\ UNCHANGED <<wallets, balance, ledger, tables, sessions, movements, results>>
        /\ walletLock' \in [Users -> Reqs \cup {None}]
    BY <1>4, UnlockedTyped DEF RefuseCommit, Fail, tableVars, TypeInv, TypeOK
  <2> QED
    BY <2>1, EndTyped
<1>5. ASSUME NEW r \in Reqs, Proceed(r)
      PROVE  TypeInv'
  BY <1>2, <1>3, <1>4, <1>5, FindReplayTyped, ReadSessionTyped, TakeWalletLockTyped,
     CommitSitTyped, CommitSitGuestTyped, CommitRebuyTyped, CommitCashOutTyped,
     ApplyMovementTyped, InsertMovementTyped, LoopTyped
  DEF Proceed
<1>6. CASE UNCHANGED vars
  <2>1. UNCHANGED <<wallets, balance, ledger, walletLock, tables, sessions, movements, results, req>>
    BY <1>6 DEF vars, walletVars, tableVars
  <2> QED
    BY <2>1 DEF TypeInv, TypeOK, RequestShape, SessionShape, WellFormed, OnSession, Exists
<1> QED
  BY <1>1, <1>4, <1>5, <1>6, ArriveTyped DEF Next

\* For any number of users, requests, sessions and tables and any amounts, the
\* rows and locals keep their types: in particular no balance, no recorded
\* balance and no stack is ever negative, though recordMovement takes chips
\* from a stack it read earlier and standby accepts debits beyond the balance.
THEOREM Typing == Spec => []TypeOK
<1>1. TypeInv => TypeOK
  BY DEF TypeInv
<1> QED
  BY <1>1, InitTyped, NextTyped, PTL DEF Spec

-----------------------------------------------------------------------------
(* The locks.                                                              *)

\* The steps at which a request relies on the stack and version it read.
Holding == {"lock", "commit", "apply"}
\* The routes that create the session instead of reading it.
Seating == {"sit", "sitGuest"}

\* A snapshot is never newer than its row, and while the version has not moved
\* the session is active and its stack is the one read.
Snapshot(q) ==
  q.pc \in Holding /\ q.op \notin Seating =>
    /\ q.version <= sessions[q.session].version
    /\ q.version = sessions[q.session].version =>
         Active(q.session) /\ q.stack = sessions[q.session].stack

\* The optimistic lock of every request in progress.
Snapshots == \A r \in Reqs : Snapshot(req[r])

\* A session is paid only when it ends, and ends with no chips.
StackShape ==
  \A s \in Sessions :
    /\ Active(s) => sessions[s].cashed = 0
    /\ ~Active(s) => sessions[s].stack = 0

\* Why no stack update is lost: the inductive invariant behind NoLostStackUpdate.
VersionInv == Snapshots /\ StackShape /\ NoLostStackUpdate

\* From its lock to its commit, a request owns the wallet it will post to and
\* knows that wallet's balance.
Holder(r) ==
  req[r].pc = "commit" /\ req[r].op # "sitGuest" =>
    /\ walletLock[Payer(req[r])] = r
    /\ req[r].bal = balance[Payer(req[r])]

\* The row lock of every request in progress.
Holders == \A r \in Reqs : Holder(r)

\* A user without a wallet row has no balance and no entries.
NoWalletNoMoney == \A u \in Users \ wallets : balance[u] = 0 /\ ledger[u] = <<>>

\* Why no posting starts from a stale balance: the inductive invariant behind
\* LedgerChain.
LockInv == Holders /\ NoWalletNoMoney /\ LedgerChain

\* The session of a snapshot exists.
LEMMA HoldingSession ==
  ASSUME TypeInv, NEW r \in Reqs, req[r].pc \in Holding, req[r].op \notin Seating
  PROVE  req[r].session \in Sessions /\ Exists(req[r].session)
BY DEF TypeInv, RequestShape, WellFormed, OnSession, Holding, Seating

\* A request that arrives writes nothing and holds nothing yet.
LEMMA ArriveStarts ==
  ASSUME TypeInv, NEW r \in Reqs, Arrive(r)
  PROVE  /\ UNCHANGED <<wallets, balance, ledger, walletLock, tables, sessions, movements, results>>
         /\ \A p \in Reqs \ {r} : req'[p] = req[p]
         /\ req'[r].pc \in {"lookup", "read", "list", "set"}
<1> USE DEF NewRequest, Begin, walletVars, tableVars, TypeInv, TypeOK
<1>1. CASE SitAtTable(r)
  BY <1>1 DEF SitAtTable
<1>2. CASE SitGuestAtTable(r)
  BY <1>2 DEF SitGuestAtTable
<1>3. CASE Rebuy(r)
  BY <1>3 DEF Rebuy
<1>4. CASE CashOut(r)
  BY <1>4 DEF CashOut
<1>5. CASE RecordMovement(r)
  BY <1>5 DEF RecordMovement
<1>6. CASE CloseTable(r)
  BY <1>6 DEF CloseTable
<1>7. CASE ReopenTable(r)
  BY <1>7 DEF ReopenTable
<1> QED
  BY <1>1, <1>2, <1>3, <1>4, <1>5, <1>6, <1>7 DEF Arrive

\* Every write of a session row raises its version, so it cannot make the
\* snapshot of another request look current.
LEMMA SnapshotsKept ==
  ASSUME TypeInv, TypeInv', Snapshots, NEW r \in Reqs,
         \A p \in Reqs \ {r} : req'[p] = req[p],
         \A s \in Sessions :
           Exists(s) => sessions'[s] = sessions[s] \/ sessions'[s].version > sessions[s].version,
         Snapshot(req[r])'
  PROVE  Snapshots'
<1> SUFFICES ASSUME NEW p \in Reqs, p # r
             PROVE  Snapshot(req[p])'
  BY DEF Snapshots
<1>1. Snapshot(req[p]) /\ req'[p] = req[p]
  BY DEF Snapshots
<1>2. CASE req[p].pc \in Holding /\ req[p].op \notin Seating
  <2> DEFINE s == req[p].session
  <2>1. s \in Sessions /\ Exists(s)
    BY <1>2, HoldingSession
  <2>2. req[p].version \in Nat /\ sessions[s].version \in Nat /\ sessions'[s].version \in Nat
    BY <2>1 DEF TypeInv, TypeOK, Requests, SessionRows
  <2>3. sessions'[s] = sessions[s] \/ sessions'[s].version > sessions[s].version
    BY <2>1
  <2> QED
    BY <1>1, <1>2, <2>2, <2>3 DEF Snapshot, Active
<1>3. CASE ~(req[p].pc \in Holding /\ req[p].op \notin Seating)
  BY <1>1, <1>3 DEF Snapshot
<1> QED
  BY <1>2, <1>3

\* A step that writes no session row and no result keeps the optimistic lock.
LEMMA QuietVersions ==
  ASSUME TypeInv, TypeInv', VersionInv, NEW r \in Reqs,
         \A p \in Reqs \ {r} : req'[p] = req[p],
         UNCHANGED <<sessions, results>>,
         Snapshot(req[r])'
  PROVE  VersionInv'
<1>1. Snapshots'
  BY SnapshotsKept DEF VersionInv
<1>2. StackShape' /\ NoLostStackUpdate'
  BY DEF VersionInv, StackShape, NoLostStackUpdate, Active
<1> QED
  BY <1>1, <1>2 DEF VersionInv

\* Reading, locking, retrying, refusing, failing and the closing loop keep the
\* optimistic lock: what ReadSession stores is the row as it is.
LEMMA QuietSteps ==
  ASSUME TypeInv, TypeInv', VersionInv, NEW r \in Reqs,
         \/ FindReplay(r) \/ ReadSession(r) \/ TakeWalletLock(r) \/ RetryCommit(r)
         \/ RefuseCommit(r) \/ RetryMovement(r) \/ InsertMovement(r) \/ ListSessions(r)
         \/ CloseNext(r) \/ SetClosed(r) \/ SetOpen(r) \/ Fail(r)
  PROVE  VersionInv'
<1>1. req[r] \in Requests /\ req'[r] \in Requests
  BY DEF TypeInv, TypeOK
<1>2. UNCHANGED <<sessions, results>> /\ \A p \in Reqs \ {r} : req'[p] = req[p]
  BY DEF FindReplay, ReadSession, TakeWalletLock, RetryCommit, RefuseCommit, RetryMovement,
         InsertMovement, ListSessions, CloseNext, SetClosed, SetOpen, Fail,
         Finish, Goto, NextAttempt, LockWallet, walletVars, tableVars, TypeInv, TypeOK
<1>3. Snapshot(req[r])'
  <2>1. CASE req'[r].pc \notin Holding
    BY <2>1 DEF Snapshot
  <2>2. CASE FindReplay(r)
    <3>1. req'[r].pc \in Holding => req'[r].op \in Seating
      BY <2>2 DEF FindReplay, Goto, Holding, Seating, TypeInv, TypeOK, Requests
    <3> QED
      BY <3>1 DEF Snapshot
  <2>3. CASE ReadSession(r) /\ req'[r].pc \in Holding
    <3> DEFINE s == req[r].session
    <3>1. PICK pc \in {"apply", "lock", "done"} :
            \/ pc = "done" /\ req' = [req EXCEPT ![r].pc = pc]
            \/ /\ Active(s)
               /\ req' = [req EXCEPT ![r].pc = pc, ![r].version = sessions[s].version,
                                     ![r].stack = sessions[s].stack]
      <4>1. CASE req[r].op = "movement"
        BY <2>3, <4>1 DEF ReadSession, Finish, Goto
      <4>2. CASE req[r].op # "movement"
        BY <2>3, <4>2 DEF ReadSession, Finish, Goto
      <4> QED
        BY <4>1, <4>2
    <3>2. Active(s) /\ req' = [req EXCEPT ![r].pc = pc, ![r].version = sessions[s].version,
                                          ![r].stack = sessions[s].stack]
      <4>1. CASE req' = [req EXCEPT ![r].pc = "done"]
        <5>1. req'[r].pc = "done"
          BY <1>1, <4>1 DEF TypeInv, TypeOK, Requests
        <5> QED
          BY <2>3, <5>1 DEF Holding
      <4> QED
        BY <3>1, <4>1
    <3>3. /\ req'[r].version = sessions[req[r].session].version
          /\ req'[r].stack = sessions[req[r].session].stack
          /\ req'[r].session = req[r].session
      BY <1>1, <3>2 DEF TypeInv, TypeOK, Requests
    <3>4. req'[r].version \in Nat
      BY <1>1 DEF Requests
    <3> QED
      BY <1>2, <3>2, <3>3, <3>4 DEF Snapshot, Active
  <2>4. CASE TakeWalletLock(r)
    <3>1. /\ req'[r].version = req[r].version /\ req'[r].stack = req[r].stack
          /\ req'[r].session = req[r].session /\ req'[r].op = req[r].op
          /\ req[r].pc = "lock"
      BY <2>4 DEF TakeWalletLock, TypeInv, TypeOK, Requests
    <3>2. Snapshot(req[r])
      BY DEF VersionInv, Snapshots
    <3> QED
      BY <1>2, <3>1, <3>2 DEF Snapshot, Active, Holding
  <2>5. CASE RetryCommit(r) \/ RetryMovement(r)
    <3>1. PICK pc \in {"read", "done"} : req' = [req EXCEPT ![r].tries = @ + 1, ![r].pc = pc]
      BY <2>5 DEF RetryCommit, RetryMovement, NextAttempt
    <3>2. req'[r] = [req[r] EXCEPT !.tries = @ + 1, !.pc = pc]
      BY <3>1 DEF TypeInv, TypeOK
    <3> QED
      BY <1>1, <3>2 DEF Snapshot, Holding, Requests
  <2>6. CASE \/ RefuseCommit(r) \/ InsertMovement(r) \/ SetClosed(r) \/ SetOpen(r) \/ Fail(r)
    <3>1. req' = [req EXCEPT ![r].pc = "done"]
      BY <2>6 DEF RefuseCommit, InsertMovement, SetClosed, SetOpen, Fail, Finish, Goto
    <3>2. req'[r].pc = "done"
      BY <1>1, <3>1 DEF TypeInv, TypeOK, Requests
    <3> QED
      BY <3>2 DEF Snapshot, Holding
  <2>7. CASE ListSessions(r)
    <3>1. req'[r].pc = "next"
      BY <1>1, <2>7 DEF ListSessions, TypeInv, TypeOK, Requests
    <3> QED
      BY <3>1 DEF Snapshot, Holding
  <2>8. CASE CloseNext(r)
    <3>1. PICK s \in req[r].todo :
            req' = [req EXCEPT ![r].pc = "lookup", ![r].session = s, ![r].tries = 0,
                               ![r].todo = @ \ {s}]
      BY <2>8 DEF CloseNext
    <3>2. req'[r] = [req[r] EXCEPT !.pc = "lookup", !.session = s, !.tries = 0, !.todo = @ \ {s}]
      BY <3>1 DEF TypeInv, TypeOK
    <3>3. req'[r].pc = "lookup"
      BY <1>1, <3>2 DEF Requests
    <3> QED
      BY <3>3 DEF Snapshot, Holding
  <2> QED
    BY <2>1, <2>2, <2>3, <2>4, <2>5, <2>6, <2>7, <2>8
<1> QED
  BY <1>2, <1>3, QuietVersions

\* A write of one session row keeps the optimistic lock if it raises the version,
\* keeps the three columns in balance with the results, and its writer moves on.
LEMMA WriteVersions ==
  ASSUME TypeInv, TypeInv', VersionInv, NEW r \in Reqs, NEW s \in Sessions, NEW row,
         sessions' = [sessions EXCEPT ![s] = row],
         Exists(s) => row.version > sessions[s].version,
         row.status = "ACTIVE" => row.cashed = 0,
         row.status # "ACTIVE" => row.stack = 0,
         results'[s] = row.cashed + row.stack - row.bought,
         \A z \in Sessions \ {s} : results'[z] = results[z],
         \A p \in Reqs \ {r} : req'[p] = req[p],
         req'[r].pc \notin Holding
  PROVE  VersionInv'
<1>1. sessions'[s] = row /\ \A z \in Sessions \ {s} : sessions'[z] = sessions[z]
  BY DEF TypeInv, TypeOK
<1>2. Snapshots'
  <2>1. Snapshot(req[r])'
    BY DEF Snapshot
  <2>2. \A z \in Sessions :
          Exists(z) => sessions'[z] = sessions[z] \/ sessions'[z].version > sessions[z].version
    BY <1>1
  <2> QED
    BY <2>1, <2>2, SnapshotsKept DEF VersionInv
<1>3. StackShape'
  BY <1>1 DEF VersionInv, StackShape, Active
<1>4. NoLostStackUpdate'
  BY <1>1 DEF VersionInv, NoLostStackUpdate
<1> QED
  BY <1>2, <1>3, <1>4 DEF VersionInv

\* Moving a request to another step changes nothing else of any request.
LEMMA Moved ==
  ASSUME TypeInv, NEW r \in Reqs, NEW pc, Goto(r, pc)
  PROVE  req'[r].pc = pc /\ \A p \in Reqs \ {r} : req'[p] = req[p]
BY DEF TypeInv, TypeOK, Requests, Goto

\* Seating a player keeps the optimistic lock: the row is new.
LEMMA SeatVersions ==
  ASSUME TypeInv, TypeInv', VersionInv, NEW r \in Reqs, NEW s \in Sessions, NEW u,
         TakeSeat(req[r], u, s), UNCHANGED results, Finish(r)
  PROVE  VersionInv'
<1> DEFINE q == req[r]
           row == Seated(q, u)
<1>1. /\ ~Exists(s) /\ sessions' = [sessions EXCEPT ![s] = row]
  BY DEF TakeSeat, Exists
<1>2. results'[s] = 0
  BY <1>1 DEF TypeInv, SessionShape
<1>3. q.amount \in Int
  BY DEF TypeInv, TypeOK, Requests
<1>4. row.status = "ACTIVE" /\ row.cashed = 0 /\ row.stack = q.amount /\ row.bought = q.amount
  BY DEF Seated
<1>5. results'[s] = row.cashed + row.stack - row.bought
  BY <1>2, <1>3, <1>4
<1>6. req'[r].pc \notin Holding /\ \A p \in Reqs \ {r} : req'[p] = req[p]
  BY Moved DEF Finish, Holding
<1> HIDE DEF row
<1> QED
  BY <1>1, <1>4, <1>5, <1>6, WriteVersions

\* Re-buy, cash-out and recordMovement keep the optimistic lock: the version they
\* compare proves that the absolute stack they write was computed from this row.
LEMMA RowVersions ==
  ASSUME TypeInv, TypeInv', VersionInv, NEW r \in Reqs,
         CommitRebuy(r) \/ CommitCashOut(r) \/ ApplyMovement(r)
  PROVE  VersionInv'
<1> DEFINE q == req[r]
           s == q.session
<1>1. /\ q \in Requests /\ s \in Sessions /\ Exists(s) /\ sessions[s] \in SessionRows
      /\ q.pc \in {"commit", "apply"} /\ q.op \notin Seating
      /\ results[s] \in Int
  BY DEF TypeInv, TypeOK, RequestShape, WellFormed, OnSession, CommitRebuy, CommitCashOut,
         ApplyMovement, At, CashOps, Seating
<1>2. Active(s) /\ q.stack = sessions[s].stack
  <2>1. SameVersion(q) /\ Snapshot(q)
    BY DEF CommitRebuy, CommitCashOut, ApplyMovement, VersionInv, Snapshots
  <2> QED
    BY <1>1, <2>1 DEF Snapshot, SameVersion, Holding
<1>3. /\ sessions[s].cashed = 0
      /\ results[s] = sessions[s].cashed + sessions[s].stack - sessions[s].bought
  BY <1>1, <1>2 DEF VersionInv, StackShape, NoLostStackUpdate
<1>4. /\ q.stack \in Int /\ q.amount \in Int /\ sessions[s].version \in Int
      /\ sessions[s].bought \in Int
  BY <1>1 DEF Requests, SessionRows
<1>5. /\ s \in Sessions /\ sessions[s] \in SessionRows
       /\ q.stack \in Nat /\ q.amount \in Int /\ sessions \in [Sessions -> SessionRows]
  BY <1>1 DEF Requests, TypeInv, TypeOK
<1>6. PICK pc \in {"insert", "next", "done"} : Goto(r, pc)
  BY DEF CommitRebuy, CommitCashOut, ApplyMovement, Finish
<1>7. req'[r].pc \notin Holding /\ \A p \in Reqs \ {r} : req'[p] = req[p]
  BY <1>6, Moved DEF Holding
<1>8. CASE CommitRebuy(r)
  <2> DEFINE row == [sessions[s] EXCEPT !.stack = q.stack + q.amount,
                                        !.bought = @ + q.amount, !.version = @ + 1]
  <2>1. sessions' = [sessions EXCEPT ![s] = row]
    <3>1. sessions' = [sessions EXCEPT ![s].stack = q.stack + q.amount,
                                       ![s].bought = @ + q.amount, ![s].version = @ + 1]
      BY <1>8 DEF CommitRebuy
    <3> QED
      BY <1>5, <3>1 DEF SessionRows
  <2>2. /\ row.status = "ACTIVE" /\ row.cashed = 0 /\ row.stack = q.stack + q.amount
        /\ row.bought = sessions[s].bought + q.amount /\ row.version = sessions[s].version + 1
    BY <1>1, <1>2, <1>3 DEF SessionRows, Active
  <2>3. UNCHANGED results
    BY <1>8 DEF CommitRebuy
  <2> HIDE DEF row
  <2>4. results'[s] = row.cashed + row.stack - row.bought /\ row.version > sessions[s].version
    BY <1>2, <1>3, <1>4, <2>2, <2>3
  <2> QED
    BY <1>1, <1>7, <2>1, <2>2, <2>3, <2>4, WriteVersions
<1>9. CASE CommitCashOut(r)
  <2> DEFINE row == [sessions[s] EXCEPT !.status = "CASHED_OUT", !.stack = 0,
                                        !.cashed = @ + q.stack, !.version = @ + 1]
  <2>1. sessions' = [sessions EXCEPT ![s] = row]
    <3>1. sessions' = [sessions EXCEPT ![s].status = "CASHED_OUT", ![s].stack = 0,
                                       ![s].cashed = @ + q.stack, ![s].version = @ + 1]
      BY <1>9 DEF CommitCashOut
    <3> QED
      BY <1>5, <3>1 DEF SessionRows
  <2>2. /\ row.status = "CASHED_OUT" /\ row.stack = 0
        /\ row.cashed = sessions[s].cashed + q.stack
        /\ row.bought = sessions[s].bought /\ row.version = sessions[s].version + 1
    BY <1>1 DEF SessionRows
  <2>3. UNCHANGED results
    BY <1>9 DEF CommitCashOut
  <2> HIDE DEF row
  <2>4. results'[s] = row.cashed + row.stack - row.bought /\ row.version > sessions[s].version
    BY <1>2, <1>3, <1>4, <2>2, <2>3
  <2> QED
    BY <1>1, <1>7, <2>1, <2>2, <2>3, <2>4, WriteVersions
<1>10. CASE ApplyMovement(r)
  <2> DEFINE row == [sessions[s] EXCEPT !.stack = q.stack + q.amount, !.version = @ + 1]
  <2>1. sessions' = [sessions EXCEPT ![s] = row]
    <3>1. sessions' = [sessions EXCEPT ![s].stack = q.stack + q.amount, ![s].version = @ + 1]
      BY <1>10 DEF ApplyMovement
    <3> QED
      BY <1>5, <3>1 DEF SessionRows
  <2>2. /\ row.status = "ACTIVE" /\ row.cashed = 0 /\ row.stack = q.stack + q.amount
        /\ row.bought = sessions[s].bought /\ row.version = sessions[s].version + 1
    BY <1>1, <1>2, <1>3 DEF SessionRows, Active
  <2>3. /\ results'[s] = results[s] + q.amount
        /\ \A z \in Sessions \ {s} : results'[z] = results[z]
    BY <1>1, <1>10 DEF ApplyMovement, TypeInv, TypeOK
  <2> HIDE DEF row
  <2>4. results'[s] = row.cashed + row.stack - row.bought /\ row.version > sessions[s].version
    BY <1>2, <1>3, <1>4, <2>2, <2>3
  <2> QED
    BY <1>1, <1>7, <2>1, <2>2, <2>3, <2>4, WriteVersions
<1> QED
  BY <1>8, <1>9, <1>10

\* The optimistic lock holds before the first request.
LEMMA InitVersions == Init => VersionInv
<1> SUFFICES ASSUME Init
             PROVE  VersionInv
  OBVIOUS
<1>1. \A s \in Sessions : sessions[s] = NoSession /\ results[s] = 0
  BY DEF Init
<1>2. Snapshots
  BY DEF Init, Snapshots, Snapshot, Holding, NewRequest
<1>3. StackShape /\ NoLostStackUpdate
  BY <1>1 DEF StackShape, NoLostStackUpdate, NoSession, Active
<1> QED
  BY <1>2, <1>3 DEF VersionInv

\* Every step keeps the optimistic lock.
LEMMA NextVersions == TypeInv /\ VersionInv /\ [Next]_vars => VersionInv'
<1> SUFFICES ASSUME TypeInv, VersionInv, [Next]_vars
             PROVE  VersionInv'
  OBVIOUS
<1>1. TypeInv'
  BY NextTyped
<1>2. ASSUME NEW t \in Tables, CreateTable(t)
      PROVE  VersionInv'
  BY <1>2 DEF CreateTable, VersionInv, Snapshots, Snapshot, StackShape, NoLostStackUpdate, Active
<1>3. ASSUME NEW r \in Reqs, Arrive(r)
      PROVE  VersionInv'
  <2>1. Snapshot(req[r])'
    BY <1>3, ArriveStarts DEF Snapshot, Holding
  <2> QED
    BY <1>1, <1>3, <2>1, ArriveStarts, QuietVersions
<1>4. ASSUME NEW r \in Reqs, CommitSit(r) \/ CommitSitGuest(r)
      PROVE  VersionInv'
  <2>1. PICK s \in Sessions, u \in Users : TakeSeat(req[r], u, s)
    BY <1>4, CashTableConstants
    DEF CommitSit, CommitSitGuest, At, TypeInv, TypeOK, RequestShape, WellFormed
  <2>2. UNCHANGED results /\ Finish(r)
    BY <1>4 DEF CommitSit, CommitSitGuest
  <2> QED
    BY <1>1, <2>1, <2>2, SeatVersions
<1>5. ASSUME NEW r \in Reqs, Proceed(r) \/ Fail(r)
      PROVE  VersionInv'
  BY <1>1, <1>4, <1>5, QuietSteps, RowVersions DEF Proceed
<1>6. CASE UNCHANGED vars
  BY <1>6 DEF vars, tableVars, VersionInv, Snapshots, Snapshot, StackShape, NoLostStackUpdate, Active
<1> QED
  BY <1>2, <1>3, <1>5, <1>6 DEF Next

\* No stack update is lost, for any number of racing requests and any number of
\* attempts: the version compared by updateMany makes the absolute stacks written
\* by rebuy, doCashOut and recordMovement agree with the totals incremented in place.
THEOREM StacksKept == Spec => []NoLostStackUpdate
<1>1. VersionInv => NoLostStackUpdate
  BY DEF VersionInv
<1> QED
  BY <1>1, InitTyped, NextTyped, InitVersions, NextVersions, PTL DEF Spec

\* LedgerChain for one wallet.
Chained(entries, bal) ==
  /\ \A i \in DOMAIN entries :
       /\ entries[i].after = AfterPrevious(entries, i) + entries[i].amount
       /\ entries[i].after >= 0
  /\ bal = AfterPrevious(entries, Len(entries) + 1)

\* Appending an entry that starts from the last recorded balance keeps the chain.
LEMMA ChainGrows ==
  ASSUME NEW entries \in Seq(Entries), NEW bal \in Int, NEW e \in Entries,
         Chained(entries, bal), e.after = bal + e.amount
  PROVE  Chained(Append(entries, e), e.after)
<1> DEFINE longer == Append(entries, e)
           n == Len(entries)
<1>1. /\ n \in Nat /\ Len(longer) = n + 1 /\ DOMAIN longer = 1 .. n + 1
      /\ DOMAIN entries = 1 .. n
      /\ longer[n + 1] = e /\ \A i \in 1 .. n : longer[i] = entries[i]
  OBVIOUS
<1>2. e.after \in Nat
  BY DEF Entries
<1> HIDE DEF longer, n
<1>3. \A i \in 1 .. n + 1 : AfterPrevious(longer, i) = AfterPrevious(entries, i)
  BY <1>1 DEF AfterPrevious
<1>4. AfterPrevious(longer, n + 2) = e.after
  BY <1>1 DEF AfterPrevious
<1>5. AfterPrevious(entries, n + 1) = bal
  BY DEF Chained, n
<1>6. ASSUME NEW i \in 1 .. n + 1
      PROVE  longer[i].after = AfterPrevious(longer, i) + longer[i].amount /\ longer[i].after >= 0
  <2>1. CASE i = n + 1
    BY <1>1, <1>2, <1>3, <1>5, <2>1
  <2>2. CASE i # n + 1
    <3>1. i \in 1 .. n
      BY <1>1, <2>2
    <3> QED
      BY <1>1, <1>3, <3>1 DEF Chained
  <2> QED
    BY <2>1, <2>2
<1> QED
  BY <1>1, <1>4, <1>6 DEF Chained, longer

\* applyLedgerEntry, given the balance the wallet really has, keeps the chain,
\* with or without the standby credit.
LEMMA PostingsChained ==
  ASSUME NEW entries \in Seq(Entries), NEW bal \in Nat, NEW amount \in Int,
         NEW type \in EntryTypes, NEW key \in DirectKeys, NEW session \in Sessions \cup {None},
         Chained(entries, bal)
  PROVE  Chained(entries \o Postings(bal, amount, type, key, session), NewBalance(bal, amount))
<1> DEFINE new == NewBalance(bal, amount)
           entry == Entry(key, type, amount, new, session)
           topUp == Entry(TopUpKey(key), "ADJUSTMENT", -(bal + amount), -amount, None)
<1>1. new \in Nat /\ entry \in Entries /\ entry.after = new /\ entry.amount = amount
  BY DEF NewBalance, Overdraws, Entry, Entries, LedgerKeys
<1>2. CASE ~Overdraws(bal, amount)
  <2>1. entries \o <<entry>> = Append(entries, entry)
    BY <1>1
  <2>2. new = bal + amount /\ Postings(bal, amount, type, key, session) = <<entry>>
    BY <1>2 DEF NewBalance, Postings
  <2> HIDE DEF entry, new
  <2>3. Chained(Append(entries, entry), entry.after)
    BY <1>1, <2>2, ChainGrows
  <2> QED
    BY <1>1, <2>1, <2>2, <2>3 DEF new
<1>3. CASE Overdraws(bal, amount)
  <2>1. /\ new = 0 /\ Postings(bal, amount, type, key, session) = <<topUp, entry>>
    BY <1>3 DEF NewBalance, Postings
  <2>2. topUp \in Entries /\ topUp.after = -amount /\ topUp.amount = -(bal + amount)
    BY <1>3 DEF Entry, Entries, LedgerKeys, TopUpKey, Overdraws, EntryTypes
  <2> HIDE DEF entry, topUp, new
  <2>3. entries \o <<topUp, entry>> = Append(Append(entries, topUp), entry)
    BY <1>1, <2>2
  <2>4. Append(entries, topUp) \in Seq(Entries) /\ topUp.after \in Int
    BY <2>2
  <2>5. Chained(Append(entries, topUp), topUp.after)
    BY <2>2, ChainGrows
  <2>6. entry.after = topUp.after + entry.amount
    BY <1>1, <2>1, <2>2
  <2>7. Chained(Append(Append(entries, topUp), entry), entry.after)
    BY <1>1, <2>4, <2>5, <2>6, ChainGrows
  <2> QED
    BY <1>1, <2>1, <2>3, <2>7 DEF new
<1> QED
  BY <1>2, <1>3

\* A step that frees no lock but its own, and changes no balance but one it holds
\* the lock of, keeps what every other request knows of its wallet.
LEMMA HoldersKept ==
  ASSUME TypeInv, Holders, NEW r \in Reqs,
         \A p \in Reqs \ {r} : req'[p] = req[p],
         \A s \in Sessions : Exists(s) => sessions'[s].user = sessions[s].user,
         \A u \in Users :
           /\ walletLock[u] \notin {None, r} => walletLock'[u] = walletLock[u]
           /\ walletLock[u] # r => balance'[u] = balance[u],
         Holder(r)'
  PROVE  Holders'
<1> SUFFICES ASSUME NEW p \in Reqs, p # r, req[p].pc = "commit", req[p].op # "sitGuest"
             PROVE  Holder(p)'
  BY DEF Holders, Holder
<1> DEFINE u == Payer(req[p])
<1>1. req'[p] = req[p]
  OBVIOUS
<1>2. u \in Users /\ (req[p].op # "sit" => req[p].session \in Sessions /\ Exists(req[p].session))
  BY PayerTyped DEF TypeInv, TypeOK
<1>3. walletLock[u] = p /\ req[p].bal = balance[u]
  BY DEF Holders, Holder
<1>4. walletLock'[u] = p /\ balance'[u] = balance[u]
  BY <1>2, <1>3, WalletConstants
<1>5. Payer(req[p])' = u
  BY <1>1, <1>2 DEF Payer
<1> QED
  BY <1>1, <1>3, <1>4, <1>5 DEF Holder

\* A step that posts nothing keeps the row locks and the chain.
LEMMA QuietLocks ==
  ASSUME TypeInv, LockInv, NEW r \in Reqs,
         \A p \in Reqs \ {r} : req'[p] = req[p],
         UNCHANGED <<wallets, balance, ledger>>,
         \A s \in Sessions : Exists(s) => sessions'[s].user = sessions[s].user,
         \A u \in Users : walletLock[u] \notin {None, r} => walletLock'[u] = walletLock[u],
         Holder(r)'
  PROVE  LockInv'
<1>1. Holders'
  BY HoldersKept DEF LockInv
<1> QED
  BY <1>1 DEF LockInv, NoWalletNoMoney, LedgerChain

\* A posting under the row lock keeps the chain and the locks of the others.
LEMMA PostLocks ==
  ASSUME TypeInv, LockInv, NEW r \in Reqs,
         req[r].pc = "commit", req[r].op # "sitGuest",
         NEW amount \in Int, NEW type \in EntryTypes, NEW session \in Sessions,
         ApplyLedgerEntry(Payer(req[r]), req[r].bal, amount, type, LedgerKey(req[r]), session),
         walletLock' = Unlocked(r),
         UNCHANGED wallets,
         \A p \in Reqs \ {r} : req'[p] = req[p],
         \A s \in Sessions : Exists(s) => sessions'[s].user = sessions[s].user,
         req'[r].pc # "commit"
  PROVE  LockInv'
<1> DEFINE u == Payer(req[r])
           key == LedgerKey(req[r])
           post == Postings(balance[u], amount, type, key, session)
           new == NewBalance(balance[u], amount)
<1>1. u \in wallets /\ u \in Users
  BY PayerTyped DEF TypeInv, TypeOK
<1>2. walletLock[u] = r /\ req[r].bal = balance[u]
  BY DEF LockInv, Holders, Holder
<1>3. /\ ledger' = [ledger EXCEPT ![u] = @ \o post]
      /\ balance' = [balance EXCEPT ![u] = new]
  BY <1>2 DEF ApplyLedgerEntry
<1>4. /\ ledger'[u] = ledger[u] \o post /\ balance'[u] = new
      /\ \A v \in Users \ {u} : ledger'[v] = ledger[v] /\ balance'[v] = balance[v]
  BY <1>1, <1>3 DEF TypeInv, TypeOK
<1>5. Holders'
  <2>1. \A v \in Users : walletLock[v] \notin {None, r} => walletLock'[v] = walletLock[v]
    BY DEF Unlocked
  <2>2. \A v \in Users : walletLock[v] # r => balance'[v] = balance[v]
    BY <1>2, <1>4
  <2>3. Holder(r)'
    BY DEF Holder
  <2> QED
    BY <2>1, <2>2, <2>3, HoldersKept DEF LockInv
<1>6. NoWalletNoMoney'
  BY <1>1, <1>4 DEF LockInv, NoWalletNoMoney
<1>7. LedgerChain'
  <2>1. \A v \in Users : Chained(ledger[v], balance[v])
    BY DEF LockInv, LedgerChain, Chained
  <2>2. ledger[u] \in Seq(Entries) /\ balance[u] \in Nat /\ key \in DirectKeys
    BY <1>1, LedgerKeyTyped DEF TypeInv, TypeOK
  <2>3. Chained(ledger'[u], balance'[u])
    BY <1>1, <1>4, <2>1, <2>2, PostingsChained
  <2>4. \A v \in Users : Chained(ledger'[v], balance'[v])
    BY <1>4, <2>1, <2>3
  <2> QED
    BY <2>4 DEF LedgerChain, Chained
<1> QED
  BY <1>5, <1>6, <1>7 DEF LockInv

\* A walk-in's transaction keeps the chain without a lock: the wallet is its own.
LEMMA GuestLocks ==
  ASSUME TypeInv, LockInv, NEW r \in Reqs, CommitSitGuest(r)
  PROVE  LockInv'
<1> DEFINE q == req[r]
           cashKey == <<"guest-cash-in", q.key>>
<1>1. /\ q \in Requests /\ q.pc = "commit" /\ q.op = "sitGuest" /\ q.key \in Keys
      /\ q.amount \in Nat
  BY CashTableConstants
  DEF TypeInv, TypeOK, RequestShape, CommitSitGuest, At, WellFormed, Requests
<1>2. PICK g \in Guests \ wallets, s \in Sessions :
        /\ TakeSeat(q, g, s)
        /\ wallets' = wallets \cup {g}
        /\ ledger' = [ledger EXCEPT ![g] =
             Postings(0, q.amount, "ADJUSTMENT", cashKey, None)
             \o Postings(q.amount, -q.amount, "TABLE_BUY_IN", LedgerKey(q), s)]
  BY DEF CommitSitGuest
<1> DEFINE cash == Postings(0, q.amount, "ADJUSTMENT", cashKey, None)
           buyIn == Postings(q.amount, -q.amount, "TABLE_BUY_IN", LedgerKey(q), s)
<1>3. g \in Users \ wallets /\ balance[g] = 0 /\ ledger[g] = <<>>
  BY <1>2, CashTableConstants DEF LockInv, NoWalletNoMoney
<1>4. UNCHANGED <<balance, walletLock>> /\ Finish(r)
  BY DEF CommitSitGuest
<1>5. /\ ledger'[g] = cash \o buyIn
      /\ \A v \in Users \ {g} : ledger'[v] = ledger[v]
  BY <1>2, <1>3 DEF TypeInv, TypeOK
<1>6. Holders'
  <2>1. \A z \in Sessions : Exists(z) => sessions'[z].user = sessions[z].user
    BY <1>2 DEF TakeSeat, Exists, TypeInv, TypeOK
  <2>2. req'[r].pc # "commit" /\ \A p \in Reqs \ {r} : req'[p] = req[p]
    BY <1>4, Moved DEF Finish
  <2> QED
    BY <1>4, <2>1, <2>2, HoldersKept DEF LockInv, Holder
<1>7. NoWalletNoMoney'
  BY <1>2, <1>4, <1>5 DEF LockInv, NoWalletNoMoney
<1>8. LedgerChain'
  <2>1. \A v \in Users : Chained(ledger[v], balance[v])
    BY DEF LockInv, LedgerChain, Chained
  <2>2. LedgerKey(q) \in DirectKeys /\ cashKey \in DirectKeys
    BY <1>1, LedgerKeyTyped DEF DirectKeys
  <2>3. /\ NewBalance(0, q.amount) = q.amount /\ NewBalance(q.amount, -q.amount) = 0
        /\ -q.amount \in Int /\ 0 \in Nat /\ q.amount \in Int
        /\ {"ADJUSTMENT", "TABLE_BUY_IN"} \subseteq EntryTypes
    BY <1>1 DEF NewBalance, Overdraws, EntryTypes
  <2>4. cash \in Seq(Entries) /\ <<>> \o cash = cash
    <3>1. cash = <<Entry(cashKey, "ADJUSTMENT", q.amount, q.amount, None)>>
      BY <1>1 DEF Postings, Overdraws, NewBalance
    <3>2. Entry(cashKey, "ADJUSTMENT", q.amount, q.amount, None) \in Entries
      BY <1>1, <2>2 DEF Entry, Entries, LedgerKeys, EntryTypes
    <3> QED
      BY <3>1, <3>2
  <2> HIDE DEF cash, cashKey
  <2>5. Chained(cash, q.amount)
    <3>1. Chained(<<>>, 0)
      BY <1>3, <2>1
    <3>2. <<>> \in Seq(Entries)
      OBVIOUS
    <3>3. Chained(<<>> \o cash, NewBalance(0, q.amount))
      BY <2>2, <2>3, <3>1, <3>2, PostingsChained DEF cash
    <3> QED
      BY <2>3, <2>4, <3>3
  <2>6. Chained(cash \o buyIn, 0)
    <3>1. Chained(cash \o buyIn, NewBalance(q.amount, -q.amount))
      BY <1>1, <2>2, <2>3, <2>4, <2>5, PostingsChained
    <3> QED
      BY <2>3, <3>1
  <2>7. \A v \in Users : Chained(ledger'[v], balance'[v])
    BY <1>3, <1>4, <1>5, <2>1, <2>6
  <2> QED
    BY <2>7 DEF LedgerChain, Chained
<1> QED
  BY <1>6, <1>7, <1>8 DEF LockInv

\* The transactions of sit, re-buy and cash-out post under the row lock.
LEMMA CommitLocks ==
  ASSUME TypeInv, LockInv, NEW r \in Reqs,
         CommitSit(r) \/ CommitRebuy(r) \/ CommitCashOut(r)
  PROVE  LockInv'
<1> DEFINE q == req[r]
<1>1. /\ q.pc = "commit" /\ q.op # "sitGuest"
      /\ q.stack \in Int /\ q.amount \in Int /\ -q.amount \in Int
  <2>1. q.stack \in Nat /\ q.amount \in Int
    BY DEF TypeInv, TypeOK, Requests
  <2>2. q.pc = "commit" /\ q.op # "sitGuest"
    BY DEF CommitSit, CommitRebuy, CommitCashOut, At, CashOps
  <2> QED
    BY <2>1, <2>2
<1>2. PICK pc \in {"next", "done"} : Goto(r, pc)
  BY DEF CommitSit, CommitRebuy, CommitCashOut, Finish
<1>3. req'[r].pc # "commit" /\ \A p \in Reqs \ {r} : req'[p] = req[p]
  BY <1>2, Moved
<1>4. walletLock' = Unlocked(r) /\ UNCHANGED wallets
  BY DEF CommitSit, CommitRebuy, CommitCashOut
<1>5. {"TABLE_BUY_IN", "TABLE_CASH_OUT"} \subseteq EntryTypes
  BY DEF EntryTypes
<1>6. CASE CommitSit(r)
  <2>1. PICK s \in Sessions :
          /\ TakeSeat(q, q.user, s)
          /\ ApplyLedgerEntry(q.user, q.bal, -q.amount, "TABLE_BUY_IN", LedgerKey(q), s)
    BY <1>6 DEF CommitSit
  <2>2. q.user = Payer(q)
    BY <1>6 DEF CommitSit, At, Payer
  <2>3. \A z \in Sessions : Exists(z) => sessions'[z].user = sessions[z].user
    BY <2>1 DEF TakeSeat, Exists, TypeInv, TypeOK
  <2> QED
    BY <1>1, <1>3, <1>4, <1>5, <2>1, <2>2, <2>3, PostLocks
<1>7. CASE CommitRebuy(r)
  <2>1. /\ ApplyLedgerEntry(Payer(q), q.bal, -q.amount, "TABLE_BUY_IN", LedgerKey(q), q.session)
        /\ q.session \in Sessions
    BY <1>7 DEF CommitRebuy, At, TypeInv, RequestShape, WellFormed, OnSession
  <2>2. \A z \in Sessions : sessions'[z].user = sessions[z].user
    BY <1>7 DEF CommitRebuy, TypeInv, TypeOK, SessionRows
  <2> QED
    BY <1>1, <1>3, <1>4, <1>5, <2>1, <2>2, PostLocks
<1>8. CASE CommitCashOut(r)
  <2>1. /\ ApplyLedgerEntry(Payer(q), q.bal, q.stack, "TABLE_CASH_OUT", LedgerKey(q), q.session)
        /\ q.session \in Sessions
    BY <1>8 DEF CommitCashOut, At, CashOps, TypeInv, RequestShape, WellFormed, OnSession
  <2>2. \A z \in Sessions : sessions'[z].user = sessions[z].user
    BY <1>8, SMTT(40) DEF CommitCashOut, TypeInv, TypeOK, SessionRows
  <2> QED
    BY <1>1, <1>3, <1>4, <1>5, <2>1, <2>2, PostLocks
<1> QED
  BY <1>6, <1>7, <1>8

\* Every other step of a route leaves balances and other requests' locks alone.
LEMMA RouteLocks ==
  ASSUME TypeInv, LockInv, NEW r \in Reqs,
         \/ FindReplay(r) \/ ReadSession(r) \/ RetryCommit(r) \/ RefuseCommit(r)
         \/ ApplyMovement(r) \/ RetryMovement(r) \/ InsertMovement(r) \/ ListSessions(r)
         \/ CloseNext(r) \/ SetClosed(r) \/ SetOpen(r) \/ Fail(r)
  PROVE  LockInv'
<1>1. req[r] \in Requests /\ req \in [Reqs -> Requests]
  BY DEF TypeInv, TypeOK
<1>2. UNCHANGED <<wallets, balance, ledger>> /\ walletLock' \in {walletLock, Unlocked(r)}
  BY DEF FindReplay, ReadSession, RetryCommit, RefuseCommit, ApplyMovement, RetryMovement,
         InsertMovement, ListSessions, CloseNext, SetClosed, SetOpen, Fail, walletVars
<1>3. \A s \in Sessions : Exists(s) => sessions'[s].user = sessions[s].user
  <2>1. CASE ApplyMovement(r)
    BY <2>1, SMTT(40) DEF ApplyMovement, TypeInv, TypeOK, SessionRows
  <2>2. CASE ~ApplyMovement(r)
    BY <2>2 DEF FindReplay, ReadSession, RetryCommit, RefuseCommit, RetryMovement,
                InsertMovement, ListSessions, CloseNext, SetClosed, SetOpen, Fail, tableVars
  <2> QED
    BY <2>1, <2>2
<1>4. \A p \in Reqs \ {r} : req'[p] = req[p]
  BY <1>1 DEF FindReplay, ReadSession, RetryCommit, RefuseCommit, ApplyMovement, RetryMovement,
              InsertMovement, ListSessions, CloseNext, SetClosed, SetOpen, Fail,
              Finish, Goto, NextAttempt
<1>5. req'[r].pc = "commit" => req'[r].op = "sitGuest"
  <2>1. CASE FindReplay(r)
    <3>1. PICK pc \in Steps : Goto(r, pc) /\ (pc = "commit" => req[r].op = "sitGuest")
      BY <2>1 DEF FindReplay, Steps
    <3>2. req'[r] = [req[r] EXCEPT !.pc = pc]
      BY <1>1, <3>1 DEF Goto
    <3> QED
      BY <1>1, <3>1, <3>2 DEF Requests
  <2>2. CASE ReadSession(r)
    <3>1. CASE req' = [req EXCEPT ![r].pc = "done"]
      BY <1>1, <3>1 DEF Requests
    <3>2. ASSUME NEW pc \in {"apply", "lock"},
                 req' = [req EXCEPT ![r].pc = pc,
                                    ![r].version = sessions[req[r].session].version,
                                    ![r].stack = sessions[req[r].session].stack]
          PROVE  req'[r].pc # "commit"
      <4>1. req'[r] = [req[r] EXCEPT !.pc = pc, !.version = sessions[req[r].session].version,
                                     !.stack = sessions[req[r].session].stack]
        BY <1>1, <3>2
      <4> QED
        BY <1>1, <4>1 DEF Requests
    <3> QED
      BY <2>2, <3>1, <3>2 DEF ReadSession, Finish, Goto
  <2>3. CASE RetryCommit(r) \/ RetryMovement(r)
    <3>1. PICK pc \in {"read", "done"} : req' = [req EXCEPT ![r].tries = @ + 1, ![r].pc = pc]
      BY <2>3 DEF RetryCommit, RetryMovement, NextAttempt
    <3>2. req'[r] = [req[r] EXCEPT !.tries = @ + 1, !.pc = pc]
      BY <1>1, <3>1
    <3> QED
      BY <1>1, <3>2 DEF Requests
  <2>4. CASE \/ RefuseCommit(r) \/ InsertMovement(r) \/ SetClosed(r) \/ SetOpen(r) \/ Fail(r)
             \/ ApplyMovement(r)
    <3>1. PICK pc \in {"insert", "done"} : Goto(r, pc)
      BY <2>4 DEF RefuseCommit, InsertMovement, SetClosed, SetOpen, Fail, ApplyMovement, Finish
    <3> QED
      BY <3>1, Moved
  <2>5. CASE ListSessions(r)
    BY <1>1, <2>5 DEF ListSessions, Requests
  <2>6. CASE CloseNext(r)
    <3>1. PICK s \in req[r].todo :
            req' = [req EXCEPT ![r].pc = "lookup", ![r].session = s, ![r].tries = 0,
                               ![r].todo = @ \ {s}]
      BY <2>6 DEF CloseNext
    <3>2. req'[r] = [req[r] EXCEPT !.pc = "lookup", !.session = s, !.tries = 0, !.todo = @ \ {s}]
      BY <1>1, <3>1
    <3> QED
      BY <1>1, <3>2 DEF Requests
  <2> QED
    BY <2>1, <2>2, <2>3, <2>4, <2>5, <2>6
<1>6. \A u \in Users : walletLock[u] \notin {None, r} => walletLock'[u] = walletLock[u]
  BY <1>2 DEF Unlocked
<1> QED
  BY <1>2, <1>3, <1>4, <1>5, <1>6, QuietLocks DEF Holder

\* SELECT ... FOR UPDATE makes the balance the request knows the wallet's own.
LEMMA TakeLocks ==
  ASSUME TypeInv, LockInv, NEW r \in Reqs, TakeWalletLock(r)
  PROVE  LockInv'
<1> DEFINE u == Payer(req[r])
<1>1. req[r] \in Requests /\ req \in [Reqs -> Requests] /\ req[r].pc = "lock"
  BY DEF TypeInv, TypeOK, TakeWalletLock
<1>2. /\ UNCHANGED <<wallets, balance, ledger, sessions>>
      /\ walletLock[u] = None /\ walletLock' = [walletLock EXCEPT ![u] = r]
      /\ req' = [req EXCEPT ![r].pc = "commit", ![r].bal = balance[u]]
  BY DEF TakeWalletLock, LockWallet, LockFree, tableVars
<1>3. u \in Users
  <2>1. req[r].op # "sitGuest"
    BY <1>1 DEF TypeInv, RequestShape, WellFormed
  <2> QED
    BY <1>1, <2>1, PayerTyped DEF TypeInv, TypeOK
<1>4. /\ walletLock'[u] = r
      /\ \A v \in Users \ {u} : walletLock'[v] = walletLock[v]
  BY <1>2, <1>3 DEF TypeInv, TypeOK
<1>5. /\ \A p \in Reqs \ {r} : req'[p] = req[p]
      /\ req'[r] = [req[r] EXCEPT !.pc = "commit", !.bal = balance[u]]
  BY <1>1, <1>2
<1>6. /\ req'[r].bal = balance[u] /\ req'[r].op = req[r].op /\ req'[r].user = req[r].user
      /\ req'[r].session = req[r].session
  BY <1>1, <1>5 DEF Requests
<1>7. Payer(req[r])' = u
  BY <1>2, <1>6 DEF Payer
<1>8. Holder(r)'
  BY <1>2, <1>4, <1>6, <1>7 DEF Holder
<1> QED
  BY <1>2, <1>4, <1>5, <1>8, QuietLocks

\* The locks and the chain hold before the first request.
LEMMA InitLocks == Init => LockInv
<1> SUFFICES ASSUME Init
             PROVE  LockInv
  OBVIOUS
<1>1. Holders
  BY DEF Init, Holders, Holder, NewRequest
<1>2. NoWalletNoMoney
  <2>1. ASSUME NEW u \in Users \ wallets
        PROVE  u \in Guests /\ u \in Users
    BY <2>1 DEF Init
  <2> QED
    BY <2>1 DEF Init, NoWalletNoMoney
<1>3. LedgerChain
  <2>1. balance \in [Users -> Nat]
    BY InitTyped DEF TypeInv, TypeOK
  <2> SUFFICES ASSUME NEW u \in Users
               PROVE  Chained(ledger[u], balance[u])
    BY DEF LedgerChain, Chained
  <2>2. CASE balance[u] = 0
    <3>1. ledger[u] = <<>>
      BY <2>2 DEF Init
    <3> QED
      BY <2>2, <3>1 DEF Chained, AfterPrevious
  <2>3. CASE balance[u] # 0
    <3> DEFINE e == Entry(<<"deposit", u>>, "PIX_DEPOSIT", balance[u], balance[u], None)
    <3>1. ledger[u] = <<e>>
      BY <2>3 DEF Init
    <3>2. e.after = balance[u] /\ e.amount = balance[u] /\ balance[u] \in Nat
      BY <2>1 DEF Entry
    <3> HIDE DEF e
    <3>3. Len(ledger[u]) = 1 /\ ledger[u][1] = e /\ DOMAIN ledger[u] = {1}
      BY <3>1
    <3> QED
      BY <3>2, <3>3 DEF Chained, AfterPrevious
  <2> QED
    BY <2>2, <2>3
<1> QED
  BY <1>1, <1>2, <1>3 DEF LockInv

\* Every step keeps the locks and the chain.
LEMMA NextLocks == TypeInv /\ LockInv /\ [Next]_vars => LockInv'
<1> SUFFICES ASSUME TypeInv, LockInv, [Next]_vars
             PROVE  LockInv'
  OBVIOUS
<1>1. ASSUME NEW t \in Tables, CreateTable(t)
      PROVE  LockInv'
  BY <1>1 DEF CreateTable, walletVars, LockInv, Holders, Holder, Payer, NoWalletNoMoney, LedgerChain
<1>2. ASSUME NEW r \in Reqs, Arrive(r)
      PROVE  LockInv'
  <2>1. Holder(r)'
    BY <1>2, ArriveStarts DEF Holder
  <2> QED
    BY <1>2, <2>1, ArriveStarts, QuietLocks
<1>3. ASSUME NEW r \in Reqs, Proceed(r) \/ Fail(r)
      PROVE  LockInv'
  BY <1>3, RouteLocks, TakeLocks, CommitLocks, GuestLocks DEF Proceed
<1>4. CASE UNCHANGED vars
  BY <1>4 DEF vars, walletVars, tableVars, LockInv, Holders, Holder, Payer, NoWalletNoMoney, LedgerChain
<1> QED
  BY <1>1, <1>2, <1>3, <1>4 DEF Next

\* Every wallet's ledger is a chain that ends at its balance, however many
\* requests post to it at once: the row lock held from the read of the balance to
\* the commit leaves no room for a stale one.
THEOREM LedgersChained == Spec => []LedgerChain
<1>1. LockInv => LedgerChain
  BY DEF LockInv
<1> QED
  BY <1>1, InitTyped, NextTyped, InitLocks, NextLocks, PTL DEF Spec

\* CashOutPaysTheStackOnce for one session.
PaidOnce(s) ==
  LET u == sessions[s].user
  IN  /\ Active(s) /\ ~Active(s)' =>
           /\ balance'[u] = balance[u] + sessions[s].stack
           /\ sessions'[s].stack = 0
           /\ sessions'[s].cashed = sessions[s].stack
      /\ sessions[s].status = "CASHED_OUT" => UNCHANGED sessions[s]

\* Both locks together: the amount paid is the current stack by the version, the
\* balance it is added to is the current one by the row lock.
LEMMA StepPaysOnce ==
  ASSUME TypeInv, VersionInv, LockInv, [Next]_vars, NEW s \in Sessions
  PROVE  PaidOnce(s)
<1>1. CASE sessions'[s] = sessions[s]
  BY <1>1 DEF PaidOnce, Active
<1>2. ASSUME NEW r \in Reqs, CommitSit(r) \/ CommitSitGuest(r)
      PROVE  PaidOnce(s)
  <2>1. PICK z, row :
          /\ z \in Sessions /\ sessions[z].status = "NONE"
          /\ sessions' = [sessions EXCEPT ![z] = row]
    BY <1>2 DEF CommitSit, CommitSitGuest, TakeSeat
  <2>2. s # z => sessions'[s] = sessions[s]
    BY <2>1 DEF TypeInv, TypeOK
  <2> QED
    BY <1>1, <2>1, <2>2 DEF PaidOnce, Active
<1>3. ASSUME NEW r \in Reqs, CommitRebuy(r) \/ CommitCashOut(r) \/ ApplyMovement(r),
             sessions'[s] # sessions[s]
      PROVE  PaidOnce(s)
  <2> DEFINE q == req[r]
  <2>1. /\ q \in Requests /\ q.session \in Sessions /\ Exists(q.session)
        /\ q.pc \in {"commit", "apply"} /\ q.op \notin Seating
    BY <1>3 DEF TypeInv, TypeOK, RequestShape, WellFormed, OnSession, CommitRebuy, CommitCashOut,
                ApplyMovement, At, CashOps, Seating
  <2>2. q.session = s
    BY <1>3, <2>1 DEF CommitRebuy, CommitCashOut, ApplyMovement, TypeInv, TypeOK
  <2>3. Active(s) /\ q.stack = sessions[s].stack /\ sessions[s].cashed = 0
    <3>1. SameVersion(q) /\ Snapshot(q)
      BY <1>3 DEF CommitRebuy, CommitCashOut, ApplyMovement, VersionInv, Snapshots
    <3> QED
      BY <2>1, <2>2, <3>1 DEF Snapshot, SameVersion, Holding, VersionInv, StackShape
  <2>4. sessions \in [Sessions -> SessionRows] /\ sessions[s] \in SessionRows
    BY DEF TypeInv, TypeOK
  <2>5. CASE CommitRebuy(r) \/ ApplyMovement(r)
    <3>1. sessions'[s].status = sessions[s].status
      BY <2>2, <2>4, <2>5 DEF CommitRebuy, ApplyMovement, SessionRows
    <3> QED
      BY <2>3, <3>1 DEF PaidOnce, Active
  <2>6. CASE CommitCashOut(r)
    <3> DEFINE u == sessions[s].user
    <3>1. sessions' = [sessions EXCEPT ![s].status = "CASHED_OUT", ![s].stack = 0,
                                       ![s].cashed = @ + q.stack, ![s].version = @ + 1]
      BY <2>2, <2>6 DEF CommitCashOut
    <3>2. sessions'[s].stack = 0 /\ sessions'[s].cashed = sessions[s].cashed + q.stack
      BY <2>4, <3>1 DEF SessionRows
    <3>3. Payer(q) = u /\ u \in Users
      <4>1. q.op # "sit" /\ q.op # "sitGuest" /\ q.pc = "commit"
        BY <2>6 DEF CommitCashOut, At, CashOps
      <4>2. Payer(q) = u
        BY <2>2, <4>1 DEF Payer
      <4> QED
        BY <4>1, <4>2, PayerTyped DEF TypeInv, TypeOK
    <3>4. q.bal = balance[u] /\ balance[u] \in Nat
      BY <2>6, <3>3 DEF CommitCashOut, At, CashOps, LockInv, Holders, Holder, TypeInv, TypeOK
    <3>5. balance' = [balance EXCEPT ![u] = NewBalance(balance[u], sessions[s].stack)]
      BY <2>3, <2>6, <3>3, <3>4 DEF CommitCashOut, ApplyLedgerEntry
    <3>6. balance'[u] = NewBalance(balance[u], sessions[s].stack)
      BY <3>3, <3>5 DEF TypeInv, TypeOK
    <3>7. sessions[s].stack \in Nat
      BY <2>4 DEF SessionRows
    <3>8. balance'[u] = balance[u] + sessions[s].stack
      BY <3>4, <3>6, <3>7 DEF NewBalance, Overdraws
    <3>9. sessions'[s].cashed = sessions[s].stack
      BY <2>3, <3>2, <3>7
    <3> QED
      BY <2>3, <3>2, <3>8, <3>9 DEF PaidOnce, Active
  <2> QED
    BY <1>3, <2>5, <2>6
<1>4. CASE UNCHANGED sessions
  BY <1>1, <1>4
<1>5. ASSUME NEW r \in Reqs, Arrive(r) \/ Proceed(r) \/ Fail(r)
      PROVE  PaidOnce(s)
  <2>1. CASE Arrive(r)
    BY <1>4, <2>1, ArriveStarts
  <2>2. CASE \/ FindReplay(r) \/ ReadSession(r) \/ TakeWalletLock(r) \/ RetryCommit(r)
             \/ RefuseCommit(r) \/ RetryMovement(r) \/ InsertMovement(r) \/ ListSessions(r)
             \/ CloseNext(r) \/ SetClosed(r) \/ SetOpen(r) \/ Fail(r)
    BY <1>4, <2>2 DEF FindReplay, ReadSession, TakeWalletLock, RetryCommit, RefuseCommit,
                      RetryMovement, InsertMovement, ListSessions, CloseNext, SetClosed, SetOpen,
                      Fail, tableVars
  <2> QED
    BY <1>1, <1>2, <1>3, <1>5, <2>1, <2>2 DEF Proceed
<1>6. ASSUME NEW t \in Tables, CreateTable(t)
      PROVE  PaidOnce(s)
  BY <1>4, <1>6 DEF CreateTable
<1>7. CASE UNCHANGED vars
  BY <1>4, <1>7 DEF vars, tableVars
<1> QED
  BY <1>5, <1>6, <1>7 DEF Next

\* Cash-out pays exactly the stack the session holds when it ends, by whichever
\* route it ends, and nothing writes an ended session again.
THEOREM StackPaidOnce == Spec => CashOutPaysTheStackOnce
<1>1. TypeInv /\ VersionInv /\ LockInv /\ [Next]_vars =>
        [\A s \in Sessions :
           LET u == sessions[s].user
           IN  /\ Active(s) /\ ~Active(s)' =>
                    /\ balance'[u] = balance[u] + sessions[s].stack
                    /\ sessions'[s].stack = 0
                    /\ sessions'[s].cashed = sessions[s].stack
               /\ sessions[s].status = "CASHED_OUT" => UNCHANGED sessions[s]]_vars
  BY StepPaysOnce DEF PaidOnce
<1> QED
  BY <1>1, InitTyped, NextTyped, InitVersions, NextVersions, InitLocks, NextLocks, PTL
  DEF Spec, CashOutPaysTheStackOnce

-----------------------------------------------------------------------------
(* The loop of closeTable.                                                 *)

\* The session has been cashed out.
Ended(s) == sessions[s].status = "CASHED_OUT"

\* Whoever closes a table has left behind only sessions that ended; the one it is
\* working on is still to be seen.
LoopSound(q) ==
  q.op = "close" =>
    /\ q.pc = "next" => \A s \in q.listed \ q.todo : Ended(s)
    /\ q.pc \in {"lookup", "read", "lock", "commit"} =>
         \A s \in q.listed \ (q.todo \cup {q.session}) : Ended(s)

\* The key that lets the loop skip a session is in the ledger only once it ended.
KeysSound ==
  \A u \in Users, s \in Sessions :
    \A i \in DOMAIN ledger[u] : ledger[u][i].key = <<"close-table", s>> => Ended(s)

\* Why closing settles what it listed.
CloseInv == KeysSound /\ \A r \in Reqs : LoopSound(req[r])

\* What ended stays ended.
LEMMA EndedStays ==
  ASSUME TypeInv, [Next]_vars, NEW s \in Sessions, Ended(s)
  PROVE  Ended(s)'
<1> USE DEF Ended
<1>1. CASE UNCHANGED sessions
  BY <1>1
<1>2. ASSUME NEW r \in Reqs, CommitSit(r) \/ CommitSitGuest(r)
      PROVE  Ended(s)'
  <2>1. PICK z \in Sessions : \E u : TakeSeat(req[r], u, z)
    <3>1. CASE CommitSit(r)
      BY <3>1 DEF CommitSit
    <3>2. CASE CommitSitGuest(r)
      BY <3>2 DEF CommitSitGuest
    <3> QED
      BY <1>2, <3>1, <3>2
  <2>2. sessions[z].status = "NONE" /\ \A o \in Sessions \ {z} : sessions'[o] = sessions[o]
    BY <2>1 DEF TakeSeat, TypeInv, TypeOK
  <2> QED
    BY <2>2
<1>3. ASSUME NEW r \in Reqs, CommitRebuy(r) \/ CommitCashOut(r) \/ ApplyMovement(r)
      PROVE  Ended(s)'
  <2> DEFINE z == req[r].session
  <2>1. sessions \in [Sessions -> SessionRows]
    BY DEF TypeInv, TypeOK
  <2>2. CASE CommitRebuy(r)
    <3>1. sessions' = [sessions EXCEPT ![z].stack = req[r].stack + req[r].amount,
                                       ![z].bought = @ + req[r].amount,
                                       ![z].version = @ + 1]
      BY <2>2 DEF CommitRebuy
    <3> QED
      BY <2>1, <3>1 DEF SessionRows
  <2>3. CASE CommitCashOut(r)
    <3>1. sessions' = [sessions EXCEPT ![z].status = "CASHED_OUT",
                                       ![z].stack = 0,
                                       ![z].cashed = @ + req[r].stack,
                                       ![z].version = @ + 1]
      BY <2>3 DEF CommitCashOut
    <3> QED
      BY <2>1, <3>1 DEF SessionRows
  <2>4. CASE ApplyMovement(r)
    <3>1. sessions' = [sessions EXCEPT ![z].stack = req[r].stack + req[r].amount,
                                       ![z].version = @ + 1]
      BY <2>4 DEF ApplyMovement
    <3> QED
      BY <2>1, <3>1 DEF SessionRows
  <2> QED
    BY <1>3, <2>2, <2>3, <2>4
<1>4. ASSUME NEW r \in Reqs, Arrive(r) \/ Proceed(r) \/ Fail(r)
      PROVE  Ended(s)'
  <2>1. CASE Arrive(r)
    BY <1>1, <2>1, ArriveStarts
  <2>2. CASE CommitSit(r) \/ CommitSitGuest(r) \/ CommitRebuy(r) \/ CommitCashOut(r)
               \/ ApplyMovement(r)
    BY <1>2, <1>3, <2>2
  <2>3. CASE \/ FindReplay(r) \/ ReadSession(r) \/ TakeWalletLock(r) \/ RetryCommit(r)
             \/ RefuseCommit(r) \/ RetryMovement(r) \/ InsertMovement(r) \/ ListSessions(r)
             \/ CloseNext(r) \/ SetClosed(r) \/ SetOpen(r) \/ Fail(r)
    BY <1>1, <2>3 DEF FindReplay, ReadSession, TakeWalletLock, RetryCommit, RefuseCommit,
         RetryMovement, InsertMovement, ListSessions, CloseNext, SetClosed, SetOpen, Fail, tableVars
  <2> QED
    BY <1>4, <2>1, <2>2, <2>3 DEF Proceed
<1>5. ASSUME NEW t \in Tables, CreateTable(t)
      PROVE  Ended(s)'
  BY <1>1, <1>5 DEF CreateTable
<1> QED
  BY <1>1, <1>4, <1>5 DEF Next, vars, tableVars

\* A transaction adds entries with its own key, or with the key of its standby credit.
LEMMA PostingKeys ==
  ASSUME NEW entries \in Seq(Entries), NEW bal \in Nat, NEW amount \in Int,
         NEW type \in EntryTypes, NEW key \in DirectKeys, NEW session \in Sessions \cup {None},
         NEW i \in DOMAIN (entries \o Postings(bal, amount, type, key, session))
  PROVE  LET all == entries \o Postings(bal, amount, type, key, session)
         IN  \/ i \in DOMAIN entries /\ all[i] = entries[i]
             \/ all[i].key \in {key, TopUpKey(key)}
<1> DEFINE entry == Entry(key, type, amount, NewBalance(bal, amount), session)
           topUp == Entry(TopUpKey(key), "ADJUSTMENT", -(bal + amount), -amount, None)
<1>1. entry.key = key /\ topUp.key = TopUpKey(key)
  BY DEF Entry
<1>2. entry \in Entries
  BY DEF Entry, Entries, LedgerKeys, NewBalance, Overdraws
<1>3. CASE ~Overdraws(bal, amount)
  <2>1. Postings(bal, amount, type, key, session) = <<entry>>
    BY <1>3 DEF Postings
  <2> HIDE DEF entry, topUp
  <2>2. entries \o <<entry>> = Append(entries, entry)
    BY <1>2
  <2> QED
    BY <1>1, <1>2, <2>1, <2>2
<1>4. CASE Overdraws(bal, amount)
  <2>1. Postings(bal, amount, type, key, session) = <<topUp, entry>>
    BY <1>4 DEF Postings
  <2>2. topUp \in Entries
    BY <1>4 DEF Entry, Entries, LedgerKeys, TopUpKey, Overdraws, EntryTypes
  <2> HIDE DEF entry, topUp
  <2>3. entries \o <<topUp, entry>> = Append(Append(entries, topUp), entry)
    BY <1>2, <2>2
  <2> QED
    BY <1>1, <1>2, <2>1, <2>2, <2>3
<1> QED
  BY <1>3, <1>4

\* No other route writes a key of closeTable.
LEMMA OwnKeys ==
  ASSUME NEW key \in DirectKeys, NEW s \in Sessions,
         <<"close-table", s>> \in {key, TopUpKey(key)}
  PROVE  key = <<"close-table", s>>
BY DEF TopUpKey

\* The keys stay sound when a transaction posts one that is not closeTable's, or
\* closeTable's own for a session it ends.
LEMMA PostedKeys ==
  ASSUME TypeInv, KeysSound, [Next]_vars,
         NEW u \in Users, NEW entries \in Seq(Entries), NEW bal \in Nat, NEW amount \in Int,
         NEW type \in EntryTypes, NEW key \in DirectKeys, NEW session \in Sessions \cup {None},
         \A i \in DOMAIN entries :
           \/ entries[i] \in {ledger[u][j] : j \in DOMAIN ledger[u]}
           \/ \A s \in Sessions : entries[i].key # <<"close-table", s>>,
         ledger' = [ledger EXCEPT ![u] = entries \o Postings(bal, amount, type, key, session)],
         \A s \in Sessions : key = <<"close-table", s>> => Ended(s)'
  PROVE  KeysSound'
<1> DEFINE all == entries \o Postings(bal, amount, type, key, session)
<1>1. ledger'[u] = all /\ \A v \in Users \ {u} : ledger'[v] = ledger[v]
  BY DEF TypeInv, TypeOK
<1>2. ASSUME NEW s \in Sessions, NEW i \in DOMAIN all, all[i].key = <<"close-table", s>>
      PROVE  Ended(s)'
  <2>1. CASE all[i].key \in {key, TopUpKey(key)}
    <3>1. key = <<"close-table", s>>
      BY <1>2, <2>1, OwnKeys
    <3> QED
      BY <3>1
  <2>2. CASE i \in DOMAIN entries /\ all[i] = entries[i]
    <3> HIDE DEF all
    <3>1. PICK j \in DOMAIN ledger[u] : entries[i] = ledger[u][j]
      BY <1>2, <2>2
    <3>2. Ended(s)
      BY <1>2, <2>2, <3>1 DEF KeysSound
    <3> QED
      BY <3>2, EndedStays
  <2>3. \/ i \in DOMAIN entries /\ all[i] = entries[i]
        \/ all[i].key \in {key, TopUpKey(key)}
    BY PostingKeys
  <2> QED
    BY <2>1, <2>2, <2>3
<1> HIDE DEF all
<1>3. ASSUME NEW v \in Users, NEW s \in Sessions, NEW i \in DOMAIN ledger'[v],
             ledger'[v][i].key = <<"close-table", s>>
      PROVE  Ended(s)'
  <2>1. CASE v = u
    BY <1>1, <1>2, <1>3, <2>1
  <2>2. CASE v # u
    BY <1>1, <1>3, <2>2, EndedStays DEF KeysSound
  <2> QED
    BY <2>1, <2>2
<1> QED
  BY <1>3 DEF KeysSound

\* Steps that post nothing.
LEMMA UnpostedKeys ==
  ASSUME TypeInv, KeysSound, [Next]_vars, UNCHANGED ledger
  PROVE  KeysSound'
BY EndedStays DEF KeysSound

\* Sits, re-buys and cash-outs post keys of their own; the key of closeTable comes with
\* the end of its session.
LEMMA CommitKeys ==
  ASSUME TypeInv, KeysSound, Next, NEW r \in Reqs,
         CommitSit(r) \/ CommitRebuy(r) \/ CommitCashOut(r)
  PROVE  KeysSound'
<1> DEFINE q == req[r]
<1>1. /\ q.pc = "commit" /\ q.op # "sitGuest" /\ q.bal \in Nat
      /\ q.stack \in Int /\ q.amount \in Int /\ -q.amount \in Int
  <2>1. q.stack \in Nat /\ q.bal \in Nat /\ q.amount \in Int
    BY DEF TypeInv, TypeOK, Requests
  <2>2. q.pc = "commit" /\ q.op # "sitGuest"
    BY DEF CommitSit, CommitRebuy, CommitCashOut, At, CashOps
  <2> QED
    BY <2>1, <2>2
<1>2. LedgerKey(q) \in DirectKeys
  BY <1>1, LedgerKeyTyped
<1>3. {"TABLE_BUY_IN", "TABLE_CASH_OUT"} \subseteq EntryTypes
  BY DEF EntryTypes
<1>4. Payer(q) \in Users
  BY <1>1, PayerTyped DEF TypeInv, TypeOK
<1>5. \A s \in Sessions : LedgerKey(q) = <<"close-table", s>> => Ended(s)'
  <2>1. CASE CommitCashOut(r) /\ q.op = "close"
    <3>1. q.session \in Sessions
      BY <2>1 DEF CommitCashOut, At, CashOps, TypeInv, RequestShape, WellFormed, OnSession
    <3>2. LedgerKey(q) = <<"close-table", q.session>>
      BY <2>1 DEF LedgerKey
    <3>3. sessions'[q.session].status = "CASHED_OUT"
      BY <2>1, <3>1 DEF CommitCashOut, TypeInv, TypeOK, SessionRows
    <3> QED
      BY <3>2, <3>3 DEF Ended
  <2>2. CASE q.op \in {"sit", "rebuy", "cashOut", "adminCashOut"}
    BY <2>2 DEF LedgerKey
  <2> QED
    BY <2>1, <2>2 DEF CommitSit, CommitRebuy, CommitCashOut, At, CashOps
<1>6. PICK amount \in Int, type \in EntryTypes, session \in Sessions \cup {None} :
        ApplyLedgerEntry(Payer(q), q.bal, amount, type, LedgerKey(q), session)
  <2>1. CASE CommitSit(r)
    <3>1. q.user = Payer(q)
      BY <2>1 DEF CommitSit, At, Payer
    <3> QED
      BY <1>1, <1>3, <2>1, <3>1 DEF CommitSit
  <2>2. CASE CommitRebuy(r)
    <3>1. q.session \in Sessions
      BY <2>2 DEF CommitRebuy, At, TypeInv, RequestShape, WellFormed, OnSession
    <3> QED
      BY <1>1, <1>3, <2>2, <3>1 DEF CommitRebuy
  <2>3. CASE CommitCashOut(r)
    <3>1. q.session \in Sessions
      BY <2>3 DEF CommitCashOut, At, CashOps, TypeInv, RequestShape, WellFormed, OnSession
    <3> QED
      BY <1>1, <1>3, <2>3, <3>1 DEF CommitCashOut
  <2> QED
    BY <2>1, <2>2, <2>3
<1>7. PICK u \in Users, key \in DirectKeys, bal \in Nat :
        u = Payer(q) /\ key = LedgerKey(q) /\ bal = q.bal
  BY <1>1, <1>2, <1>4
<1>8. ledger' = [ledger EXCEPT ![u] = ledger[u] \o Postings(bal, amount, type, key, session)]
  BY <1>6, <1>7 DEF ApplyLedgerEntry, TypeInv, TypeOK
<1>9. /\ ledger[u] \in Seq(Entries)
      /\ \A i \in DOMAIN ledger[u] : ledger[u][i] \in {ledger[u][j] : j \in DOMAIN ledger[u]}
  BY DEF TypeInv, TypeOK
<1>10. \A s \in Sessions : key = <<"close-table", s>> => Ended(s)'
  BY <1>5, <1>7
<1> HIDE DEF q
<1> QED
  BY <1>8, <1>9, <1>10, PostedKeys

\* A walk-in's cash and buy-in have keys of their own.
LEMMA GuestKeys ==
  ASSUME TypeInv, KeysSound, Next, NEW r \in Reqs, CommitSitGuest(r)
  PROVE  KeysSound'
<1> DEFINE q == req[r]
           cashKey == <<"guest-cash-in", q.key>>
           cash == Entry(cashKey, "ADJUSTMENT", q.amount, q.amount, None)
<1>1. /\ q \in Requests /\ q.pc = "commit" /\ q.op = "sitGuest" /\ q.key \in Keys
      /\ q.amount \in Nat
  BY CashTableConstants
  DEF TypeInv, TypeOK, RequestShape, CommitSitGuest, At, WellFormed, Requests
<1>2. PICK g \in Guests \ wallets, s \in Sessions :
        ledger' = [ledger EXCEPT ![g] =
          Postings(0, q.amount, "ADJUSTMENT", cashKey, None)
          \o Postings(q.amount, -q.amount, "TABLE_BUY_IN", LedgerKey(q), s)]
  BY DEF CommitSitGuest
<1>3. LedgerKey(q) \in DirectKeys /\ cashKey \in DirectKeys
  BY <1>1, LedgerKeyTyped DEF DirectKeys
<1>4. Postings(0, q.amount, "ADJUSTMENT", cashKey, None) = <<cash>>
  BY <1>1 DEF Postings, Overdraws, NewBalance
<1>5. cash \in Entries /\ cash.key = cashKey
  BY <1>1, <1>3 DEF Entry, Entries, LedgerKeys, EntryTypes
<1>6. /\ \A z \in Sessions : cashKey # <<"close-table", z>>
      /\ \A z \in Sessions : LedgerKey(q) # <<"close-table", z>>
  BY <1>1 DEF LedgerKey
<1>7. g \in Users /\ -q.amount \in Int /\ "TABLE_BUY_IN" \in EntryTypes
  BY <1>1, <1>2, CashTableConstants DEF EntryTypes
<1>10. PICK key \in DirectKeys, amount \in Nat : key = LedgerKey(q) /\ amount = q.amount
  BY <1>1, <1>3
<1> HIDE DEF cash, cashKey, q
<1>8. <<cash>> \in Seq(Entries) /\ \A i \in DOMAIN <<cash>> : <<cash>>[i] = cash
  BY <1>5
<1>9. \A i \in DOMAIN <<cash>> : \A z \in Sessions : <<cash>>[i].key # <<"close-table", z>>
  BY <1>5, <1>6, <1>8
<1>11. PICK entries \in Seq(Entries) : entries = <<cash>>
  BY <1>8
<1>12. ledger' = [ledger EXCEPT ![g] =
         entries \o Postings(amount, -amount, "TABLE_BUY_IN", key, s)]
  BY <1>2, <1>4, <1>10, <1>11
<1>13. /\ \A i \in DOMAIN entries : \A z \in Sessions : entries[i].key # <<"close-table", z>>
       /\ \A z \in Sessions : key # <<"close-table", z>>
  BY <1>6, <1>9, <1>10, <1>11
<1> QED
  BY <1>7, <1>10, <1>12, <1>13, PostedKeys

-----------------------------------------------------------------------------

Working == {"lookup", "read", "lock", "commit"}

\* A request that moves on with the same session, or ends, has left nobody behind.
LEMMA SameLoop ==
  ASSUME TypeInv, [Next]_vars, NEW r \in Reqs, LoopSound(req[r]),
         req'[r].op = req[r].op, req'[r].session = req[r].session,
         req'[r].todo = req[r].todo, req'[r].listed = req[r].listed,
         \/ req'[r].pc = req[r].pc
         \/ req'[r].pc \in {"done", "apply", "insert"}
         \/ req[r].pc \in Working /\ req'[r].pc \in Working
  PROVE  LoopSound(req[r])'
<1>1. req[r].listed \subseteq Sessions
  BY DEF TypeInv, TypeOK, Requests
<1>2. \A s \in req[r].listed : Ended(s) => Ended(s)'
  BY <1>1, EndedStays
<1> QED
  BY <1>2 DEF LoopSound, Working

\* A request that goes from one step to another and nothing else.
LEMMA Gone ==
  ASSUME TypeInv, NEW r \in Reqs, NEW pc, Goto(r, pc)
  PROVE  /\ req'[r].op = req[r].op /\ req'[r].session = req[r].session
         /\ req'[r].todo = req[r].todo /\ req'[r].listed = req[r].listed
         /\ req'[r].pc = pc /\ \A p \in Reqs \ {r} : req'[p] = req[p]
BY DEF Goto, TypeInv, TypeOK, Requests

\* A request that arrives to close a table has listed nobody yet.
LEMMA ArrivesToList ==
  ASSUME TypeInv, NEW r \in Reqs, Arrive(r)
  PROVE  req'[r].op # "close" \/ req'[r].pc = "list"
<1> USE DEF NewRequest, Begin, TypeInv, TypeOK
<1>1. CASE SitAtTable(r)
  BY <1>1 DEF SitAtTable
<1>2. CASE SitGuestAtTable(r)
  BY <1>2 DEF SitGuestAtTable
<1>3. CASE Rebuy(r)
  BY <1>3 DEF Rebuy
<1>4. CASE CashOut(r)
  BY <1>4 DEF CashOut
<1>5. CASE RecordMovement(r)
  BY <1>5 DEF RecordMovement
<1>6. CASE CloseTable(r)
  BY <1>6 DEF CloseTable
<1>7. CASE ReopenTable(r)
  BY <1>7 DEF ReopenTable
<1> QED
  BY <1>1, <1>2, <1>3, <1>4, <1>5, <1>6, <1>7 DEF Arrive

\* Each step of a request keeps its loop: the two that leave a session behind are the
\* commit that ends it and the key that says it was ended before.
LEMMA LoopStep ==
  ASSUME TypeInv, KeysSound, NEW r \in Reqs, LoopSound(req[r]), Next,
         Proceed(r) \/ Fail(r)
  PROVE  LoopSound(req[r])' /\ \A p \in Reqs \ {r} : req'[p] = req[p]
<1> DEFINE q == req[r]
<1>0. req \in [Reqs -> Requests] /\ q \in Requests /\ q.listed \subseteq Sessions
  BY DEF TypeInv, TypeOK, Requests
<1>1. CASE FindReplay(r)
  <2>1. PICK pc \in {"next", "done", "lock", "commit", "read"} :
          /\ Goto(r, pc) /\ q.pc = "lookup"
          /\ pc = "next" => q.op = "close" /\ ~KeyUnused(LedgerKey(q))
    BY <1>1 DEF FindReplay
  <2>2. CASE pc # "next"
    BY <2>1, <2>2, Gone, SameLoop DEF Working
  <2>3. CASE pc = "next"
    <3>1. LedgerKey(q) = <<"close-table", q.session>> /\ q.session \in Sessions
      BY <2>1, <2>3 DEF LedgerKey, TypeInv, RequestShape, WellFormed, OnSession
    <3>2. Ended(q.session)
      BY <2>1, <2>3, <3>1 DEF KeyUnused, KeysUsed, KeysSound
    <3>3. \A s \in q.listed \ q.todo : Ended(s)
      BY <2>1, <2>3, <3>2 DEF LoopSound
    <3>4. \A s \in q.listed \ q.todo : Ended(s)'
      BY <1>0, <3>3, EndedStays
    <3> QED
      BY <2>1, <2>3, <3>4, Gone DEF LoopSound
  <2> QED
    BY <2>2, <2>3
<1>2. CASE ReadSession(r)
  <2>1. CASE Goto(r, "done")
    BY <2>1, Gone, SameLoop
  <2>2. CASE \E pc \in {"apply", "lock"} :
               req' = [req EXCEPT ![r].pc = pc,
                                  ![r].version = sessions[q.session].version,
                                  ![r].stack = sessions[q.session].stack]
    <3>1. /\ q.pc = "read" /\ req'[r].op = q.op /\ req'[r].session = q.session
          /\ req'[r].todo = q.todo /\ req'[r].listed = q.listed
          /\ req'[r].pc \in {"apply", "lock"} /\ \A p \in Reqs \ {r} : req'[p] = req[p]
      BY <1>0, <1>2, <2>2 DEF ReadSession, Requests
    <3> QED
      BY <3>1, SameLoop DEF Working
  <2>3. Goto(r, "done") \/ \E pc \in {"apply", "lock"} :
               req' = [req EXCEPT ![r].pc = pc,
                                  ![r].version = sessions[q.session].version,
                                  ![r].stack = sessions[q.session].stack]
    <3>1. CASE q.op = "movement"
      BY <1>2, <3>1 DEF ReadSession, Finish
    <3>2. CASE q.op # "movement"
      BY <1>2, <3>2 DEF ReadSession, Finish
    <3> QED
      BY <3>1, <3>2
  <2> QED
    BY <2>1, <2>2, <2>3
<1>3. CASE TakeWalletLock(r)
  <2>1. /\ q.pc = "lock" /\ req'[r].op = q.op /\ req'[r].session = q.session
        /\ req'[r].todo = q.todo /\ req'[r].listed = q.listed
        /\ req'[r].pc = "commit" /\ \A p \in Reqs \ {r} : req'[p] = req[p]
    BY <1>0, <1>3 DEF TakeWalletLock, Requests
  <2> QED
    BY <2>1, SameLoop DEF Working
<1>4. CASE \/ CommitSit(r) \/ CommitSitGuest(r) \/ CommitRebuy(r) \/ RefuseCommit(r)
           \/ InsertMovement(r) \/ SetClosed(r) \/ SetOpen(r) \/ Fail(r)
  <2>1. Goto(r, "done")
    BY <1>4 DEF CommitSit, CommitSitGuest, CommitRebuy, RefuseCommit, InsertMovement, SetClosed,
         SetOpen, Fail, Finish
  <2> QED
    BY <2>1, Gone, SameLoop
<1>5. CASE CommitCashOut(r)
  <2>1. PICK pc : Goto(r, pc) /\ pc = (IF q.op = "close" THEN "next" ELSE "done")
                  /\ q.pc = "commit"
    BY <1>5 DEF CommitCashOut, At
  <2>2. CASE q.op # "close"
    BY <2>1, <2>2, Gone, SameLoop
  <2>3. CASE q.op = "close"
    <3>1. PICK z \in Sessions : z = q.session
      BY <2>1, <2>3 DEF TypeInv, RequestShape, WellFormed, OnSession
    <3>2. Ended(z)'
      <4>1. sessions'[z].status = "CASHED_OUT"
        BY <1>5, <3>1 DEF CommitCashOut, TypeInv, TypeOK, SessionRows
      <4> QED
        BY <4>1 DEF Ended
    <3>3. \A s \in q.listed \ (q.todo \cup {q.session}) : Ended(s)'
      BY <1>0, <2>1, <2>3, EndedStays DEF LoopSound
    <3>4. \A s \in q.listed \ q.todo : Ended(s)'
      BY <3>1, <3>2, <3>3
    <3> QED
      BY <2>1, <2>3, <3>4, Gone DEF LoopSound
  <2> QED
    BY <2>2, <2>3
<1>6. CASE RetryCommit(r) \/ RetryMovement(r)
  <2>1. PICK pc \in {"read", "done"} : req' = [req EXCEPT ![r].tries = @ + 1, ![r].pc = pc]
    BY <1>6 DEF RetryCommit, RetryMovement, NextAttempt
  <2>2. /\ req'[r].op = q.op /\ req'[r].session = q.session
        /\ req'[r].todo = q.todo /\ req'[r].listed = q.listed
        /\ req'[r].pc = pc /\ \A p \in Reqs \ {r} : req'[p] = req[p]
    BY <1>0, <2>1 DEF Requests
  <2>3. CASE RetryCommit(r)
    <3>1. q.pc = "commit"
      BY <2>3 DEF RetryCommit, At
    <3> QED
      BY <2>2, <3>1, SameLoop DEF Working
  <2>4. CASE RetryMovement(r)
    <3>1. q.op = "movement"
      BY <2>4 DEF RetryMovement, TypeInv, RequestShape, WellFormed
    <3> QED
      BY <2>2, <3>1 DEF LoopSound
  <2> QED
    BY <1>6, <2>3, <2>4
<1>7. CASE ApplyMovement(r)
  <2>1. Goto(r, "insert")
    BY <1>7 DEF ApplyMovement
  <2> QED
    BY <2>1, Gone, SameLoop
<1>8. CASE ListSessions(r)
  <2>1. /\ req'[r].pc = "next" /\ req'[r].todo = req'[r].listed
        /\ \A p \in Reqs \ {r} : req'[p] = req[p]
    BY <1>0, <1>8 DEF ListSessions, Requests
  <2> QED
    BY <2>1 DEF LoopSound
<1>9. CASE CloseNext(r)
  <2>1. PICK s \in q.todo :
          req' = [req EXCEPT ![r].pc = "lookup", ![r].session = s, ![r].tries = 0,
                             ![r].todo = @ \ {s}]
    BY <1>9 DEF CloseNext
  <2>2. /\ q.pc = "next" /\ req'[r].op = q.op /\ req'[r].session = s
        /\ req'[r].todo = q.todo \ {s} /\ req'[r].listed = q.listed
        /\ req'[r].pc = "lookup" /\ \A p \in Reqs \ {r} : req'[p] = req[p]
    BY <1>0, <1>9, <2>1 DEF CloseNext, Requests
  <2>3. q.op = "close" => \A z \in q.listed \ q.todo : Ended(z)'
    BY <1>0, <2>2, EndedStays DEF LoopSound
  <2> QED
    BY <2>2, <2>3 DEF LoopSound
<1> QED
  BY <1>1, <1>2, <1>3, <1>4, <1>5, <1>6, <1>7, <1>8, <1>9 DEF Proceed

\* The invariant of closing holds at the start.
LEMMA InitClosing == Init => CloseInv
<1> SUFFICES ASSUME Init
             PROVE  CloseInv
  OBVIOUS
<1>1. \A r \in Reqs : LoopSound(req[r])
  BY DEF Init, NewRequest, LoopSound
<1>2. ASSUME NEW u \in Users, NEW s \in Sessions, NEW i \in DOMAIN ledger[u]
      PROVE  ledger[u][i].key # <<"close-table", s>>
  <2>1. \/ ledger[u] = <<>>
        \/ ledger[u] = <<Entry(<<"deposit", u>>, "PIX_DEPOSIT", balance[u], balance[u], None)>>
    BY DEF Init
  <2> QED
    BY <1>2, <2>1 DEF Entry
<1> QED
  BY <1>1, <1>2 DEF CloseInv, KeysSound

\* Every step keeps it.
LEMMA NextClosing == TypeInv /\ CloseInv /\ [Next]_vars => CloseInv'
<1> SUFFICES ASSUME TypeInv, CloseInv, [Next]_vars
             PROVE  CloseInv'
  OBVIOUS
<1>1. CASE UNCHANGED vars
  <2>1. KeysSound'
    BY <1>1, UnpostedKeys DEF CloseInv, vars, walletVars
  <2>2. \A r \in Reqs : LoopSound(req[r])'
    BY <1>1, SameLoop DEF CloseInv, vars
  <2> QED
    BY <2>1, <2>2 DEF CloseInv
<1>2. ASSUME NEW t \in Tables, CreateTable(t)
      PROVE  CloseInv'
  <2>1. KeysSound'
    BY <1>2, UnpostedKeys DEF CloseInv, CreateTable, walletVars
  <2>2. \A r \in Reqs : LoopSound(req[r])'
    BY <1>2, SameLoop DEF CloseInv, CreateTable
  <2> QED
    BY <2>1, <2>2 DEF CloseInv
<1>3. ASSUME NEW r \in Reqs, Arrive(r)
      PROVE  CloseInv'
  <2>1. KeysSound'
    BY <1>3, ArriveStarts, UnpostedKeys DEF CloseInv
  <2>2. LoopSound(req[r])'
    BY <1>3, ArriveStarts, ArrivesToList DEF LoopSound
  <2>3. \A p \in Reqs \ {r} : req'[p] = req[p]
    BY <1>3, ArriveStarts
  <2>4. \A p \in Reqs \ {r} : LoopSound(req[p])'
    BY <2>3, SameLoop DEF CloseInv
  <2> QED
    BY <2>1, <2>2, <2>4 DEF CloseInv
<1>4. ASSUME NEW r \in Reqs, Proceed(r) \/ Fail(r), Next
      PROVE  CloseInv'
  <2>1. KeysSound'
    <3>1. CASE CommitSit(r) \/ CommitRebuy(r) \/ CommitCashOut(r)
      BY <1>4, <3>1, CommitKeys DEF CloseInv
    <3>2. CASE CommitSitGuest(r)
      BY <1>4, <3>2, GuestKeys DEF CloseInv
    <3>3. CASE \/ FindReplay(r) \/ ReadSession(r) \/ TakeWalletLock(r) \/ RetryCommit(r)
               \/ RefuseCommit(r) \/ ApplyMovement(r) \/ RetryMovement(r) \/ InsertMovement(r)
               \/ ListSessions(r) \/ CloseNext(r) \/ SetClosed(r) \/ SetOpen(r) \/ Fail(r)
      <4>1. UNCHANGED ledger
        BY <3>3 DEF FindReplay, ReadSession, TakeWalletLock, RetryCommit, RefuseCommit,
             ApplyMovement, RetryMovement, InsertMovement, ListSessions, CloseNext, SetClosed,
             SetOpen, Fail, LockWallet, walletVars
      <4> QED
        BY <4>1, UnpostedKeys DEF CloseInv
    <3> QED
      BY <1>4, <3>1, <3>2, <3>3 DEF Proceed
  <2>2. LoopSound(req[r])' /\ \A p \in Reqs \ {r} : req'[p] = req[p]
    BY <1>4, LoopStep DEF CloseInv
  <2>3. \A p \in Reqs \ {r} : LoopSound(req[p])'
    BY <2>2, SameLoop DEF CloseInv
  <2> QED
    BY <2>1, <2>2, <2>3 DEF CloseInv
<1> QED
  BY <1>1, <1>2, <1>3, <1>4 DEF Next

\* A closing that goes on has cashed out every session it listed so far, or found its
\* own earlier payment; it never closes over a listed player (closeTable).
THEOREM ClosingSettles == Spec => []ClosingSettlesWhatItListed
<1>1. TypeInv /\ CloseInv => ClosingSettlesWhatItListed
  BY DEF CloseInv, LoopSound, ClosingSettlesWhatItListed, Ended
<1> QED
  BY <1>1, InitTyped, NextTyped, InitClosing, NextClosing, PTL DEF Spec

-----------------------------------------------------------------------------
(* The books.                                                              *)

\* One more entry in a ledger.
LEMMA BroughtInGrows ==
  ASSUME NEW entries \in Seq(Entries), NEW e \in Entries
  PROVE  /\ BroughtIn(entries) \in Int
         /\ BroughtIn(Append(entries, e))
              = BroughtIn(entries) + (IF e.session = None THEN e.amount ELSE 0)
<1> DEFINE longer == Append(entries, e)
           n == Len(entries)
           own == OwnEntries(entries)
           f == [i \in DOMAIN entries |-> entries[i].amount]
           g == [i \in DOMAIN longer |-> longer[i].amount]
<1>1. /\ n \in Nat /\ DOMAIN longer = 1 .. n + 1 /\ DOMAIN entries = 1 .. n
      /\ longer[n + 1] = e /\ \A i \in 1 .. n : longer[i] = entries[i]
      /\ \A i \in 1 .. n : entries[i] \in Entries
  OBVIOUS
<1>2. own \subseteq 1 .. n /\ IsFiniteSet(own)
  <2>1. own \subseteq 1 .. n
    BY <1>1 DEF OwnEntries
  <2>2. IsFiniteSet(1 .. n)
    BY <1>1, FS_Interval
  <2> QED
    BY <2>1, <2>2, FS_Subset
<1>3. /\ \A i \in own : f[i] \in Int /\ f[i] = g[i]
      /\ g[n + 1] = e.amount /\ e.amount \in Int
  BY <1>1, <1>2 DEF Entries
<1>4. OwnEntries(longer) = IF e.session = None THEN own \cup {n + 1} ELSE own
  BY <1>1 DEF OwnEntries
<1>5. n + 1 \notin own
  BY <1>1, <1>2
<1>6. BroughtIn(entries) = SumFunctionOnSet(f, own)
  BY DEF BroughtIn
<1>7. BroughtIn(longer) = SumFunctionOnSet(g, OwnEntries(longer))
  BY DEF BroughtIn
<1> HIDE DEF longer, n, own, f, g
<1>8. SumFunctionOnSet(f, own) \in Int
  BY <1>2, <1>3, SumType
<1>9. SumFunctionOnSet(f, own) = SumFunctionOnSet(g, own)
  BY <1>2, <1>3, SumSame
<1>10. SumFunctionOnSet(g, own \cup {n + 1}) = SumFunctionOnSet(g, own) + g[n + 1]
  <2>1. \A i \in own : g[i] \in Int
    BY <1>3
  <2>2. IsFiniteSet(own) /\ n + 1 \notin own /\ g[n + 1] \in Int
    BY <1>2, <1>3, <1>5
  <2> QED
    BY ONLY <2>1, <2>2, SumAdd, SMT
<1>11. BroughtIn(longer) = BroughtIn(entries) + (IF e.session = None THEN e.amount ELSE 0)
  <2>1. CASE e.session = None
    BY <1>3, <1>4, <1>6, <1>7, <1>9, <1>10, <2>1
  <2>2. CASE e.session # None
    BY <1>4, <1>6, <1>7, <1>8, <1>9, <2>2
  <2> QED
    BY <2>1, <2>2
<1> QED
  BY <1>6, <1>8, <1>11 DEF longer

\* What a ledger brought in is an integer.
LEMMA BroughtInTyped ==
  ASSUME NEW entries \in Seq(Entries)
  PROVE  BroughtIn(entries) \in Int
<1>1. CASE Entries = {}
  <2>1. OwnEntries(entries) = {}
    BY <1>1 DEF OwnEntries
  <2> QED
    BY <2>1, SumEmpty DEF BroughtIn
<1>2. CASE Entries # {}
  BY <1>2, BroughtInGrows
<1> QED
  BY <1>1, <1>2

\* A posting moves the balance by its amount, and by the standby credit it brings in.
LEMMA PostingBrought ==
  ASSUME NEW entries \in Seq(Entries), NEW bal \in Nat, NEW amount \in Int,
         NEW type \in EntryTypes, NEW key \in DirectKeys, NEW session \in Sessions
  PROVE  NewBalance(bal, amount)
           - BroughtIn(entries \o Postings(bal, amount, type, key, session))
           = bal + amount - BroughtIn(entries)
<1> DEFINE entry == Entry(key, type, amount, NewBalance(bal, amount), session)
           topUp == Entry(TopUpKey(key), "ADJUSTMENT", -(bal + amount), -amount, None)
<1>1. entry \in Entries /\ entry.session # None
  BY CashTableConstants DEF Entry, Entries, LedgerKeys, NewBalance, Overdraws
<1>2. CASE ~Overdraws(bal, amount)
  <2>1. Postings(bal, amount, type, key, session) = <<entry>>
    BY <1>2 DEF Postings
  <2> HIDE DEF entry, topUp
  <2>2. entries \o <<entry>> = Append(entries, entry)
    BY <1>1
  <2>3. /\ BroughtIn(entries) \in Int
        /\ BroughtIn(Append(entries, entry)) = BroughtIn(entries)
    BY <1>1, BroughtInGrows
  <2>4. BroughtIn(entries \o Postings(bal, amount, type, key, session)) = BroughtIn(entries)
    BY <2>1, <2>2, <2>3, Zenon
  <2> QED
    BY <1>2, <2>3, <2>4 DEF NewBalance
<1>3. CASE Overdraws(bal, amount)
  <2>1. Postings(bal, amount, type, key, session) = <<topUp, entry>>
    BY <1>3 DEF Postings
  <2>2. topUp \in Entries /\ topUp.session = None /\ topUp.amount = -(bal + amount)
    BY <1>3 DEF Entry, Entries, LedgerKeys, TopUpKey, Overdraws, EntryTypes
  <2> HIDE DEF entry, topUp
  <2>3. entries \o <<topUp, entry>> = Append(Append(entries, topUp), entry)
    BY <1>1, <2>2
  <2>4. /\ BroughtIn(entries) \in Int
        /\ BroughtIn(Append(entries, topUp)) = BroughtIn(entries) - (bal + amount)
    BY <2>2, BroughtInGrows
  <2>5. BroughtIn(Append(Append(entries, topUp), entry)) = BroughtIn(Append(entries, topUp))
    <3>1. Append(entries, topUp) \in Seq(Entries)
      BY <2>2
    <3>2. BroughtIn(Append(entries, topUp)) \in Int
      BY <2>4
    <3>3. BroughtIn(Append(Append(entries, topUp), entry)) = BroughtIn(Append(entries, topUp)) + 0
      BY <1>1, <3>1, BroughtInGrows
    <3> QED
      BY <3>2, <3>3
  <2>6. BroughtIn(entries \o Postings(bal, amount, type, key, session))
          = BroughtIn(entries) - (bal + amount)
    BY <2>1, <2>3, <2>4, <2>5, Zenon
  <2> QED
    BY <1>3, <2>4, <2>6 DEF NewBalance
<1> QED
  BY <1>2, <1>3

\* What the clube holds beyond what was brought in.
Net == SumFunctionOnSet(balance, Users) - Injected

\* The sums of the books are integers.
LEMMA BooksTyped ==
  ASSUME TypeInv
  PROVE  /\ SumFunctionOnSet(balance, Users) \in Int /\ Injected \in Int /\ Net \in Int
         /\ SumFunctionOnSet(Chips, Sessions) \in Int
         /\ SumFunctionOnSet(results, Sessions) \in Int
         /\ \A u \in Users : BroughtIn(ledger[u]) \in Int
<1>1. \A u \in Users : BroughtIn(ledger[u]) \in Int
  BY BroughtInTyped DEF TypeInv, TypeOK
<1>2. Injected \in Int
  <2> DEFINE f == [u \in Users |-> BroughtIn(ledger[u])]
  <2>1. \A u \in Users : f[u] \in Int
    BY <1>1
  <2>2. Injected = SumFunctionOnSet(f, Users)
    BY DEF Injected
  <2> HIDE DEF f
  <2> QED
    BY <2>1, <2>2, BooksConstants, SumType
<1>3. SumFunctionOnSet(balance, Users) \in Int
  <2>1. \A u \in Users : balance[u] \in Int
    BY DEF TypeInv, TypeOK
  <2> QED
    BY <2>1, BooksConstants, SumType
<1>4. SumFunctionOnSet(Chips, Sessions) \in Int
  <2>1. \A s \in Sessions : Chips[s] \in Int
    BY DEF TypeInv, TypeOK, SessionRows, Chips
  <2> QED
    BY <2>1, BooksConstants, SumType
<1>5. SumFunctionOnSet(results, Sessions) \in Int
  <2>1. \A s \in Sessions : results[s] \in Int
    BY DEF TypeInv, TypeOK
  <2> QED
    BY <2>1, BooksConstants, SumType
<1> QED
  BY <1>1, <1>2, <1>3, <1>4, <1>5 DEF Net

\* The same after a step.
LEMMA BooksTypedNext ==
  ASSUME TypeInv'
  PROVE  SumFunctionOnSet(balance, Users)' \in Int /\ Injected' \in Int
<1> DEFINE f == [u \in Users |-> BroughtIn(ledger'[u])]
<1>1. \A u \in Users : balance'[u] \in Int
  BY DEF TypeInv, TypeOK
<1>2. \A u \in Users : f[u] \in Int
  BY BroughtInTyped DEF TypeInv, TypeOK
<1>3. Injected' = SumFunctionOnSet(f, Users)
  BY DEF Injected
<1>4. IsFiniteSet(Users)
  BY BooksConstants
<1> HIDE DEF f
<1> QED
  BY <1>1, <1>2, <1>3, <1>4, SumType

\* One wallet changes.
LEMMA OneWalletChanges ==
  ASSUME TypeInv, TypeInv', NEW u \in Users,
         \A v \in Users \ {u} : balance'[v] = balance[v] /\ ledger'[v] = ledger[v]
  PROVE  Net' = Net + balance'[u] - balance[u] + BroughtIn(ledger[u]) - BroughtIn(ledger'[u])
<1> DEFINE f == [v \in Users |-> BroughtIn(ledger[v])]
           g == [v \in Users |-> BroughtIn(ledger'[v])]
<1>1. \A v \in Users : BroughtIn(ledger[v]) \in Int /\ BroughtIn(ledger'[v]) \in Int
  BY BroughtInTyped DEF TypeInv, TypeOK
<1>2. \A v \in Users : f[v] \in Int /\ g[v] \in Int /\ (v # u => g[v] = f[v])
  BY <1>1
<1>8. \A v \in Users : balance[v] \in Int /\ balance'[v] \in Int /\ (v # u => balance'[v] = balance[v])
  BY DEF TypeInv, TypeOK
<1>9. IsFiniteSet(Users)
  BY BooksConstants
<1>3. Injected = SumFunctionOnSet(f, Users) /\ Injected' = SumFunctionOnSet(g, Users)
  BY DEF Injected
<1>4. f[u] = BroughtIn(ledger[u]) /\ g[u] = BroughtIn(ledger'[u])
  OBVIOUS
<1> HIDE DEF f, g
<1>5. SumFunctionOnSet(g, Users) = SumFunctionOnSet(f, Users) - f[u] + g[u]
  BY ONLY <1>2, <1>9, SumChange, SMT
<1>6. SumFunctionOnSet(balance', Users) = SumFunctionOnSet(balance, Users) - balance[u] + balance'[u]
  BY ONLY <1>8, <1>9, SumChange, SMT
<1>7. SumFunctionOnSet(balance, Users) \in Int /\ Injected \in Int
  BY BooksTyped
<1> QED
  BY <1>2, <1>3, <1>4, <1>5, <1>6, <1>7, <1>8 DEF Net

\* One stack changes.
LEMMA OneStackChanges ==
  ASSUME TypeInv, TypeInv', NEW s \in Sessions,
         \A z \in Sessions \ {s} : sessions'[z] = sessions[z]
  PROVE  SumFunctionOnSet(Chips, Sessions)'
           = SumFunctionOnSet(Chips, Sessions) - sessions[s].stack + sessions'[s].stack
<1>1. \A z \in Sessions : Chips[z] \in Int /\ Chips'[z] \in Int /\ (z # s => Chips'[z] = Chips[z])
  <2>1. \A z \in Sessions : sessions[z] \in SessionRows /\ sessions'[z] \in SessionRows
    BY DEF TypeInv, TypeOK
  <2>2. \A row \in SessionRows : row.stack \in Int
    BY DEF SessionRows
  <2> QED
    BY <2>1, <2>2 DEF Chips
<1>2. Chips[s] = sessions[s].stack /\ Chips'[s] = sessions'[s].stack
  BY DEF Chips
<1>3. SumFunctionOnSet(Chips', Sessions)
        = SumFunctionOnSet(Chips, Sessions) - Chips[s] + Chips'[s]
  <2>1. IsFiniteSet(Sessions)
    BY BooksConstants
  <2> QED
    BY ONLY <1>1, <2>1, SumChange, SMT
<1> QED
  BY <1>2, <1>3

\* Only the transactions and recordMovement touch a balance, a ledger, a session or
\* the results.
LEMMA OtherSteps ==
  ASSUME TypeInv, [Next]_vars,
         ~ \E r \in Reqs : CommitSit(r) \/ CommitSitGuest(r) \/ CommitRebuy(r)
                             \/ CommitCashOut(r) \/ ApplyMovement(r)
  PROVE  /\ UNCHANGED <<balance, ledger, sessions, results>>
         /\ \/ UNCHANGED movements
            \/ \E r \in Reqs : InsertMovement(r)
<1>1. ASSUME NEW r \in Reqs, Arrive(r)
      PROVE  UNCHANGED <<balance, ledger, sessions, results, movements>>
  BY <1>1, ArriveStarts
<1>2. ASSUME NEW r \in Reqs,
             \/ FindReplay(r) \/ ReadSession(r) \/ TakeWalletLock(r) \/ RetryCommit(r)
             \/ RefuseCommit(r) \/ RetryMovement(r) \/ ListSessions(r)
             \/ CloseNext(r) \/ SetClosed(r) \/ SetOpen(r) \/ Fail(r)
      PROVE  UNCHANGED <<balance, ledger, sessions, results, movements>>
  BY <1>2 DEF FindReplay, ReadSession, TakeWalletLock, LockWallet, RetryCommit, RefuseCommit,
              RetryMovement, ListSessions, CloseNext, SetClosed, SetOpen, Fail,
              walletVars, tableVars
<1>3. ASSUME NEW r \in Reqs, InsertMovement(r)
      PROVE  UNCHANGED <<balance, ledger, sessions, results>>
  BY <1>3 DEF InsertMovement, walletVars
<1>4. ASSUME NEW t \in Tables, CreateTable(t)
      PROVE  UNCHANGED <<balance, ledger, sessions, results, movements>>
  BY <1>4 DEF CreateTable, walletVars
<1>5. CASE UNCHANGED vars
  BY <1>5 DEF vars, walletVars, tableVars
<1> QED
  BY <1>1, <1>2, <1>3, <1>4, <1>5 DEF Next, Proceed

\* The commit of a seat, a re-buy or a cash-out, as the books see it: one posting
\* on one wallet for one session, under the row lock, and the session's columns.
Posted(q, u, s, amount) ==
  /\ u \in Users /\ s \in Sessions /\ amount \in Int
  /\ \E type \in EntryTypes :
       /\ ledger' = [ledger EXCEPT ![u] =
            ledger[u] \o Postings(balance[u], amount, type, LedgerKey(q), s)]
       /\ balance' = [balance EXCEPT ![u] = NewBalance(balance[u], amount)]
  /\ LedgerKey(q) \in DirectKeys /\ KeyUnused(LedgerKey(q))
  /\ \E reason, after : movements' =
       [movements EXCEPT ![s] = Append(movements[s], Movement(q, -amount, reason, after))]
  /\ \A z \in Sessions \ {s} : sessions'[z] = sessions[z]
  /\ sessions'[s].stack = sessions[s].stack - amount
  /\ sessions'[s].cashed - sessions'[s].bought = sessions[s].cashed - sessions[s].bought + amount
  /\ UNCHANGED results

\* sitAtTable posts the buy-in.
LEMMA SitPosts ==
  ASSUME TypeInv, LockInv, NEW r \in Reqs, CommitSit(r)
  PROVE  \E s \in Sessions : Posted(req[r], req[r].user, s, -req[r].amount)
<1> DEFINE q == req[r]
           u == q.user
<1>1. q.amount \in Nat /\ u \in Users
  <2>1. q.pc = "commit" /\ q.op = "sit"
    BY DEF CommitSit, At
  <2>2. q.amount \in BuyIns /\ u \in wallets
    BY <2>1 DEF TypeInv, RequestShape, WellFormed
  <2> QED
    BY <2>2, CashTableConstants DEF TypeInv, TypeOK
<1>2. q.bal = balance[u] /\ LedgerKey(q) \in DirectKeys
  <2>1. q.bal = balance[u]
    BY DEF CommitSit, At, LockInv, Holders, Holder, Payer
  <2> QED
    BY <2>1, LedgerKeyTyped DEF CommitSit, At
<1>3. PICK s \in Sessions :
        /\ TakeSeat(q, u, s)
        /\ ApplyLedgerEntry(u, q.bal, -q.amount, "TABLE_BUY_IN", LedgerKey(q), s)
  BY DEF CommitSit
<1>4. /\ sessions[s] = NoSession
      /\ sessions' = [sessions EXCEPT ![s] = Seated(q, u)]
      /\ movements' = [movements EXCEPT ![s] =
           Append(movements[s], Movement(q, q.amount, "BUY_IN", q.amount))]
  BY <1>3 DEF TakeSeat, TypeInv, TypeOK, SessionShape, Exists
<1>5. /\ ledger' = [ledger EXCEPT ![u] =
           ledger[u] \o Postings(balance[u], -q.amount, "TABLE_BUY_IN", LedgerKey(q), s)]
      /\ balance' = [balance EXCEPT ![u] = NewBalance(balance[u], -q.amount)]
      /\ "TABLE_BUY_IN" \in EntryTypes
  BY <1>1, <1>2, <1>3 DEF ApplyLedgerEntry, EntryTypes, TypeInv, TypeOK
<1>6. KeyUnused(LedgerKey(q)) /\ UNCHANGED results
  BY DEF CommitSit, Postable
<1>7. -(-q.amount) = q.amount /\ -q.amount \in Int
  BY <1>1
<1>8. \E reason, after : movements' =
        [movements EXCEPT ![s] = Append(movements[s], Movement(q, -(-q.amount), reason, after))]
  BY <1>4, <1>7
<1>9. \A z \in Sessions \ {s} : sessions'[z] = sessions[z]
  BY <1>4 DEF TypeInv, TypeOK
<1>10. /\ sessions'[s].stack = q.amount /\ sessions'[s].bought = q.amount
       /\ sessions'[s].cashed = 0
       /\ sessions[s].stack = 0 /\ sessions[s].bought = 0 /\ sessions[s].cashed = 0
  BY <1>4 DEF NoSession, Seated, TypeInv, TypeOK
<1>11. /\ sessions'[s].stack = sessions[s].stack - (-q.amount)
       /\ sessions'[s].cashed - sessions'[s].bought
            = sessions[s].cashed - sessions[s].bought + (-q.amount)
  BY <1>1, <1>10
<1> QED
  BY <1>1, <1>2, <1>5, <1>6, <1>7, <1>8, <1>9, <1>11 DEF Posted

\* rebuy and doCashOut post on the session they read.
LEMMA RowPosts ==
  ASSUME TypeInv, VersionInv, LockInv, NEW r \in Reqs, CommitRebuy(r) \/ CommitCashOut(r)
  PROVE  LET q == req[r]
         IN  Posted(q, Payer(q), q.session, IF q.op = "rebuy" THEN -q.amount ELSE q.stack)
<1> DEFINE q == req[r]
           s == q.session
           u == Payer(q)
<1>1. /\ q \in Requests /\ s \in Sessions /\ q.op \notin Seating /\ q.pc = "commit"
      /\ CommitRebuy(r) => q.op = "rebuy"
      /\ CommitCashOut(r) => q.op # "rebuy"
  BY DEF TypeInv, TypeOK, RequestShape, WellFormed, OnSession, CommitRebuy, CommitCashOut,
         At, CashOps, Seating
<1>2. Active(s) /\ q.stack = sessions[s].stack
  <2>1. SameVersion(q) /\ Snapshot(q)
    BY DEF CommitRebuy, CommitCashOut, VersionInv, Snapshots
  <2> QED
    BY <1>1, <2>1 DEF Snapshot, SameVersion, Holding
<1>3. sessions \in [Sessions -> SessionRows] /\ q.stack \in Nat /\ q.amount \in Int
  BY <1>1 DEF TypeInv, TypeOK, Requests
<1>4. q.bal = balance[u] /\ LedgerKey(q) \in DirectKeys /\ u \in Users
  <2>1. q.op # "sitGuest"
    BY <1>1 DEF Seating
  <2> QED
    BY <1>1, <2>1, LedgerKeyTyped, PayerTyped DEF LockInv, Holders, Holder, TypeInv, TypeOK
<1>5. {"TABLE_BUY_IN", "TABLE_CASH_OUT"} \subseteq EntryTypes
  BY DEF EntryTypes
<1>6. CASE CommitRebuy(r)
  <2>1. /\ ledger' = [ledger EXCEPT ![u] =
             ledger[u] \o Postings(balance[u], -q.amount, "TABLE_BUY_IN", LedgerKey(q), s)]
        /\ balance' = [balance EXCEPT ![u] = NewBalance(balance[u], -q.amount)]
    BY <1>4, <1>6 DEF CommitRebuy, ApplyLedgerEntry, TypeInv, TypeOK
  <2>2. KeyUnused(LedgerKey(q)) /\ UNCHANGED results
    BY <1>6 DEF CommitRebuy, Postable
  <2>3. -(-q.amount) = q.amount /\ -q.amount \in Int
    BY <1>3
  <2>4. \E reason, after : movements' =
          [movements EXCEPT ![s] = Append(movements[s], Movement(q, -(-q.amount), reason, after))]
    BY <1>1, <1>6, <2>3 DEF CommitRebuy, TypeInv, TypeOK
  <2>5. /\ \A z \in Sessions \ {s} : sessions'[z] = sessions[z]
        /\ sessions'[s].stack = q.stack + q.amount
        /\ sessions'[s].bought = sessions[s].bought + q.amount
        /\ sessions'[s].cashed = sessions[s].cashed
    <3>1. sessions' = [sessions EXCEPT ![s].stack = q.stack + q.amount,
                                       ![s].bought = @ + q.amount, ![s].version = @ + 1]
      BY <1>6 DEF CommitRebuy
    <3> QED
      BY <1>1, <1>3, <3>1 DEF SessionRows
  <2>6. sessions[s].bought \in Nat /\ sessions[s].cashed \in Nat
    BY <1>1, <1>3 DEF SessionRows
  <2>7. /\ sessions'[s].stack = sessions[s].stack - (-q.amount)
        /\ sessions'[s].cashed - sessions'[s].bought
             = sessions[s].cashed - sessions[s].bought + (-q.amount)
    BY <1>2, <1>3, <2>5, <2>6
  <2>8. Posted(q, u, s, -q.amount)
    BY <1>1, <1>4, <1>5, <2>1, <2>2, <2>3, <2>4, <2>5, <2>7 DEF Posted
  <2> QED
    BY <1>1, <1>6, <2>8
<1>7. CASE CommitCashOut(r)
  <2>1. /\ ledger' = [ledger EXCEPT ![u] =
             ledger[u] \o Postings(balance[u], q.stack, "TABLE_CASH_OUT", LedgerKey(q), s)]
        /\ balance' = [balance EXCEPT ![u] = NewBalance(balance[u], q.stack)]
    BY <1>4, <1>7 DEF CommitCashOut, ApplyLedgerEntry, TypeInv, TypeOK
  <2>2. KeyUnused(LedgerKey(q)) /\ UNCHANGED results
    BY <1>7 DEF CommitCashOut, Postable
  <2>3. q.stack \in Int
    BY <1>3
  <2>4. \E reason, after : movements' =
          [movements EXCEPT ![s] = Append(movements[s], Movement(q, -q.stack, reason, after))]
    BY <1>1, <1>7 DEF CommitCashOut, TypeInv, TypeOK
  <2>5. /\ \A z \in Sessions \ {s} : sessions'[z] = sessions[z]
        /\ sessions'[s].stack = 0
        /\ sessions'[s].bought = sessions[s].bought
        /\ sessions'[s].cashed = sessions[s].cashed + q.stack
    <3>1. sessions' = [sessions EXCEPT ![s].status = "CASHED_OUT", ![s].stack = 0,
                                       ![s].cashed = @ + q.stack, ![s].version = @ + 1]
      BY <1>7 DEF CommitCashOut
    <3> QED
      BY <1>1, <1>3, <3>1 DEF SessionRows
  <2>6. sessions[s].bought \in Nat /\ sessions[s].cashed \in Nat
    BY <1>1, <1>3 DEF SessionRows
  <2>7. /\ sessions'[s].stack = sessions[s].stack - q.stack
        /\ sessions'[s].cashed - sessions'[s].bought
             = sessions[s].cashed - sessions[s].bought + q.stack
    BY <1>2, <1>3, <2>5, <2>6
  <2>8. Posted(q, u, s, q.stack)
    BY <1>1, <1>4, <1>5, <2>1, <2>2, <2>3, <2>4, <2>5, <2>7 DEF Posted
  <2> QED
    BY <1>1, <1>7, <2>8
<1> QED
  BY <1>6, <1>7

\* A posting leaves the money of the clube and its tables as it is.
LEMMA PostedKeepsMoney ==
  ASSUME TypeInv, TypeInv', MoneyConserved, NEW q, NEW u, NEW s, NEW amount,
         Posted(q, u, s, amount)
  PROVE  MoneyConserved'
<1>1. PICK type \in EntryTypes :
        /\ ledger' = [ledger EXCEPT ![u] =
             ledger[u] \o Postings(balance[u], amount, type, LedgerKey(q), s)]
        /\ balance' = [balance EXCEPT ![u] = NewBalance(balance[u], amount)]
  BY DEF Posted
<1>2. u \in Users /\ s \in Sessions /\ amount \in Int /\ LedgerKey(q) \in DirectKeys
  BY DEF Posted
<1>3. balance[u] \in Nat /\ ledger[u] \in Seq(Entries)
  BY <1>2 DEF TypeInv, TypeOK
<1>4. /\ ledger'[u] = ledger[u] \o Postings(balance[u], amount, type, LedgerKey(q), s)
      /\ balance'[u] = NewBalance(balance[u], amount)
      /\ \A v \in Users \ {u} : balance'[v] = balance[v] /\ ledger'[v] = ledger[v]
  BY <1>1, <1>2 DEF TypeInv, TypeOK
<1>5. balance'[u] - BroughtIn(ledger'[u]) = balance[u] + amount - BroughtIn(ledger[u])
  <2>1. NewBalance(balance[u], amount)
          - BroughtIn(ledger[u] \o Postings(balance[u], amount, type, LedgerKey(q), s))
          = balance[u] + amount - BroughtIn(ledger[u])
    BY <1>2, <1>3, PostingBrought
  <2> QED
    BY <1>4, <2>1, Zenon
<1>6. Net' = Net + balance'[u] - balance[u] + BroughtIn(ledger[u]) - BroughtIn(ledger'[u])
  BY <1>2, <1>4, OneWalletChanges
<1>7. /\ Net \in Int /\ BroughtIn(ledger[u]) \in Int /\ BroughtIn(ledger'[u]) \in Int
      /\ balance[u] \in Int /\ balance'[u] \in Int
  <2>1. ledger'[u] \in Seq(Entries) /\ balance'[u] \in Nat
    BY <1>2 DEF TypeInv, TypeOK
  <2> QED
    BY <1>2, <1>3, <2>1, BooksTyped, BroughtInTyped
<1>8. Net' = Net + amount
  BY <1>2, <1>5, <1>6, <1>7
<1>9. SumFunctionOnSet(Chips, Sessions)'
        = SumFunctionOnSet(Chips, Sessions) - sessions[s].stack + sessions'[s].stack
  BY <1>2, OneStackChanges DEF Posted
<1>10. sessions'[s].stack = sessions[s].stack - amount /\ UNCHANGED results
       /\ sessions[s].stack \in Int
  BY <1>2 DEF Posted, TypeInv, TypeOK, SessionRows
<1>11. SumFunctionOnSet(Chips, Sessions)' = SumFunctionOnSet(Chips, Sessions) - amount
  BY <1>2, <1>9, <1>10, BooksTyped
<1>12. Net' = SumFunctionOnSet(balance, Users)' - Injected'
  BY DEF Net
<1>13. SumFunctionOnSet(results, Sessions)' = SumFunctionOnSet(results, Sessions)
  BY <1>10
<1>14. /\ SumFunctionOnSet(balance, Users)' \in Int /\ Injected' \in Int
  BY BooksTypedNext
<1> QED
  BY <1>2, <1>8, <1>11, <1>12, <1>13, <1>14, BooksTyped DEF MoneyConserved, Net

\* A walk-in's commit, as the books see it: the cash and the buy-in, and the session.
GuestPosted(q, g, s) ==
  /\ g \in Users /\ s \in Sessions /\ q.amount \in Nat /\ q.key \in Keys
  /\ balance[g] = 0 /\ ledger[g] = <<>>
  /\ ledger' = [ledger EXCEPT ![g] =
       <<Entry(<<"guest-cash-in", q.key>>, "ADJUSTMENT", q.amount, q.amount, None)>>
       \o Postings(q.amount, -q.amount, "TABLE_BUY_IN", LedgerKey(q), s)]
  /\ UNCHANGED balance
  /\ LedgerKey(q) \in DirectKeys /\ KeyUnused(LedgerKey(q))
  /\ movements' = [movements EXCEPT ![s] =
       Append(movements[s], Movement(q, q.amount, "BUY_IN", q.amount))]
  /\ \A z \in Sessions \ {s} : sessions'[z] = sessions[z]
  /\ sessions[s] = NoSession
  /\ sessions'[s].stack = q.amount /\ sessions'[s].bought = q.amount
  /\ sessions'[s].cashed = 0
  /\ UNCHANGED results

\* sitGuestAtTable posts the cash and the buy-in.
LEMMA GuestPosts ==
  ASSUME TypeInv, LockInv, NEW r \in Reqs, CommitSitGuest(r)
  PROVE  \E g \in Users, s \in Sessions : GuestPosted(req[r], g, s)
<1> DEFINE q == req[r]
           cashKey == <<"guest-cash-in", q.key>>
<1>1. q.pc = "commit" /\ q.op = "sitGuest" /\ q.key \in Keys /\ q.amount \in Nat
  BY CashTableConstants DEF TypeInv, RequestShape, CommitSitGuest, At, WellFormed
<1>2. PICK g \in Guests \ wallets, s \in Sessions :
        /\ TakeSeat(q, g, s)
        /\ ledger' = [ledger EXCEPT ![g] =
             Postings(0, q.amount, "ADJUSTMENT", cashKey, None)
             \o Postings(q.amount, -q.amount, "TABLE_BUY_IN", LedgerKey(q), s)]
  BY DEF CommitSitGuest
<1>3. g \in Users /\ balance[g] = 0 /\ ledger[g] = <<>>
  BY <1>2, CashTableConstants DEF LockInv, NoWalletNoMoney
<1>4. Postings(0, q.amount, "ADJUSTMENT", cashKey, None)
        = <<Entry(cashKey, "ADJUSTMENT", q.amount, q.amount, None)>>
  BY <1>1 DEF Postings, Overdraws, NewBalance
<1>5. KeyUnused(LedgerKey(q)) /\ UNCHANGED <<balance, results>> /\ LedgerKey(q) \in DirectKeys
  BY <1>1, LedgerKeyTyped DEF CommitSitGuest, Postable
<1>6. /\ sessions[s] = NoSession
      /\ sessions' = [sessions EXCEPT ![s] = Seated(q, g)]
      /\ movements' = [movements EXCEPT ![s] =
           Append(movements[s], Movement(q, q.amount, "BUY_IN", q.amount))]
  BY <1>2 DEF TakeSeat, TypeInv, TypeOK, SessionShape, Exists
<1>7. /\ \A z \in Sessions \ {s} : sessions'[z] = sessions[z]
      /\ sessions'[s].stack = q.amount /\ sessions'[s].bought = q.amount
      /\ sessions'[s].cashed = 0
  BY <1>6 DEF Seated, TypeInv, TypeOK
<1> QED
  BY <1>1, <1>2, <1>3, <1>4, <1>5, <1>6, <1>7 DEF GuestPosted

\* The cash a walk-in pays is brought in, and is what he has in front of him.
LEMMA GuestKeepsMoney ==
  ASSUME TypeInv, TypeInv', MoneyConserved, NEW q, NEW g, NEW s, GuestPosted(q, g, s)
  PROVE  MoneyConserved'
<1> DEFINE cash == Entry(<<"guest-cash-in", q.key>>, "ADJUSTMENT", q.amount, q.amount, None)
           buyIn == Postings(q.amount, -q.amount, "TABLE_BUY_IN", LedgerKey(q), s)
<1>1. /\ g \in Users /\ s \in Sessions /\ q.amount \in Nat /\ q.key \in Keys
      /\ LedgerKey(q) \in DirectKeys /\ UNCHANGED <<balance, results>>
  BY DEF GuestPosted
<1>2. cash \in Entries /\ cash.session = None /\ cash.amount = q.amount
  BY <1>1 DEF Entry, Entries, LedgerKeys, DirectKeys, EntryTypes
<1>3. /\ ledger'[g] = <<cash>> \o buyIn /\ ledger[g] = <<>>
      /\ \A v \in Users \ {g} : balance'[v] = balance[v] /\ ledger'[v] = ledger[v]
  BY <1>1 DEF GuestPosted, TypeInv, TypeOK
<1> HIDE DEF cash
<1>4. BroughtIn(<<>>) = 0
  <2>1. OwnEntries(<<>>) = {}
    BY DEF OwnEntries
  <2> QED
    BY <2>1, SumEmpty DEF BroughtIn
<1>5. BroughtIn(<<cash>>) = q.amount
  <2>1. <<>> \in Seq(Entries) /\ Append(<<>>, cash) = <<cash>>
    BY <1>2
  <2>2. BroughtIn(Append(<<>>, cash)) = BroughtIn(<<>>) + q.amount
    BY <1>2, <2>1, BroughtInGrows
  <2> QED
    BY <1>1, <1>4, <2>1, <2>2
<1>6. BroughtIn(<<cash>> \o buyIn) = q.amount
  <2>1. NewBalance(q.amount, -q.amount) = 0 /\ -q.amount \in Int /\ "TABLE_BUY_IN" \in EntryTypes
    BY <1>1 DEF NewBalance, Overdraws, EntryTypes
  <2>2. <<cash>> \in Seq(Entries)
    BY <1>2
  <2>3. NewBalance(q.amount, -q.amount) - BroughtIn(<<cash>> \o buyIn)
          = q.amount + (-q.amount) - BroughtIn(<<cash>>)
    BY <1>1, <2>1, <2>2, PostingBrought
  <2>4. BroughtIn(<<cash>> \o buyIn) \in Int
    <3>1. ledger'[g] \in Seq(Entries)
      BY <1>1 DEF TypeInv, TypeOK
    <3> QED
      BY <1>3, <3>1, BroughtInTyped, Zenon
  <2> HIDE DEF buyIn
  <2> QED
    BY <1>1, <1>5, <2>1, <2>3, <2>4
<1>7. Net' = Net - q.amount
  <2>1. Net' = Net + balance'[g] - balance[g] + BroughtIn(ledger[g]) - BroughtIn(ledger'[g])
    BY <1>1, <1>3, OneWalletChanges
  <2>2. BroughtIn(ledger[g]) = 0 /\ BroughtIn(ledger'[g]) = q.amount
    BY <1>3, <1>4, <1>6, Zenon
  <2>3. balance[g] \in Int /\ Net \in Int
    BY <1>1, BooksTyped DEF TypeInv, TypeOK
  <2> QED
    BY <1>1, <2>1, <2>2, <2>3
<1>8. SumFunctionOnSet(Chips, Sessions)' = SumFunctionOnSet(Chips, Sessions) + q.amount
  <2>1. SumFunctionOnSet(Chips, Sessions)'
          = SumFunctionOnSet(Chips, Sessions) - sessions[s].stack + sessions'[s].stack
    BY <1>1, OneStackChanges DEF GuestPosted
  <2>2. sessions[s].stack = 0 /\ sessions'[s].stack = q.amount
    BY DEF GuestPosted, NoSession
  <2> QED
    BY <1>1, <2>1, <2>2, BooksTyped
<1>9. SumFunctionOnSet(results, Sessions)' = SumFunctionOnSet(results, Sessions)
  BY <1>1
<1>10. Net' = SumFunctionOnSet(balance, Users)' - Injected'
  BY DEF Net
<1> QED
  BY <1>1, <1>7, <1>8, <1>9, <1>10, BooksTyped, BooksTypedNext DEF MoneyConserved, Net

\* A hand result changes one stack and the results alike.
LEMMA ResultKeepsMoney ==
  ASSUME TypeInv, TypeInv', VersionInv, MoneyConserved, NEW r \in Reqs, ApplyMovement(r)
  PROVE  MoneyConserved'
<1> DEFINE q == req[r]
           s == q.session
<1>1. /\ s \in Sessions /\ q \in Requests /\ q.op \notin Seating /\ q.pc = "apply"
  BY DEF TypeInv, TypeOK, RequestShape, WellFormed, OnSession, ApplyMovement, Seating
<1>2. q.stack = sessions[s].stack /\ q.stack \in Nat /\ q.amount \in Int
  <2>1. SameVersion(q) /\ Snapshot(q)
    BY DEF ApplyMovement, VersionInv, Snapshots
  <2> QED
    BY <1>1, <2>1 DEF Snapshot, SameVersion, Holding, Requests
<1>3. /\ sessions' = [sessions EXCEPT ![s].stack = q.stack + q.amount, ![s].version = @ + 1]
      /\ results' = [results EXCEPT ![s] = @ + q.amount]
      /\ UNCHANGED <<balance, ledger>>
  BY DEF ApplyMovement, walletVars
<1>4. sessions \in [Sessions -> SessionRows] /\ results \in [Sessions -> Int]
  BY DEF TypeInv, TypeOK
<1>5. /\ \A z \in Sessions \ {s} : sessions'[z] = sessions[z]
      /\ sessions'[s].stack = q.stack + q.amount
  BY <1>1, <1>3, <1>4 DEF SessionRows
<1>6. SumFunctionOnSet(Chips, Sessions)' = SumFunctionOnSet(Chips, Sessions) + q.amount
  <2>1. SumFunctionOnSet(Chips, Sessions)'
          = SumFunctionOnSet(Chips, Sessions) - sessions[s].stack + sessions'[s].stack
    BY <1>1, <1>5, OneStackChanges
  <2> QED
    BY <1>2, <1>5, <2>1, BooksTyped
<1>7. SumFunctionOnSet(results, Sessions)' = SumFunctionOnSet(results, Sessions) + q.amount
  <2>1. \A z \in Sessions : results[z] \in Int /\ results'[z] \in Int /\ (z # s => results'[z] = results[z])
    BY <1>1, <1>2, <1>3, <1>4
  <2>2. IsFiniteSet(Sessions)
    BY BooksConstants
  <2>3. SumFunctionOnSet(results', Sessions)
          = SumFunctionOnSet(results, Sessions) - results[s] + results'[s]
    <3>1. PICK z \in Sessions : z = s
      BY <1>1
    <3>2. \A y \in Sessions : results[y] \in Int /\ results'[y] \in Int /\ (y # z => results'[y] = results[y])
      BY <2>1, <3>1
    <3>3. SumFunctionOnSet(results', Sessions)
            = SumFunctionOnSet(results, Sessions) - results[z] + results'[z]
      BY ONLY <2>2, <3>2, SumChange, SMT
    <3> QED
      BY <3>1, <3>3
  <2>4. results'[s] = results[s] + q.amount
    BY <1>1, <1>3, <1>4
  <2> QED
    BY <1>1, <1>2, <1>4, <2>3, <2>4, BooksTyped
<1>8. SumFunctionOnSet(balance, Users)' = SumFunctionOnSet(balance, Users) /\ Injected' = Injected
  BY <1>3 DEF Injected
<1> QED
  BY <1>2, <1>6, <1>7, <1>8, BooksTyped DEF MoneyConserved

\* Every step of the routes conserves the money.
LEMMA NextKeepsMoney ==
  ASSUME TypeInv, TypeInv', VersionInv, LockInv, MoneyConserved, [Next]_vars
  PROVE  MoneyConserved'
<1>1. ASSUME NEW r \in Reqs, CommitSit(r)
      PROVE  MoneyConserved'
  BY <1>1, SitPosts, PostedKeepsMoney
<1>2. ASSUME NEW r \in Reqs, CommitRebuy(r) \/ CommitCashOut(r)
      PROVE  MoneyConserved'
  BY <1>2, RowPosts, PostedKeepsMoney
<1>3. ASSUME NEW r \in Reqs, CommitSitGuest(r)
      PROVE  MoneyConserved'
  BY <1>3, GuestPosts, GuestKeepsMoney
<1>4. CASE UNCHANGED <<balance, ledger, sessions, results>>
  BY <1>4 DEF MoneyConserved, Injected, Chips
<1> QED
  BY <1>1, <1>2, <1>3, <1>4, ResultKeepsMoney, OtherSteps

\* A clube opens with what was deposited, and no chips.
LEMMA InitMoney == Init => MoneyConserved
<1> SUFFICES ASSUME Init
             PROVE  MoneyConserved
  OBVIOUS
<1>1. TypeInv
  BY InitTyped
<1>2. \A u \in Users : BroughtIn(ledger[u]) = balance[u]
  <2> SUFFICES ASSUME NEW u \in Users PROVE BroughtIn(ledger[u]) = balance[u]
    OBVIOUS
  <2> DEFINE e == Entry(<<"deposit", u>>, "PIX_DEPOSIT", balance[u], balance[u], None)
  <2>1. balance[u] \in Nat
    BY <1>1 DEF TypeInv, TypeOK
  <2>2. BroughtIn(<<>>) = 0
    <3>1. OwnEntries(<<>>) = {}
      BY DEF OwnEntries
    <3> QED
      BY <3>1, SumEmpty DEF BroughtIn
  <2>3. e \in Entries /\ e.session = None /\ e.amount = balance[u]
    BY <2>1 DEF Entry, Entries, LedgerKeys, DirectKeys, EntryTypes
  <2>4. ledger[u] = IF balance[u] = 0 THEN <<>> ELSE <<e>>
    BY DEF Init
  <2> HIDE DEF e
  <2>5. BroughtIn(<<e>>) = balance[u]
    <3>1. <<>> \in Seq(Entries) /\ Append(<<>>, e) = <<e>>
      BY <2>3
    <3>2. BroughtIn(Append(<<>>, e)) = BroughtIn(<<>>) + balance[u]
      BY <2>3, <3>1, BroughtInGrows
    <3> QED
      BY <2>1, <2>2, <3>1, <3>2
  <2> QED
    BY <2>2, <2>4, <2>5, Zenon
<1>3. Injected = SumFunctionOnSet(balance, Users)
  <2> DEFINE f == [u \in Users |-> BroughtIn(ledger[u])]
  <2>1. \A u \in Users : f[u] \in Int /\ f[u] = balance[u]
    <3>1. \A u \in Users : balance[u] \in Int
      BY <1>1 DEF TypeInv, TypeOK
    <3> QED
      BY <1>2, <3>1
  <2>2. Injected = SumFunctionOnSet(f, Users)
    BY DEF Injected
  <2>3. IsFiniteSet(Users)
    BY BooksConstants
  <2> HIDE DEF f
  <2> QED
    BY <2>1, <2>2, <2>3, SumSame
<1>4. SumFunctionOnSet(Chips, Sessions) = SumFunctionOnSet(results, Sessions)
  <2>1. \A s \in Sessions : Chips[s] \in Int /\ Chips[s] = results[s]
    BY DEF Init, Chips, NoSession
  <2>2. IsFiniteSet(Sessions)
    BY BooksConstants
  <2> QED
    BY ONLY <2>1, <2>2, SumSame, SMT
<1> QED
  BY <1>1, <1>3, <1>4, BooksTyped DEF MoneyConserved

\* What is in the wallets and on the tables is what was brought in plus the results.
THEOREM Conservation == Spec => []MoneyConserved
<1>1. TypeInv /\ TypeInv' /\ VersionInv /\ LockInv /\ MoneyConserved /\ [Next]_vars => MoneyConserved'
  BY NextKeepsMoney
<1> QED
  BY <1>1, InitMoney, InitTyped, NextTyped, InitVersions, NextVersions, InitLocks, NextLocks, PTL
  DEF Spec

-----------------------------------------------------------------------------

\* One more entry adds a leg to its own session.
LEMMA LegsGrow ==
  ASSUME NEW entries \in Seq(Entries), NEW e \in Entries, NEW s
  PROVE  LegsOf(Append(entries, e), s)
           = LegsOf(entries, s) \cup (IF e.session = s THEN {<<e.key, e.amount>>} ELSE {})
<1> DEFINE longer == Append(entries, e)
           n == Len(entries)
<1>1. /\ n \in Nat /\ DOMAIN longer = 1 .. n + 1 /\ DOMAIN entries = 1 .. n
      /\ longer[n + 1] = e /\ \A i \in 1 .. n : longer[i] = entries[i]
      /\ 1 .. n + 1 = (1 .. n) \cup {n + 1}
  OBVIOUS
<1> HIDE DEF longer, n
<1>2. LegsOf(longer, s)
        = LegsOf(entries, s) \cup (IF e.session = s THEN {<<e.key, e.amount>>} ELSE {})
  BY <1>1 DEF LegsOf
<1> QED
  BY <1>2 DEF longer

\* A posting adds one leg, to the session it is for; its standby credit is nobody's.
LEMMA PostingLegs ==
  ASSUME NEW entries \in Seq(Entries), NEW bal \in Nat, NEW amount \in Int,
         NEW type \in EntryTypes, NEW key \in DirectKeys, NEW session \in Sessions,
         NEW s \in Sessions
  PROVE  LegsOf(entries \o Postings(bal, amount, type, key, session), s)
           = LegsOf(entries, s) \cup (IF s = session THEN {<<key, amount>>} ELSE {})
<1> DEFINE entry == Entry(key, type, amount, NewBalance(bal, amount), session)
           topUp == Entry(TopUpKey(key), "ADJUSTMENT", -(bal + amount), -amount, None)
<1>1. /\ entry \in Entries /\ entry.session = session /\ entry.key = key
      /\ entry.amount = amount
  BY DEF Entry, Entries, LedgerKeys, NewBalance, Overdraws
<1>2. CASE ~Overdraws(bal, amount)
  <2>1. Postings(bal, amount, type, key, session) = <<entry>>
    BY <1>2 DEF Postings
  <2> HIDE DEF entry, topUp
  <2>2. entries \o <<entry>> = Append(entries, entry)
    BY <1>1
  <2>3. LegsOf(Append(entries, entry), s)
          = LegsOf(entries, s) \cup (IF session = s THEN {<<key, amount>>} ELSE {})
    BY <1>1, LegsGrow
  <2> QED
    BY <2>1, <2>2, <2>3, Zenon
<1>3. CASE Overdraws(bal, amount)
  <2>1. Postings(bal, amount, type, key, session) = <<topUp, entry>>
    BY <1>3 DEF Postings
  <2>2. topUp \in Entries /\ topUp.session = None
    BY <1>3 DEF Entry, Entries, LedgerKeys, TopUpKey, Overdraws, EntryTypes
  <2> HIDE DEF entry, topUp
  <2>3. entries \o <<topUp, entry>> = Append(Append(entries, topUp), entry)
    BY <1>1, <2>2
  <2>4. LegsOf(Append(entries, topUp), s) = LegsOf(entries, s)
    <3>1. None # s
      BY CashTableConstants
    <3>2. LegsOf(Append(entries, topUp), s)
            = LegsOf(entries, s) \cup (IF topUp.session = s THEN {<<topUp.key, topUp.amount>>} ELSE {})
      BY <2>2, LegsGrow
    <3> QED
      BY <2>2, <3>1, <3>2
  <2>5. LegsOf(Append(Append(entries, topUp), entry), s)
          = LegsOf(Append(entries, topUp), s) \cup (IF session = s THEN {<<key, amount>>} ELSE {})
    <3>1. Append(entries, topUp) \in Seq(Entries)
      BY <2>2
    <3> QED
      BY <1>1, <3>1, LegsGrow
  <2> QED
    BY <2>1, <2>3, <2>4, <2>5, Zenon
<1> QED
  BY <1>2, <1>3

\* One wallet gets a leg of one session.
LEMMA WalletLegsGrow ==
  ASSUME NEW u \in Users, NEW s \in Sessions, NEW leg,
         \A v \in Users \ {u} : ledger'[v] = ledger[v],
         \A z \in Sessions : LegsOf(ledger'[u], z)
           = LegsOf(ledger[u], z) \cup (IF z = s THEN {leg} ELSE {})
  PROVE  \A z \in Sessions :
           WalletLegs(ledger', z) = WalletLegs(ledger, z) \cup (IF z = s THEN {leg} ELSE {})
<1> SUFFICES ASSUME NEW z \in Sessions
             PROVE  WalletLegs(ledger', z) = WalletLegs(ledger, z) \cup (IF z = s THEN {leg} ELSE {})
  OBVIOUS
<1> DEFINE L(v) == LegsOf(ledger[v], z)
           M(v) == LegsOf(ledger'[v], z)
<1>1. /\ \A v \in Users \ {u} : M(v) = L(v)
      /\ M(u) = L(u) \cup (IF z = s THEN {leg} ELSE {})
  BY Zenon
<1>2. /\ WalletLegs(ledger, z) = UNION {L(v) : v \in Users}
      /\ WalletLegs(ledger', z) = UNION {M(v) : v \in Users}
  BY DEF WalletLegs
<1> HIDE DEF L, M
<1> QED
  BY <1>1, <1>2

\* One more stack movement under a key adds a leg to its session.
LEMMA StackLegsGrow ==
  ASSUME TypeInv, NEW s \in Sessions, NEW m, m.key # None,
         movements' = [movements EXCEPT ![s] = Append(movements[s], m)]
  PROVE  \A z \in Sessions :
           StackLegs(movements'[z])
             = StackLegs(movements[z]) \cup (IF z = s THEN {<<m.key, -m.amount>>} ELSE {})
<1> SUFFICES ASSUME NEW z \in Sessions
             PROVE  StackLegs(movements'[z])
                      = StackLegs(movements[z]) \cup (IF z = s THEN {<<m.key, -m.amount>>} ELSE {})
  OBVIOUS
<1>1. movements'[z] = IF z = s THEN Append(movements[z], m) ELSE movements[z]
  BY DEF TypeInv, TypeOK
<1>2. CASE z # s
  BY <1>1, <1>2 DEF StackLegs
<1>3. CASE z = s
  <2> DEFINE n == Len(movements[z])
  <2>1. /\ n \in Nat /\ DOMAIN movements'[z] = 1 .. n + 1 /\ DOMAIN movements[z] = 1 .. n
        /\ movements'[z][n + 1] = m /\ \A i \in 1 .. n : movements'[z][i] = movements[z][i]
        /\ 1 .. n + 1 = (1 .. n) \cup {n + 1}
    BY <1>1, <1>3 DEF TypeInv, TypeOK
  <2> HIDE DEF n
  <2>2. StackLegs(movements'[z]) = {<<e.key, -e.amount>> : e \in {movements'[z][i] : i \in
          {j \in 1 .. n + 1 : movements'[z][j].key # None}}}
    BY <2>1 DEF StackLegs
  <2>3. StackLegs(movements[z]) = {<<e.key, -e.amount>> : e \in {movements[z][i] : i \in
          {j \in 1 .. n : movements[z][j].key # None}}}
    BY <2>1 DEF StackLegs
  <2> QED
    BY <1>3, <2>1, <2>2, <2>3
<1> QED
  BY <1>2, <1>3

\* A hand result is in the stack ledger without a key.
LEMMA HandResultIsNoLeg ==
  ASSUME TypeInv, NEW r \in Reqs, InsertMovement(r)
  PROVE  \A z \in Sessions : StackLegs(movements'[z]) = StackLegs(movements[z])
<1> SUFFICES ASSUME NEW z \in Sessions
             PROVE  StackLegs(movements'[z]) = StackLegs(movements[z])
  OBVIOUS
<1>1. PICK m : m.key = None /\ movements' = [movements EXCEPT ![req[r].session] = Append(@, m)]
  BY DEF InsertMovement
<1>2. movements'[z] \in {Append(movements[z], m), movements[z]}
  BY <1>1 DEF TypeInv, TypeOK
<1>3. CASE movements'[z] = movements[z]
  BY <1>3 DEF StackLegs
<1>4. CASE movements'[z] = Append(movements[z], m)
  <2> DEFINE n == Len(movements[z])
  <2>1. /\ n \in Nat /\ DOMAIN movements'[z] = 1 .. n + 1 /\ DOMAIN movements[z] = 1 .. n
        /\ movements'[z][n + 1] = m /\ \A i \in 1 .. n : movements'[z][i] = movements[z][i]
        /\ 1 .. n + 1 = (1 .. n) \cup {n + 1}
    BY <1>4 DEF TypeInv, TypeOK
  <2> HIDE DEF n
  <2>2. StackLegs(movements'[z]) = {<<e.key, -e.amount>> : e \in {movements'[z][i] : i \in
          {j \in 1 .. n + 1 : movements'[z][j].key # None}}}
    BY <2>1 DEF StackLegs
  <2>3. StackLegs(movements[z]) = {<<e.key, -e.amount>> : e \in {movements[z][i] : i \in
          {j \in 1 .. n : movements[z][j].key # None}}}
    BY <2>1 DEF StackLegs
  <2> QED
    BY <1>1, <2>1, <2>2, <2>3, SMTT(40)
<1> QED
  BY <1>2, <1>3, <1>4

\* The legs of a session can be counted, and their amounts are integers.
LEMMA LegsCountable ==
  ASSUME TypeInv, NEW s \in Sessions
  PROVE  IsFiniteSet(StackLegs(movements[s])) /\ \A leg \in StackLegs(movements[s]) : leg[2] \in Int
<1> DEFINE D == {j \in DOMAIN movements[s] : movements[s][j].key # None}
           f == [i \in D |-> <<movements[s][i].key, -movements[s][i].amount>>]
<1>1. movements[s] \in Seq(Moves)
  BY DEF TypeInv, TypeOK
<1>2. D \subseteq 1 .. Len(movements[s]) /\ Len(movements[s]) \in Nat
  BY <1>1
<1>3. IsFiniteSet(D)
  BY <1>2, FS_Interval, FS_Subset
<1>4. StackLegs(movements[s]) = {f[i] : i \in D}
  BY DEF StackLegs
<1>5. \A i \in D : f[i][2] \in Int
  <2>1. \A i \in D : movements[s][i] \in Moves
    BY <1>1, <1>2
  <2>2. \A i \in D : movements[s][i].amount \in Int
    BY <2>1 DEF Moves
  <2>3. \A i \in D : f[i][2] = -movements[s][i].amount
    OBVIOUS
  <2> QED
    BY <2>2, <2>3
<1> HIDE DEF D, f
<1>6. IsFiniteSet({f[i] : i \in D})
  BY <1>3, ImageFinite
<1> QED
  BY <1>4, <1>5, <1>6

\* One more leg.
LEMMA OneMoreLeg ==
  ASSUME NEW legs, IsFiniteSet(legs), \A leg \in legs : leg[2] \in Int,
         NEW key, NEW amount \in Int, <<key, amount>> \notin legs
  PROVE  LegsTotal(legs \cup {<<key, amount>>}) = LegsTotal(legs) + amount
<1> DEFINE more == legs \cup {<<key, amount>>}
           f == [leg \in legs |-> leg[2]]
           g == [leg \in more |-> leg[2]]
           new == <<key, amount>>
<1>1. /\ \A leg \in legs : f[leg] \in Int /\ f[leg] = g[leg]
      /\ g[new] = amount
  OBVIOUS
<1>2. LegsTotal(legs) = SumFunctionOnSet(f, legs) /\ LegsTotal(more) = SumFunctionOnSet(g, more)
  BY DEF LegsTotal
<1>3. \A leg \in legs : g[leg] \in Int
  BY <1>1
<1>4. more = legs \cup {new}
  OBVIOUS
<1>5. new \notin legs /\ g[new] \in Int
  BY <1>1
<1> HIDE DEF f, g, new, more
<1>6. SumFunctionOnSet(f, legs) = SumFunctionOnSet(g, legs)
  BY <1>1, SumSame
<1>7. SumFunctionOnSet(g, legs \cup {new}) = SumFunctionOnSet(g, legs) + g[new]
  BY <1>3, <1>5, SumAdd
<1>8. LegsTotal(more) = LegsTotal(legs) + amount
  BY <1>1, <1>2, <1>4, <1>6, <1>7
<1> QED
  BY <1>8 DEF more

\* A transaction adds the same leg to a wallet and to the stack ledger of a session.
LegPosted(u, s, key, amount) ==
  /\ u \in Users /\ s \in Sessions /\ key \in DirectKeys /\ amount \in Int
  /\ KeyUnused(key)
  /\ \A v \in Users \ {u} : ledger'[v] = ledger[v]
  /\ \A z \in Sessions : LegsOf(ledger'[u], z)
       = LegsOf(ledger[u], z) \cup (IF z = s THEN {<<key, amount>>} ELSE {})
  /\ \E m : /\ m.key = key /\ -m.amount = amount
             /\ movements' = [movements EXCEPT ![s] = Append(movements[s], m)]
  /\ \A z \in Sessions \ {s} : sessions'[z] = sessions[z]
  /\ sessions'[s].cashed - sessions'[s].bought
       = sessions[s].cashed - sessions[s].bought + amount

\* Such a step keeps double entry.
LEMMA PostedKeepsEntries ==
  ASSUME TypeInv, DoubleEntry, NEW u, NEW s, NEW key, NEW amount,
         LegPosted(u, s, key, amount)
  PROVE  DoubleEntry'
<1>a. /\ u \in Users /\ s \in Sessions /\ key \in DirectKeys /\ amount \in Int
      /\ KeyUnused(key)
      /\ \A z \in Sessions \ {s} : sessions'[z] = sessions[z]
      /\ sessions'[s].cashed - sessions'[s].bought
           = sessions[s].cashed - sessions[s].bought + amount
  BY DEF LegPosted
<1>b. PICK m : /\ m.key = key /\ -m.amount = amount
                /\ movements' = [movements EXCEPT ![s] = Append(movements[s], m)]
  BY DEF LegPosted
<1> DEFINE leg == <<key, amount>>
<1>1. key # None
  BY <1>a, BooksConstants DEF LedgerKeys
<1>2. \A z \in Sessions : WalletLegs(ledger', z) = WalletLegs(ledger, z) \cup (IF z = s THEN {leg} ELSE {})
  <2> HIDE DEF leg
  <2>1. \A z \in Sessions : LegsOf(ledger'[u], z)
          = LegsOf(ledger[u], z) \cup (IF z = s THEN {leg} ELSE {})
    BY DEF LegPosted, leg
  <2>2. \A v \in Users \ {u} : ledger'[v] = ledger[v]
    BY DEF LegPosted
  <2> QED
    BY ONLY <1>a, <2>1, <2>2, WalletLegsGrow, SMT
<1>3. \A z \in Sessions : StackLegs(movements'[z])
                            = StackLegs(movements[z]) \cup (IF z = s THEN {leg} ELSE {})
  <2>1. \A z \in Sessions :
          StackLegs(movements'[z])
            = StackLegs(movements[z]) \cup (IF z = s THEN {<<m.key, -m.amount>>} ELSE {})
    BY <1>a, <1>b, <1>1, StackLegsGrow, ZenonT(60)
  <2> QED
    BY <1>b, <2>1
<1>4. leg \notin WalletLegs(ledger, s)
  <2> SUFFICES ASSUME leg \in WalletLegs(ledger, s)
               PROVE  FALSE
    OBVIOUS
  <2>1. PICK v \in Users : \E i \in DOMAIN ledger[v] : leg = <<ledger[v][i].key, ledger[v][i].amount>>
    BY DEF WalletLegs, LegsOf
  <2>2. PICK i \in DOMAIN ledger[v] : key = ledger[v][i].key
    BY <2>1
  <2> QED
    BY <1>a, <2>2 DEF KeyUnused, KeysUsed
<1>5. IsFiniteSet(WalletLegs(ledger, s)) /\ \A l \in WalletLegs(ledger, s) : l[2] \in Int
  BY <1>a, LegsCountable DEF DoubleEntry
<1>6. LegsTotal(WalletLegs(ledger, s) \cup {leg}) = LegsTotal(WalletLegs(ledger, s)) + amount
  BY <1>a, <1>4, <1>5, OneMoreLeg
<1>7. \A z \in Sessions : WalletLegs(ledger', z) = StackLegs(movements'[z])
  BY <1>2, <1>3 DEF DoubleEntry
<1>8. LegsTotal(WalletLegs(ledger', s)) = sessions'[s].cashed - sessions'[s].bought
  <2>1. WalletLegs(ledger', s) = WalletLegs(ledger, s) \cup {leg}
    BY <1>a, <1>2
  <2>2. LegsTotal(WalletLegs(ledger', s)) = LegsTotal(WalletLegs(ledger, s) \cup {leg})
    BY <2>1, Zenon
  <2>3. LegsTotal(WalletLegs(ledger, s)) = sessions[s].cashed - sessions[s].bought
    BY <1>a DEF DoubleEntry
  <2> HIDE DEF leg
  <2> QED
    BY <1>a, <1>6, <2>2, <2>3
<1>9. \A z \in Sessions \ {s} :
        LegsTotal(WalletLegs(ledger', z)) = sessions'[z].cashed - sessions'[z].bought
  <2> SUFFICES ASSUME NEW z \in Sessions \ {s}
               PROVE  LegsTotal(WalletLegs(ledger', z)) = sessions'[z].cashed - sessions'[z].bought
    OBVIOUS
  <2>1. WalletLegs(ledger', z) = WalletLegs(ledger, z)
    BY <1>2
  <2>2. LegsTotal(WalletLegs(ledger', z)) = LegsTotal(WalletLegs(ledger, z))
    BY <2>1, Zenon
  <2>3. LegsTotal(WalletLegs(ledger, z)) = sessions[z].cashed - sessions[z].bought
        /\ sessions'[z] = sessions[z]
    BY <1>a DEF DoubleEntry
  <2> QED
    BY <2>2, <2>3
<1> QED
  BY <1>7, <1>8, <1>9 DEF DoubleEntry

\* Every step of the routes keeps double entry.
LEMMA NextKeepsEntries ==
  ASSUME TypeInv, VersionInv, LockInv, DoubleEntry, [Next]_vars
  PROVE  DoubleEntry'
<1>1. ASSUME NEW q, NEW u, NEW s, NEW amount, Posted(q, u, s, amount)
      PROVE  DoubleEntry'
  <2>1. PICK type \in EntryTypes : ledger' = [ledger EXCEPT ![u] =
          ledger[u] \o Postings(balance[u], amount, type, LedgerKey(q), s)]
    BY <1>1 DEF Posted
  <2>2. PICK reason, after : movements' =
          [movements EXCEPT ![s] = Append(movements[s], Movement(q, -amount, reason, after))]
    BY <1>1 DEF Posted
  <2>3. /\ u \in Users /\ s \in Sessions /\ amount \in Int
        /\ LedgerKey(q) \in DirectKeys /\ KeyUnused(LedgerKey(q))
        /\ \A z \in Sessions \ {s} : sessions'[z] = sessions[z]
        /\ sessions'[s].cashed - sessions'[s].bought
             = sessions[s].cashed - sessions[s].bought + amount
    BY <1>1 DEF Posted
  <2> DEFINE key == LedgerKey(q)
             m == Movement(q, -amount, reason, after)
  <2>4. /\ ledger'[u] = ledger[u] \o Postings(balance[u], amount, type, key, s)
        /\ \A v \in Users \ {u} : ledger'[v] = ledger[v]
        /\ ledger[u] \in Seq(Entries) /\ balance[u] \in Nat
    BY <2>1, <2>3 DEF TypeInv, TypeOK
  <2>5. m.key = key /\ -m.amount = amount
    BY <2>3 DEF Movement
  <2> HIDE DEF key, m
  <2>6. \A z \in Sessions : LegsOf(ledger'[u], z)
          = LegsOf(ledger[u], z) \cup (IF z = s THEN {<<key, amount>>} ELSE {})
    <3>1. \A z \in Sessions : LegsOf(ledger[u] \o Postings(balance[u], amount, type, key, s), z)
            = LegsOf(ledger[u], z) \cup (IF z = s THEN {<<key, amount>>} ELSE {})
      BY <2>3, <2>4, PostingLegs DEF key
    <3> QED
      BY <2>4, <3>1, Zenon
  <2>7. \E n : /\ n.key = key /\ -n.amount = amount
                /\ movements' = [movements EXCEPT ![s] = Append(movements[s], n)]
    BY <2>2, <2>5 DEF m
  <2>8. key \in DirectKeys /\ KeyUnused(key)
    BY <2>3 DEF key
  <2>9. LegPosted(u, s, key, amount)
    BY <2>3, <2>4, <2>6, <2>7, <2>8 DEF LegPosted
  <2> QED
    BY <2>9, PostedKeepsEntries
<1>2. ASSUME NEW q, NEW g, NEW s, GuestPosted(q, g, s)
      PROVE  DoubleEntry'
  <2> DEFINE cash == Entry(<<"guest-cash-in", q.key>>, "ADJUSTMENT", q.amount, q.amount, None)
             key == LedgerKey(q)
             buyIn == Postings(q.amount, -q.amount, "TABLE_BUY_IN", key, s)
             m == Movement(q, q.amount, "BUY_IN", q.amount)
  <2>1. /\ g \in Users /\ s \in Sessions /\ q.amount \in Nat /\ q.key \in Keys
        /\ key \in DirectKeys /\ KeyUnused(key) /\ -q.amount \in Int
    BY <1>2 DEF GuestPosted
  <2>2. cash \in Entries /\ cash.session = None
    BY <2>1 DEF Entry, Entries, LedgerKeys, DirectKeys, EntryTypes
  <2>3. /\ ledger'[g] = <<cash>> \o buyIn /\ ledger[g] = <<>>
        /\ \A v \in Users \ {g} : ledger'[v] = ledger[v]
        /\ movements' = [movements EXCEPT ![s] = Append(movements[s], m)]
    BY <1>2, <2>1 DEF GuestPosted, TypeInv, TypeOK
  <2>4. m.key = key /\ -m.amount = -q.amount
    BY <2>1 DEF Movement
  <2>5. /\ \A z \in Sessions \ {s} : sessions'[z] = sessions[z]
        /\ sessions'[s].cashed - sessions'[s].bought
             = sessions[s].cashed - sessions[s].bought + (-q.amount)
    <3>1. /\ sessions[s].cashed = 0 /\ sessions[s].bought = 0
          /\ sessions'[s].cashed = 0 /\ sessions'[s].bought = q.amount
      BY <1>2 DEF GuestPosted, NoSession
    <3> QED
      BY <1>2, <2>1, <3>1 DEF GuestPosted
  <2> HIDE DEF cash, key, m
  <2>6. \A z \in Sessions : LegsOf(<<cash>>, z) = LegsOf(<<>>, z)
    <3> SUFFICES ASSUME NEW z \in Sessions
                 PROVE  LegsOf(<<cash>>, z) = LegsOf(<<>>, z)
      OBVIOUS
    <3>1. <<>> \in Seq(Entries) /\ Append(<<>>, cash) = <<cash>> /\ None # z
      BY <2>2, CashTableConstants
    <3>2. LegsOf(Append(<<>>, cash), z)
            = LegsOf(<<>>, z) \cup (IF cash.session = z THEN {<<cash.key, cash.amount>>} ELSE {})
      BY <2>2, <3>1, LegsGrow
    <3>3. LegsOf(Append(<<>>, cash), z) = LegsOf(<<>>, z)
      BY <2>2, <3>1, <3>2
    <3> QED
      BY <3>1, <3>3, Zenon
  <2>7. \A z \in Sessions : LegsOf(<<cash>> \o buyIn, z)
          = LegsOf(<<cash>>, z) \cup (IF z = s THEN {<<key, -q.amount>>} ELSE {})
    <3>1. <<cash>> \in Seq(Entries) /\ "TABLE_BUY_IN" \in EntryTypes
      BY <2>2 DEF EntryTypes
    <3> SUFFICES ASSUME NEW z \in Sessions
                 PROVE  LegsOf(<<cash>> \o buyIn, z)
                          = LegsOf(<<cash>>, z) \cup (IF z = s THEN {<<key, -q.amount>>} ELSE {})
      OBVIOUS
    <3>2. PICK entries \in Seq(Entries), bal \in Nat, amount \in Int :
            entries = <<cash>> /\ bal = q.amount /\ amount = -q.amount
      BY <2>1, <3>1
    <3>3. LegsOf(entries \o Postings(bal, amount, "TABLE_BUY_IN", key, s), z)
            = LegsOf(entries, z) \cup (IF z = s THEN {<<key, amount>>} ELSE {})
      BY <2>1, <3>1, PostingLegs
    <3> QED
      BY <3>2, <3>3, Zenon
  <2> HIDE DEF buyIn
  <2>8. \A z \in Sessions : LegsOf(ledger'[g], z)
          = LegsOf(ledger[g], z) \cup (IF z = s THEN {<<key, -q.amount>>} ELSE {})
    BY <2>3, <2>6, <2>7, Zenon
  <2>9. \E n : /\ n.key = key /\ -n.amount = -q.amount
                /\ movements' = [movements EXCEPT ![s] = Append(movements[s], n)]
    BY <2>3, <2>4
  <2>10. LegPosted(g, s, key, -q.amount)
    BY <2>1, <2>3, <2>5, <2>8, <2>9 DEF LegPosted
  <2> QED
    BY <2>10, PostedKeepsEntries
<1>3. CASE UNCHANGED <<ledger, sessions>>
           /\ \A z \in Sessions : StackLegs(movements'[z]) = StackLegs(movements[z])
  BY <1>3 DEF DoubleEntry, WalletLegs
<1>4. ASSUME NEW r \in Reqs, ApplyMovement(r)
      PROVE  DoubleEntry'
  <2>1. /\ sessions' = [sessions EXCEPT ![req[r].session].stack = req[r].stack + req[r].amount,
                                        ![req[r].session].version = @ + 1]
        /\ UNCHANGED <<ledger, movements>>
    BY <1>4 DEF ApplyMovement, walletVars
  <2>2. \A z \in Sessions : sessions'[z].cashed = sessions[z].cashed
                            /\ sessions'[z].bought = sessions[z].bought
    <3>1. sessions \in [Sessions -> SessionRows]
      BY DEF TypeInv, TypeOK
    <3> QED
      BY <2>1, <3>1 DEF SessionRows
  <2>3. ledger' = ledger /\ movements' = movements
    BY <2>1
  <2> QED
    BY <2>2, <2>3 DEF DoubleEntry
<1>5. CASE UNCHANGED <<ledger, sessions>> /\ (UNCHANGED movements \/ \E r \in Reqs : InsertMovement(r))
  BY <1>3, <1>5, HandResultIsNoLeg DEF StackLegs
<1>6. ASSUME NEW r \in Reqs, CommitSit(r) \/ CommitRebuy(r) \/ CommitCashOut(r)
      PROVE  DoubleEntry'
  BY <1>1, <1>6, SitPosts, RowPosts
<1>7. ASSUME NEW r \in Reqs, CommitSitGuest(r)
      PROVE  DoubleEntry'
  BY <1>2, <1>7, GuestPosts
<1> QED
  BY <1>4, <1>5, <1>6, <1>7, OtherSteps

\* Before the first request there is no leg in either ledger.
LEMMA InitEntries == Init => DoubleEntry
<1> SUFFICES ASSUME Init, NEW s \in Sessions
             PROVE  /\ WalletLegs(ledger, s) = StackLegs(movements[s])
                    /\ LegsTotal(WalletLegs(ledger, s)) = sessions[s].cashed - sessions[s].bought
  BY DEF DoubleEntry
<1>1. StackLegs(movements[s]) = {}
  BY DEF Init, StackLegs
<1>2. WalletLegs(ledger, s) = {}
  <2>1. \A u \in Users : \A i \in DOMAIN ledger[u] : ledger[u][i].session = None
    BY DEF Init, Entry
  <2>2. None # s
    BY CashTableConstants
  <2> QED
    BY <2>1, <2>2 DEF WalletLegs, LegsOf
<1>3. LegsTotal({}) = 0
  BY SumEmpty DEF LegsTotal
<1>4. sessions[s].cashed = 0 /\ sessions[s].bought = 0
  BY DEF Init, NoSession
<1>5. LegsTotal(WalletLegs(ledger, s)) = 0
  BY <1>2, <1>3, Zenon
<1> QED
  BY <1>1, <1>2, <1>4, <1>5

\* The wallets and the stack ledgers of the tables hold the same legs.
THEOREM EntriesPaired == Spec => []DoubleEntry
<1>1. TypeInv /\ VersionInv /\ LockInv /\ DoubleEntry /\ [Next]_vars => DoubleEntry'
  BY NextKeepsEntries
<1> QED
  BY <1>1, InitEntries, InitTyped, NextTyped, InitVersions, NextVersions, InitLocks, NextLocks, PTL
  DEF Spec

-----------------------------------------------------------------------------

\* The rest of the refinement mapping of ChipBank's variables: the status of each
\* session in the bank.
Status == [s \in Sessions |-> sessions[s].status]
\* The owner of each session in the bank.
Owner == [s \in Sessions |-> sessions[s].user]

\* A function that differs from another at one point only.
LEMMA OneValueChanged ==
  ASSUME NEW S, NEW f, NEW g, NEW s \in S, NEW v,
         f = [z \in S |-> f[z]], g = [z \in S |-> g[z]],
         g[s] = v, \A z \in S \ {s} : g[z] = f[z]
  PROVE  g = [f EXCEPT ![s] = v]
OBVIOUS

\* A write of one session row is a change of one session in the bank.
LEMMA RowInBank ==
  ASSUME TypeInv, NEW s \in Sessions, NEW row, sessions' = [sessions EXCEPT ![s] = row]
  PROVE  /\ Chips' = [Chips EXCEPT ![s] = row.stack]
         /\ Status' = [Status EXCEPT ![s] = row.status]
         /\ Owner' = [Owner EXCEPT ![s] = row.user]
<1>1. \A z \in Sessions : sessions'[z] = IF z = s THEN row ELSE sessions[z]
  BY DEF TypeInv, TypeOK
<1>2. /\ Chips = [z \in Sessions |-> Chips[z]] /\ Chips' = [z \in Sessions |-> Chips'[z]]
      /\ Chips'[s] = row.stack /\ \A z \in Sessions \ {s} : Chips'[z] = Chips[z]
  BY <1>1 DEF Chips
<1>3. /\ Status = [z \in Sessions |-> Status[z]] /\ Status' = [z \in Sessions |-> Status'[z]]
      /\ Status'[s] = row.status /\ \A z \in Sessions \ {s} : Status'[z] = Status[z]
  BY <1>1 DEF Status
<1>4. /\ Owner = [z \in Sessions |-> Owner[z]] /\ Owner' = [z \in Sessions |-> Owner'[z]]
      /\ Owner'[s] = row.user /\ \A z \in Sessions \ {s} : Owner'[z] = Owner[z]
  BY <1>1 DEF Owner
<1>5. Chips' = [Chips EXCEPT ![s] = row.stack]
  BY <1>2, OneValueChanged
<1>6. Status' = [Status EXCEPT ![s] = row.status]
  BY <1>3, OneValueChanged
<1>7. Owner' = [Owner EXCEPT ![s] = row.user]
  BY <1>4, OneValueChanged
<1> QED
  BY <1>5, <1>6, <1>7

\* Fields a row write keeps do not change in the bank.
LEMMA SameFieldInBank ==
  ASSUME TypeInv, NEW s \in Sessions
  PROVE  /\ [Status EXCEPT ![s] = sessions[s].status] = Status
         /\ [Owner EXCEPT ![s] = sessions[s].user] = Owner
BY DEF Status, Owner

\* Inserting a session row opens a session in the bank.
LEMMA SeatInBank ==
  ASSUME TypeInv, NEW q, NEW u, NEW s \in Sessions, TakeSeat(q, u, s)
  PROVE  /\ sessions[s].status = "NONE"
         /\ Chips' = [Chips EXCEPT ![s] = q.amount]
         /\ Status' = [Status EXCEPT ![s] = "ACTIVE"]
         /\ Owner' = [Owner EXCEPT ![s] = u]
<1> DEFINE row == Seated(q, u)
<1>1. sessions[s].status = "NONE" /\ sessions' = [sessions EXCEPT ![s] = row]
  BY DEF TakeSeat
<1>2. row.stack = q.amount /\ row.status = "ACTIVE" /\ row.user = u
  BY DEF Seated
<1> HIDE DEF row
<1>3. /\ Chips' = [Chips EXCEPT ![s] = row.stack]
      /\ Status' = [Status EXCEPT ![s] = row.status]
      /\ Owner' = [Owner EXCEPT ![s] = row.user]
  BY <1>1, RowInBank
<1> QED
  BY <1>1, <1>2, <1>3

\* The commit of sitAtTable is the bank's Sit: the balance read under the row lock
\* is the purse, and Postable is the bank's CanPay.
LEMMA SitInBank ==
  ASSUME TypeInv, LockInv, NEW r \in Reqs, CommitSit(r)
  PROVE  Bank!Next
<1> DEFINE q == req[r]
           u == q.user
<1>1. q.amount \in BuyIns /\ q.amount \in Nat /\ u \in Users /\ balance[u] \in Nat
  <2>1. q.pc = "commit" /\ q.op = "sit"
    BY DEF CommitSit, At
  <2>2. q.amount \in BuyIns /\ u \in wallets
    BY <2>1 DEF TypeInv, RequestShape, WellFormed
  <2> QED
    BY <2>2, CashTableConstants DEF TypeInv, TypeOK
<1>2. q.bal = balance[u]
  BY DEF CommitSit, At, LockInv, Holders, Holder, Payer
<1>3. PICK s \in Sessions :
        /\ TakeSeat(q, u, s)
        /\ ApplyLedgerEntry(u, q.bal, -q.amount, "TABLE_BUY_IN", LedgerKey(q), s)
  BY DEF CommitSit
<1>4. /\ sessions[s].status = "NONE"
      /\ Chips' = [Chips EXCEPT ![s] = q.amount]
      /\ Status' = [Status EXCEPT ![s] = "ACTIVE"]
      /\ Owner' = [Owner EXCEPT ![s] = u]
  BY <1>3, SeatInBank
<1>5. ~PaymentsEnabled \/ q.amount <= balance[u]
  <2>1. Overdraws(balance[u], -q.amount) => ~PaymentsEnabled
    BY <1>2 DEF CommitSit, Postable
  <2> QED
    BY <1>1, <2>1, WalletConstants DEF Overdraws
<1>6. balance' = [balance EXCEPT ![u] = IF q.amount <= balance[u] THEN balance[u] - q.amount ELSE 0]
  <2>1. NewBalance(balance[u], -q.amount)
          = IF q.amount <= balance[u] THEN balance[u] - q.amount ELSE 0
    BY <1>1 DEF NewBalance, Overdraws
  <2> QED
    BY <1>2, <1>3, <2>1 DEF ApplyLedgerEntry
<1>7. Bank!Sit(s, u, q.amount)
  BY <1>4, <1>5, <1>6
  DEF Bank!Sit, Bank!CanPay, Bank!Open, Bank!Rest, Chips, Status, Owner
<1> QED
  BY <1>1, <1>7 DEF Bank!Next

\* The commit of sitGuestAtTable is the bank's SitPayingCash: the cash and the
\* buy-in cancel out in the new wallet.
LEMMA SitGuestInBank ==
  ASSUME TypeInv, NEW r \in Reqs, CommitSitGuest(r)
  PROVE  Bank!Next
<1> DEFINE q == req[r]
<1>1. q.amount \in BuyIns
  BY DEF CommitSitGuest, At, TypeInv, RequestShape, WellFormed
<1>2. PICK g \in Guests, s \in Sessions : TakeSeat(q, g, s)
  BY DEF CommitSitGuest
<1>3. /\ sessions[s].status = "NONE"
      /\ Chips' = [Chips EXCEPT ![s] = q.amount]
      /\ Status' = [Status EXCEPT ![s] = "ACTIVE"]
      /\ Owner' = [Owner EXCEPT ![s] = g]
  BY <1>2, SeatInBank
<1>4. g \in Users /\ UNCHANGED balance
  BY <1>2, CashTableConstants DEF CommitSitGuest
<1>5. Bank!SitPayingCash(s, g, q.amount)
  BY <1>3, <1>4 DEF Bank!SitPayingCash, Bank!Open, Chips, Status, Owner
<1> QED
  BY <1>1, <1>4, <1>5 DEF Bank!Next

\* The commits of rebuy and doCashOut and the stack update of recordMovement are
\* the bank's Rebuy, CashOut and Result: the version proves the stack current,
\* the row lock proves the balance current.
LEMMA RowWriteInBank ==
  ASSUME TypeInv, VersionInv, LockInv, NEW r \in Reqs,
         CommitRebuy(r) \/ CommitCashOut(r) \/ ApplyMovement(r)
  PROVE  Bank!Next
<1> DEFINE q == req[r]
<1>1. /\ q \in Requests /\ q.session \in Sessions /\ q.op \notin Seating
      /\ q.pc \in {"commit", "apply"}
  BY DEF TypeInv, TypeOK, RequestShape, WellFormed, OnSession, CommitRebuy, CommitCashOut,
         ApplyMovement, At, CashOps, Seating
<1>2. PICK s \in Sessions : s = q.session
  BY <1>1
<1> DEFINE u == sessions[s].user
<1>3. Active(s) /\ q.stack = sessions[s].stack
  <2>1. SameVersion(q) /\ Snapshot(q)
    BY DEF CommitRebuy, CommitCashOut, ApplyMovement, VersionInv, Snapshots
  <2> QED
    BY <1>1, <1>2, <2>1 DEF Snapshot, SameVersion, Holding
<1>4. /\ sessions \in [Sessions -> SessionRows] /\ sessions[s] \in SessionRows
      /\ q.stack \in Nat /\ q.amount \in Int /\ balance \in [Users -> Nat]
  BY <1>1 DEF TypeInv, TypeOK, Requests
<1>5. u \in Users /\ balance[u] \in Nat
  BY <1>3 DEF TypeInv, TypeOK, SessionShape, Active, Exists
<1>6. Chips[s] = q.stack /\ Status[s] = "ACTIVE" /\ Owner[s] = u
  BY <1>2, <1>3 DEF Chips, Status, Owner, Active
<1>7. CASE CommitRebuy(r)
  <2> DEFINE row == [sessions[s] EXCEPT !.stack = q.stack + q.amount,
                                        !.bought = @ + q.amount, !.version = @ + 1]
  <2>1. sessions' = [sessions EXCEPT ![s] = row]
    <3>1. sessions' = [sessions EXCEPT ![s].stack = q.stack + q.amount,
                                       ![s].bought = @ + q.amount, ![s].version = @ + 1]
      BY <1>2, <1>7 DEF CommitRebuy
    <3> QED
      BY <1>2, <1>4, <3>1 DEF SessionRows
  <2>2. row.status = sessions[s].status /\ row.user = u /\ row.stack = q.stack + q.amount
    BY <1>4 DEF SessionRows
  <2> HIDE DEF row
  <2>3. /\ Chips' = [Chips EXCEPT ![s] = q.stack + q.amount] /\ Status' = Status /\ Owner' = Owner
    <3>1. /\ Chips' = [Chips EXCEPT ![s] = row.stack]
          /\ Status' = [Status EXCEPT ![s] = row.status]
          /\ Owner' = [Owner EXCEPT ![s] = row.user]
      BY <2>1, RowInBank
    <3> QED
      BY <2>2, <3>1, SameFieldInBank
  <2>4. q.amount \in BuyIns /\ q.amount \in Nat
    BY <1>7, CashTableConstants DEF CommitRebuy, At, TypeInv, RequestShape, WellFormed
  <2>5. q.bal = balance[u] /\ Payer(q) = u
    BY <1>2, <1>7 DEF CommitRebuy, At, LockInv, Holders, Holder, Payer
  <2>6. ~PaymentsEnabled \/ q.amount <= balance[u]
    <3>1. Overdraws(balance[u], -q.amount) => ~PaymentsEnabled
      BY <1>7, <2>5 DEF CommitRebuy, Postable
    <3> QED
      BY <1>5, <2>4, <3>1, WalletConstants DEF Overdraws
  <2>7. balance' = [balance EXCEPT ![u] = IF q.amount <= balance[u] THEN balance[u] - q.amount ELSE 0]
    <3>1. NewBalance(balance[u], -q.amount)
            = IF q.amount <= balance[u] THEN balance[u] - q.amount ELSE 0
      BY <1>5, <2>4 DEF NewBalance, Overdraws
    <3>2. balance' = [balance EXCEPT ![u] = NewBalance(balance[u], -q.amount)]
      BY <1>7, <2>5 DEF CommitRebuy, ApplyLedgerEntry
    <3> QED
      BY <3>1, <3>2
  <2>8. PICK amount \in BuyIns : amount = q.amount
    BY <2>4
  <2>9. Bank!Rebuy(s, amount)
    BY <1>6, <2>3, <2>6, <2>7, <2>8 DEF Bank!Rebuy, Bank!CanPay, Bank!Rest, Chips, Status, Owner
  <2> QED
    BY <2>9 DEF Bank!Next
<1>8. CASE CommitCashOut(r)
  <2> DEFINE row == [sessions[s] EXCEPT !.status = "CASHED_OUT", !.stack = 0,
                                        !.cashed = @ + q.stack, !.version = @ + 1]
  <2>1. sessions' = [sessions EXCEPT ![s] = row]
    <3>1. sessions' = [sessions EXCEPT ![s].status = "CASHED_OUT", ![s].stack = 0,
                                       ![s].cashed = @ + q.stack, ![s].version = @ + 1]
      BY <1>2, <1>8 DEF CommitCashOut
    <3> QED
      BY <1>2, <1>4, <3>1 DEF SessionRows
  <2>2. row.status = "CASHED_OUT" /\ row.user = u /\ row.stack = 0
    BY <1>4 DEF SessionRows
  <2> HIDE DEF row
  <2>3. /\ Chips' = [Chips EXCEPT ![s] = 0] /\ Status' = [Status EXCEPT ![s] = "CASHED_OUT"]
        /\ Owner' = Owner
    <3>1. /\ Chips' = [Chips EXCEPT ![s] = row.stack]
          /\ Status' = [Status EXCEPT ![s] = row.status]
          /\ Owner' = [Owner EXCEPT ![s] = row.user]
      BY <2>1, RowInBank
    <3> QED
      BY <2>2, <3>1, SameFieldInBank
  <2>4. q.bal = balance[u] /\ Payer(q) = u
    BY <1>2, <1>8 DEF CommitCashOut, At, CashOps, LockInv, Holders, Holder, Payer
  <2>5. balance' = [balance EXCEPT ![u] = balance[u] + q.stack]
    <3>1. NewBalance(balance[u], q.stack) = balance[u] + q.stack
      BY <1>4, <1>5 DEF NewBalance, Overdraws
    <3>2. balance' = [balance EXCEPT ![u] = NewBalance(balance[u], q.stack)]
      BY <1>8, <2>4 DEF CommitCashOut, ApplyLedgerEntry
    <3> QED
      BY <3>1, <3>2
  <2>6. Bank!CashOut(s)
    BY <1>6, <2>3, <2>5 DEF Bank!CashOut, Chips, Status, Owner
  <2> QED
    BY <2>6 DEF Bank!Next
<1>9. CASE ApplyMovement(r)
  <2> DEFINE row == [sessions[s] EXCEPT !.stack = q.stack + q.amount, !.version = @ + 1]
  <2>1. sessions' = [sessions EXCEPT ![s] = row]
    <3>1. sessions' = [sessions EXCEPT ![s].stack = q.stack + q.amount, ![s].version = @ + 1]
      BY <1>2, <1>9 DEF ApplyMovement
    <3> QED
      BY <1>2, <1>4, <3>1 DEF SessionRows
  <2>2. row.status = sessions[s].status /\ row.user = u /\ row.stack = q.stack + q.amount
    BY <1>4 DEF SessionRows
  <2> HIDE DEF row
  <2>3. /\ Chips' = [Chips EXCEPT ![s] = q.stack + q.amount] /\ Status' = Status /\ Owner' = Owner
    <3>1. /\ Chips' = [Chips EXCEPT ![s] = row.stack]
          /\ Status' = [Status EXCEPT ![s] = row.status]
          /\ Owner' = [Owner EXCEPT ![s] = row.user]
      BY <2>1, RowInBank
    <3> QED
      BY <2>2, <3>1, SameFieldInBank
  <2>4. q.amount \in Results /\ q.stack + q.amount >= 0 /\ UNCHANGED balance
    BY <1>9 DEF ApplyMovement, TypeInv, RequestShape, WellFormed, walletVars
  <2>5. PICK amount \in Results : amount = q.amount
    BY <2>4
  <2>6. Bank!Result(s, amount)
    BY <1>6, <2>3, <2>4, <2>5 DEF Bank!Result, Chips, Status, Owner
  <2> QED
    BY <2>6 DEF Bank!Next
<1> QED
  BY <1>7, <1>8, <1>9

\* Every step of the routes is a step of the bank or changes nothing in it.
LEMMA StepInBank ==
  ASSUME TypeInv, VersionInv, LockInv, [Next]_vars
  PROVE  [Bank!Next]_(Bank!vars)
<1>1. CASE UNCHANGED <<balance, sessions>>
  BY <1>1 DEF Bank!vars, Chips
<1>2. ASSUME NEW r \in Reqs, Arrive(r)
      PROVE  UNCHANGED <<balance, sessions>>
  BY <1>2, ArriveStarts
<1>3. ASSUME NEW r \in Reqs,
             \/ FindReplay(r) \/ ReadSession(r) \/ TakeWalletLock(r) \/ RetryCommit(r)
             \/ RefuseCommit(r) \/ RetryMovement(r) \/ InsertMovement(r) \/ ListSessions(r)
             \/ CloseNext(r) \/ SetClosed(r) \/ SetOpen(r) \/ Fail(r)
      PROVE  UNCHANGED <<balance, sessions>>
  BY <1>3 DEF FindReplay, ReadSession, TakeWalletLock, LockWallet, RetryCommit, RefuseCommit,
              RetryMovement, InsertMovement, ListSessions, CloseNext, SetClosed, SetOpen, Fail,
              walletVars, tableVars
<1>4. ASSUME NEW t \in Tables, CreateTable(t)
      PROVE  UNCHANGED <<balance, sessions>>
  BY <1>4 DEF CreateTable, walletVars
<1>5. CASE UNCHANGED vars
  BY <1>1, <1>5 DEF vars, walletVars, tableVars
<1> QED
  BY <1>1, <1>2, <1>3, <1>4, <1>5, SitInBank, SitGuestInBank, RowWriteInBank DEF Next, Proceed

\* A clube before its first request is a bank nobody has used.
LEMMA InitInBank == Init => Bank!Init
<1> SUFFICES ASSUME Init
             PROVE  Bank!Init
  OBVIOUS
<1>1. balance \in [Users -> Nat]
  BY InitTyped DEF TypeInv, TypeOK
<1>2. \A s \in Sessions : sessions[s] = NoSession
  BY DEF Init
<1> QED
  BY <1>1, <1>2 DEF Bank!Init, Chips, NoSession

\* TableService with its awaits, locks, versions, retries and failures implements
\* the bank in which every operation happens at one instant.
THEOREM Refinement == Spec => ImplementsChipBank
<1> QED
  BY InitInBank, StepInBank, InitTyped, NextTyped, InitVersions, NextVersions, InitLocks, NextLocks, PTL
  DEF Spec, ImplementsChipBank, Bank!Spec

=============================================================================
