-------------------------- MODULE TournamentProofs --------------------------
(***************************************************************************)
(* Why the money and the seats of the tournaments are right, for any       *)
(* numbers of users, tournaments, entries, requests, keys and settings.    *)
(*                                                                         *)
(* The inductive invariant DeskInv has two halves.  Books relates the      *)
(* rows: the ledgers' legs of an entry to its status and price, the prize  *)
(* pool to the entries kept, the vacancies to the entries alive.  Desk     *)
(* relates each request to the rows: the steps between the row lock of a   *)
(* tournament and the commit find what was read under the lock still so,   *)
(* because whoever writes to a tournament holds its lock or found it free. *)
(* An edit may wait for the lock with a stale answer about the entries;    *)
(* its steps keep the invariant only when they respect the entries.        *)
(*                                                                         *)
(* The seats (SeatInv) rest on what SeatingProofs says of each plan: a     *)
(* room is sound after every route, and who sits in it are the entries     *)
(* alive, besides those who were paid where they sat.                      *)
(***************************************************************************)
EXTENDS TournamentProps, SeatingProofs

\* A sum of natural numbers is a natural number.
LEMMA SumNatural ==
  ASSUME NEW S, IsFiniteSet(S), NEW f, \A x \in S : f[x] \in Nat
  PROVE  SumFunctionOnSet(f, S) \in Nat
<1> DEFINE F == {T \in SUBSET S : SumFunctionOnSet(f, T) \in Nat}
<1>1. {} \in F
  BY SumEmpty
<1>2. ASSUME NEW T \in SUBSET S, NEW x \in S \ T, T \in F
      PROVE  T \cup {x} \in F
  <2>1. IsFiniteSet(T)
    BY FS_Subset
  <2>2. \A z \in T : f[z] \in Int
    OBVIOUS
  <2>3. x \notin T /\ f[x] \in Int /\ f[x] \in Nat
    OBVIOUS
  <2>4. SumFunctionOnSet(f, T) \in Nat
    BY <1>2
  <2>5. SumFunctionOnSet(f, T \cup {x}) = SumFunctionOnSet(f, T) + f[x]
    BY ONLY <2>1, <2>2, <2>3, SumAdd, SMT
  <2> QED
    BY <2>3, <2>4, <2>5
<1> HIDE DEF F
<1>3. SUBSET S \subseteq F
  BY <1>1, <1>2, SubsetInduction
<1> QED
  BY <1>3 DEF F

-----------------------------------------------------------------------------
(* What a ledger holds for an entry.                                       *)

Listed(postings) == {postings[i] : i \in DOMAIN postings}

Marked(postings, e, type) == {x \in Listed(postings) : x.session = e /\ x.type = type}

\* The legs of an entry are the postings marked with it in the ledgers.
LEMMA LegsAreMarked ==
  ASSUME NEW books, NEW e, NEW type, NEW x
  PROVE  x \in Legs(books, e, type) <=> \E u \in Users : x \in Marked(books[u], e, type)
BY DEF Legs, Marked, Listed

\* What is listed after some postings were added.
LEMMA ListedGrows ==
  ASSUME NEW old \in Seq(TourPostings), NEW new \in Seq(TourPostings)
  PROVE  Listed(old \o new) = Listed(old) \cup Listed(new)
<1>1. /\ Len(old) \in Nat /\ Len(new) \in Nat
      /\ DOMAIN old = 1 .. Len(old) /\ DOMAIN new = 1 .. Len(new)
      /\ DOMAIN (old \o new) = 1 .. Len(old) + Len(new)
      /\ \A i \in 1 .. Len(old) : (old \o new)[i] = old[i]
      /\ \A i \in 1 .. Len(new) : (old \o new)[Len(old) + i] = new[i]
  OBVIOUS
<1>2. \A i \in 1 .. Len(old) : i \in DOMAIN (old \o new)
  BY <1>1
<1>3. \A i \in 1 .. Len(new) : Len(old) + i \in DOMAIN (old \o new)
  BY <1>1
<1>4. \A i \in DOMAIN (old \o new) :
        i \in 1 .. Len(old) \/ (i - Len(old) \in 1 .. Len(new) /\ i = Len(old) + (i - Len(old)))
  BY <1>1
<1>5. ASSUME NEW x \in Listed(old) \cup Listed(new) PROVE x \in Listed(old \o new)
  BY <1>1, <1>2, <1>3 DEF Listed
<1>6. ASSUME NEW x \in Listed(old \o new) PROVE x \in Listed(old) \cup Listed(new)
  <2>1. PICK i \in DOMAIN (old \o new) : x = (old \o new)[i]
    BY DEF Listed
  <2>2. CASE i \in 1 .. Len(old)
    BY <1>1, <2>1, <2>2 DEF Listed
  <2>3. CASE i - Len(old) \in 1 .. Len(new) /\ i = Len(old) + (i - Len(old))
    BY <1>1, <2>1, <2>3 DEF Listed
  <2> QED
    BY <1>4, <2>2, <2>3
<1> QED
  BY <1>5, <1>6

\* Some postings are added to each ledger, to most of them none.
Extended(books, more, later) ==
  \A u \in Users : /\ books[u] \in Seq(TourPostings) /\ more[u] \in Seq(TourPostings)
                   /\ later[u] = books[u] \o more[u]

\* Books to which every user's new postings are added.
LEMMA LegsGrow ==
  ASSUME NEW books, NEW more, NEW later, NEW e, NEW type, Extended(books, more, later)
  PROVE  Legs(later, e, type) = Legs(books, e, type) \cup Legs(more, e, type)
<1>1. \A u \in Users : Marked(later[u], e, type)
                         = Marked(books[u], e, type) \cup Marked(more[u], e, type)
  <2> SUFFICES ASSUME NEW u \in Users
               PROVE  Listed(later[u]) = Listed(books[u]) \cup Listed(more[u])
    BY DEF Marked
  <2> QED
    BY ListedGrows DEF Extended
<1>2. ASSUME NEW x
      PROVE  x \in Legs(later, e, type) <=> x \in Legs(books, e, type) \cup Legs(more, e, type)
  <2>1. /\ x \in Legs(later, e, type) <=> \E u \in Users : x \in Marked(later[u], e, type)
        /\ x \in Legs(books, e, type) <=> \E u \in Users : x \in Marked(books[u], e, type)
        /\ x \in Legs(more, e, type) <=> \E u \in Users : x \in Marked(more[u], e, type)
    BY LegsAreMarked
  <2> QED
    BY ONLY <1>1, <2>1, SMT
<1> QED
  BY ONLY <1>2, SMT

\* One user's ledger grows.
Posted(books, u, new, later) ==
  /\ books \in [Users -> Seq(TourPostings)] /\ u \in Users /\ new \in Seq(TourPostings)
  /\ later = [books EXCEPT ![u] = books[u] \o new]

\* Books in which one user's ledger grows.
LEMMA LegsOfOne ==
  ASSUME NEW books, NEW u, NEW new, NEW later, Posted(books, u, new, later), NEW e, NEW type
  PROVE  Legs(later, e, type) = Legs(books, e, type) \cup Marked(new, e, type)
<1> USE DEF Posted
<1> DEFINE more == [v \in Users |-> IF v = u THEN new ELSE <<>>]
<1>1. Extended(books, more, later)
  <2>1. \A v \in Users : /\ books[v] \in Seq(TourPostings) /\ more[v] \in Seq(TourPostings)
                         /\ later[v] = books[v] \o more[v]
    OBVIOUS
  <2> QED
    BY <2>1 DEF Extended
<1>2. \A v \in Users : Marked(more[v], e, type) = IF v = u THEN Marked(new, e, type) ELSE {}
  BY DEF Marked, Listed
<1> HIDE DEF more
<1>3. ASSUME NEW x
      PROVE  x \in Legs(more, e, type) <=> x \in Marked(new, e, type)
  <2>1. x \in Legs(more, e, type) <=> \E v \in Users : x \in Marked(more[v], e, type)
    BY LegsAreMarked
  <2> QED
    BY ONLY <1>2, <2>1, u \in Users, SMT
<1>4. Legs(later, e, type) = Legs(books, e, type) \cup Legs(more, e, type)
  BY ONLY <1>1, LegsGrow, SMT
<1> QED
  BY <1>3, <1>4

\* The type of a row of the ledger.
LEMMA EntryTyped ==
  ASSUME NEW key \in TourKeys, NEW type \in EntryTypes, NEW amount \in Int,
         NEW after \in Nat, NEW session \in Entries \cup {None}
  PROVE  Entry(key, type, amount, after, session) \in TourPostings
BY DEF Entry, TourPostings

\* What a posting is, and that it leaves no balance below zero.
LEMMA PostingsTyped ==
  ASSUME NEW bal \in Nat, NEW amount \in Int, NEW type \in EntryTypes, NEW key \in BaseKeys,
         NEW session \in Entries \cup {None}
  PROVE  /\ Postings(bal, amount, type, key, session) \in Seq(TourPostings)
         /\ NewBalance(bal, amount) \in Nat
         /\ Entry(key, type, amount, NewBalance(bal, amount), session) \in TourPostings
<1> DEFINE entry == Entry(key, type, amount, NewBalance(bal, amount), session)
           topUp == Entry(TopUpKey(key), "ADJUSTMENT", -(bal + amount), -amount, None)
<1>1. NewBalance(bal, amount) \in Nat
  BY DEF NewBalance, Overdraws
<1>2. entry \in TourPostings
  BY <1>1 DEF Entry, TourPostings, TourKeys
<1>3. Overdraws(bal, amount) => topUp \in TourPostings
  <2> SUFFICES ASSUME Overdraws(bal, amount) PROVE topUp \in TourPostings
    OBVIOUS
  <2>1. TopUpKey(key) \in TourKeys
    BY DEF TopUpKey, TourKeys
  <2>2. "ADJUSTMENT" \in EntryTypes /\ -(bal + amount) \in Int /\ -amount \in Nat
    BY DEF EntryTypes, Overdraws
  <2> QED
    BY <2>1, <2>2, EntryTyped
<1>4. Postings(bal, amount, type, key, session)
        = IF Overdraws(bal, amount) THEN <<topUp, entry>> ELSE <<entry>>
  BY DEF Postings
<1> HIDE DEF entry, topUp
<1>5. /\ Overdraws(bal, amount) => <<topUp, entry>> \in Seq(TourPostings)
      /\ <<entry>> \in Seq(TourPostings)
  BY <1>2, <1>3
<1> QED
  BY <1>1, <1>2, <1>4, <1>5 DEF entry

\* A posting leaves one leg, for the entry it is about; the standby credit none.
LEMMA PostingsMarked ==
  ASSUME NEW bal, NEW amount, NEW type, NEW key, NEW session, NEW e, NEW kind,
         kind # "ADJUSTMENT"
  PROVE  Marked(Postings(bal, amount, type, key, session), e, kind)
           = IF session = e /\ type = kind
             THEN {Entry(key, type, amount, NewBalance(bal, amount), session)} ELSE {}
<1> DEFINE entry == Entry(key, type, amount, NewBalance(bal, amount), session)
           topUp == Entry(TopUpKey(key), "ADJUSTMENT", -(bal + amount), -amount, None)
<1>1. Postings(bal, amount, type, key, session)
        = IF Overdraws(bal, amount) THEN <<topUp, entry>> ELSE <<entry>>
  BY DEF Postings
<1>2. entry.session = session /\ entry.type = type /\ topUp.type = "ADJUSTMENT"
  BY DEF Entry
<1> HIDE DEF entry, topUp
<1>3. Listed(<<topUp, entry>>) = {topUp, entry} /\ Listed(<<entry>>) = {entry}
  BY DEF Listed
<1>4. CASE Overdraws(bal, amount)
  <2>1. Marked(Postings(bal, amount, type, key, session), e, kind)
          = {x \in {topUp, entry} : x.session = e /\ x.type = kind}
    BY <1>1, <1>3, <1>4 DEF Marked
  <2> QED
    BY <1>2, <2>1 DEF entry
<1>5. CASE ~Overdraws(bal, amount)
  <2>1. Marked(Postings(bal, amount, type, key, session), e, kind)
          = {x \in {entry} : x.session = e /\ x.type = kind}
    BY <1>1, <1>3, <1>5 DEF Marked
  <2> QED
    BY <1>2, <2>1 DEF entry
<1> QED
  BY <1>4, <1>5

-----------------------------------------------------------------------------
(* The inductive invariant.                                                *)

Ops == RegisterOps \cup {"unregister", "eliminate", "redraw", "update", "finish"}

PayoutRows == [entry : Entries, position : Nat, amount : Nat]

TourRequests ==
  [pc : Phases, op : Ops \cup {None}, tour : Tournaments \cup {None},
   user : Users \cup {None}, key : Keys \cup {None}, bonus : BOOLEAN,
   entry : 0 .. MaxEntries, position : Nat, setting : {0} \cup DOMAIN Settings,
   pool : Nat, payouts : Seq(PayoutRows), next : Nat, winner : 0 .. MaxEntries]

RowsTyped ==
  /\ wallets \subseteq Users
  /\ balance \in [Users -> Nat]
  /\ ledger \in [Users -> Seq(TourPostings)]
  /\ tours \in [Tournaments -> TourRows]
  /\ entries \in [Entries -> EntryRows]

RequestsTyped ==
  /\ walletLock \in [Users -> Reqs \cup {None}]
  /\ tourLock \in [Tournaments -> Reqs \cup {None}]
  /\ req \in [Reqs -> TourRequests]

Open(t) == t \in Tournaments /\ tours[t].status # "NONE"
EntryIn(e, t) == e \in Entries /\ entries[e].status # "NONE" /\ entries[e].tour = t

\* What a request knows of itself at each of its steps.
ShapeOf(q) ==
  q.pc # "idle" =>
    /\ Open(q.tour) /\ q.op \in Ops
    /\ q.op \in RegisterOps \cup {"unregister"} =>
         q.key \in Keys /\ q.pc \in {"lookup", "lock", "wallet", "commit"}
    /\ q.op \in {"register", "unregister"} => q.user \in wallets
    /\ q.op = "registerGuest" => q.pc # "wallet"
    /\ q.op = "eliminate" => q.pc = "lock" /\ EntryIn(q.entry, q.tour)
    /\ q.op = "redraw" => q.pc = "lock"
    /\ q.op = "update" => q.pc \in {"update", "apply"} /\ q.setting \in DOMAIN Settings
    /\ q.op = "finish" =>
         /\ q.pc \in {"grade", "entries", "lock", "pay"}
         /\ q.pc = "entries" => q.setting \in DOMAIN Settings
         /\ \A i \in DOMAIN q.payouts : EntryIn(q.payouts[i].entry, q.tour)
         /\ q.winner # 0 => EntryIn(q.winner, q.tour)

\* The steps at which a request holds the row of its tournament.
HoldingSteps == {"wallet", "commit", "pay"}

MayEnterAgain(t, n) ==
  n > 0 => Setting(t).reentry /\ (Setting(t).maxReentries = 0 \/ n <= Setting(t).maxReentries)

\* What an operation found under the row lock of the tournament t, for its user u
\* and its entry e.
Granted(op, t, u, e) ==
  /\ op = "unregister" => e \in AliveIn(t) /\ entries[e].user = u
  /\ op \in RegisterOps => RoomForOne(t)
  /\ op = "register" =>
       NotAliveYet(t, u) /\ MayEnterAgain(t, Cardinality(PreviousEntries(t, u)))

Entitled(q) ==
  \A t \in Tournaments, u \in Users \cup {None}, e \in 0 .. MaxEntries :
    q.tour = t /\ q.user = u /\ q.entry = e => Granted(q.op, t, u, e)

\* Whoever holds the lock finds what it read still so.
LockShape(r) ==
  req[r].pc \in HoldingSteps => tourLock[req[r].tour] = r /\ Entitled(req[r])

\* What the ledgers hold for an entry, by its status.
EntrySound(e) ==
  LET row == entries[e]
  IN  /\ row.status = "NONE" => row.tour = None /\ BuyIns(e) = {} /\ Refunds(e) = {}
      /\ row.status # "NONE" =>
           /\ Open(row.tour) /\ row.user \in wallets
           /\ \E x \in Listed(ledger[row.user]) :
                /\ BuyIns(e) = {x}
                /\ row.status = "REGISTERED" =>
                     Refunds(e) = {} /\ x.amount = -Price(row.tour, row.bonus)
                /\ row.status = "REFUNDED" =>
                     \E y : Refunds(e) = {y} /\ y.amount = -x.amount

PoolSound(t) == tours[t].pool = Setting(t).buyIn * Cardinality(Kept(t))

\* A tournament that was opened has a setting, and its prize pool and its
\* vacancies are as they should be.
TourSound(t) ==
  tours[t].status # "NONE" =>
    /\ tours[t].setting \in DOMAIN Settings
    /\ PoolSound(t)
    /\ Cardinality(AliveIn(t)) <= Setting(t).max
    /\ \A u \in Users :
         LET mine == {e \in Kept(t) : entries[e].user = u}
         IN  /\ \A e, f \in AliveIn(t) :
                  entries[e].user = u /\ entries[f].user = u => e = f
             /\ ~Setting(t).reentry => Cardinality(mine) <= 1
             /\ Setting(t).maxReentries > 0 => Cardinality(mine) <= Setting(t).maxReentries + 1

\* A user without a wallet has no postings.
WalletSound(u) == u \notin wallets => balance[u] = 0 /\ ledger[u] = <<>>

Books ==
  /\ RowsTyped
  /\ \A e \in Entries : EntrySound(e)
  /\ \A t \in Tournaments : TourSound(t)
  /\ \A u \in Users : WalletSound(u)

Desk ==
  /\ RequestsTyped
  /\ \A r \in Reqs : ShapeOf(req[r]) /\ LockShape(r)

DeskInv == Books /\ Desk

-----------------------------------------------------------------------------
(* The initial states.                                                     *)

\* No entry is known to a ledger that holds a deposit at most.
LEMMA DepositsUnmarked ==
  ASSUME Init, NEW e, NEW kind, kind # "PIX_DEPOSIT"
  PROVE  Legs(ledger, e, kind) = {}
<1>1. \A u \in Users : Marked(ledger[u], e, kind) = {}
  <2> SUFFICES ASSUME NEW u \in Users PROVE Marked(ledger[u], e, kind) = {}
    OBVIOUS
  <2>1. CASE balance[u] = 0
    <3>1. ledger[u] = <<>>
      BY <2>1 DEF Init
    <3> QED
      BY <3>1 DEF Marked, Listed
  <2>2. CASE balance[u] # 0
    <3> DEFINE deposit == Entry(<<"deposit", u>>, "PIX_DEPOSIT", balance[u], balance[u], None)
    <3>1. ledger[u] = <<deposit>>
      BY <2>2 DEF Init
    <3>2. deposit.type = "PIX_DEPOSIT"
      BY DEF Entry
    <3> HIDE DEF deposit
    <3>3. Listed(ledger[u]) = {deposit}
      BY <3>1 DEF Listed
    <3> QED
      BY <3>2, <3>3 DEF Marked
  <2> QED
    BY <2>1, <2>2
<1> QED
  BY <1>1, LegsAreMarked

\* The invariant holds initially.
LEMMA InitDesk ==
  ASSUME Init
  PROVE  DeskInv
<1>1. RowsTyped
  <2>1. wallets \subseteq Users
    BY DEF Init
  <2>2. balance \in [Users -> Nat]
    <3>1. balance \in [Users -> Openings \cup {0}]
      BY DEF Init
    <3>2. Openings \cup {0} \subseteq Nat
      BY TournamentConstants
    <3> QED
      BY <3>1, <3>2
  <2>3. ledger \in [Users -> Seq(TourPostings)]
    <3> DEFINE deposit(u) == Entry(<<"deposit", u>>, "PIX_DEPOSIT", balance[u], balance[u], None)
    <3>1. \A u \in Users : deposit(u) \in TourPostings
      <4> SUFFICES ASSUME NEW u \in Users PROVE deposit(u) \in TourPostings
        OBVIOUS
      <4>1. <<"deposit", u>> \in TourKeys /\ "PIX_DEPOSIT" \in EntryTypes
        BY DEF TourKeys, BaseKeys, EntryTypes
      <4>2. balance[u] \in Nat /\ balance[u] \in Int
        BY <2>2
      <4> QED
        BY <4>1, <4>2, EntryTyped
    <3>2. ledger = [u \in Users |-> IF balance[u] = 0 THEN <<>> ELSE <<deposit(u)>>]
      BY DEF Init
    <3> HIDE DEF deposit
    <3> QED
      BY <3>1, <3>2
  <2>4. tours \in [Tournaments -> TourRows]
    BY DEF Init, NoTour, TourRows
  <2>5. entries \in [Entries -> EntryRows]
    BY DEF Init, NoEntry, EntryRows
  <2> QED
    BY <2>1, <2>2, <2>3, <2>4, <2>5 DEF RowsTyped
<1>2. ASSUME NEW e \in Entries PROVE EntrySound(e)
  <2>1. entries[e].status = "NONE" /\ entries[e].tour = None
    BY DEF Init, NoEntry
  <2>2. BuyIns(e) = {} /\ Refunds(e) = {}
    BY DepositsUnmarked DEF BuyIns, Refunds
  <2> QED
    BY <2>1, <2>2 DEF EntrySound
<1>3. ASSUME NEW t \in Tournaments PROVE TourSound(t)
  BY DEF Init, NoTour, TourSound
<1>4. ASSUME NEW u \in Users PROVE WalletSound(u)
  BY DEF Init, WalletSound
<1>5. RequestsTyped
  <2>1. Idle \in TourRequests
    BY TournamentConstants DEF Idle, TourRequests, Phases
  <2> QED
    BY <2>1 DEF Init, RequestsTyped
<1>6. ASSUME NEW r \in Reqs PROVE ShapeOf(req[r]) /\ LockShape(r)
  <2>1. req[r].pc = "idle"
    BY DEF Init, Idle
  <2> QED
    BY <2>1 DEF ShapeOf, LockShape, HoldingSteps
<1> QED
  BY <1>1, <1>2, <1>3, <1>4, <1>5, <1>6 DEF DeskInv, Books, Desk

-----------------------------------------------------------------------------
(* What a step leaves alone.                                               *)

\* The columns of the tables that the invariant is about do not change.
RowsKept == UNCHANGED <<wallets, balance, ledger, tours, entries>>

\* The tournament, its entries and who may pay for more of them stay as they are.
SameTour(t) ==
  /\ tours'[t] = tours[t]
  /\ \A e \in Entries : entries[e].tour = t \/ entries'[e].tour = t => entries'[e] = entries[e]

\* Rows are never deleted, nor given to another tournament or user.
RowsOnlyGrow ==
  /\ wallets \subseteq wallets'
  /\ \A t \in Tournaments : tours[t].status # "NONE" => tours'[t].status # "NONE"
  /\ \A e \in Entries : entries[e].status # "NONE" =>
       /\ entries'[e].status # "NONE" /\ entries'[e].tour = entries[e].tour
       /\ entries'[e].user = entries[e].user

\* The request r takes no lock that another request holds, nor touches what it locks.
LocksRespected(r) ==
  /\ tourLock' \in [Tournaments -> Reqs \cup {None}]
  /\ walletLock' \in [Users -> Reqs \cup {None}]
  /\ \A t \in Tournaments : tourLock[t] \in Reqs \ {r} =>
       tourLock'[t] = tourLock[t] /\ SameTour(t)

\* What was read under the lock of a tournament that stays as it is.
LEMMA SameTourReads ==
  ASSUME NEW t, SameTour(t), NEW u
  PROVE  /\ EntriesOf(t)' = EntriesOf(t) /\ AliveIn(t)' = AliveIn(t)
         /\ PreviousEntries(t, u)' = PreviousEntries(t, u)
         /\ NotAliveYet(t, u)' <=> NotAliveYet(t, u)
         /\ Setting(t)' = Setting(t)
         /\ RoomForOne(t)' <=> RoomForOne(t)
         /\ \A n : MayEnterAgain(t, n)' <=> MayEnterAgain(t, n)
<1>1. EntriesOf(t)' = EntriesOf(t) /\ \A e \in EntriesOf(t) : entries'[e] = entries[e]
  BY DEF SameTour, EntriesOf
<1>2. AliveIn(t)' = AliveIn(t)
  BY <1>1 DEF AliveIn
<1>3. NotRefunded(t)' = NotRefunded(t)
  BY <1>1 DEF NotRefunded
<1>4. PreviousEntries(t, u)' = PreviousEntries(t, u)
  BY <1>1, <1>3 DEF PreviousEntries, NotRefunded
<1>5. NotAliveYet(t, u)' <=> NotAliveYet(t, u)
  BY <1>1, <1>2 DEF NotAliveYet, AliveIn
<1>6. Setting(t)' = Setting(t)
  BY DEF Setting, SameTour
<1>7. RoomForOne(t)' <=> RoomForOne(t)
  BY <1>2, <1>6 DEF RoomForOne
<1>8. ASSUME NEW n PROVE MayEnterAgain(t, n)' <=> MayEnterAgain(t, n)
  BY <1>6 DEF MayEnterAgain
<1> QED
  BY <1>1, <1>2, <1>4, <1>5, <1>6, <1>7, <1>8

\* What is known of a request survives rows that only grow.
LEMMA ShapeKept ==
  ASSUME NEW q, ShapeOf(q), RowsOnlyGrow
  PROVE  ShapeOf(q)'
<1>1. Open(q.tour) => Open(q.tour)'
  BY DEF RowsOnlyGrow, Open
<1>2. \A e \in Entries : entries[e].status # "NONE" =>
        /\ entries'[e].status # "NONE" /\ entries'[e].tour = entries[e].tour
  BY DEF RowsOnlyGrow
<1> QED
  BY <1>1, <1>2 DEF ShapeOf, RowsOnlyGrow, EntryIn

\* What is read under a lock stays so while the tournament stays as it is.
LEMMA EntitledKept ==
  ASSUME NEW q, Entitled(q), SameTour(q.tour)
  PROVE  Entitled(q)'
<1> SUFFICES ASSUME NEW t \in Tournaments, NEW u \in Users \cup {None},
                    NEW e \in 0 .. MaxEntries, q.tour = t, q.user = u, q.entry = e
             PROVE  Granted(q.op, t, u, e)'
  BY DEF Entitled
<1>1. Granted(q.op, t, u, e) /\ SameTour(t)
  BY DEF Entitled
<1>2. /\ AliveIn(t)' = AliveIn(t)
      /\ PreviousEntries(t, u)' = PreviousEntries(t, u)
      /\ NotAliveYet(t, u)' <=> NotAliveYet(t, u)
      /\ RoomForOne(t)' <=> RoomForOne(t)
      /\ \A k : MayEnterAgain(t, k)' <=> MayEnterAgain(t, k)
  BY <1>1, SameTourReads
<1>3. e \in AliveIn(t) => entries'[e] = entries[e]
  BY <1>1 DEF SameTour, AliveIn, EntriesOf
<1> QED
  BY <1>1, <1>2, <1>3 DEF Granted

\* The step of one request leaves the others what they know, so only what it knows
\* itself is to be shown.
LEMMA DeskStep ==
  ASSUME Desk, RowsOnlyGrow, NEW r \in Reqs, NEW q \in TourRequests,
         req' = [req EXCEPT ![r] = q], LocksRespected(r),
         ShapeOf(q)', q.pc \in HoldingSteps => tourLock'[q.tour] = r /\ Entitled(q)'
  PROVE  Desk'
<1>1. RequestsTyped'
  BY DEF Desk, RequestsTyped, LocksRespected
<1>2. req'[r] = q /\ \A z \in Reqs \ {r} : req'[z] = req[z]
  BY DEF Desk, RequestsTyped
<1>3. ASSUME NEW z \in Reqs \ {r} PROVE ShapeOf(req[z])' /\ LockShape(z)'
  <2>1. PICK p : p = req[z]
    OBVIOUS
  <2>2. req'[z] = p /\ ShapeOf(p) /\ p \in TourRequests
    BY <1>2, <2>1 DEF Desk, RequestsTyped
  <2>3. ShapeOf(p)'
    BY <2>2, ShapeKept
  <2>4. ASSUME p.pc \in HoldingSteps PROVE tourLock'[p.tour] = z /\ Entitled(p)'
    <3>1. tourLock[p.tour] = z /\ Entitled(p)
      BY <2>1, <2>4 DEF Desk, LockShape
    <3>2. p.tour \in Tournaments
      BY <2>2, <2>4 DEF ShapeOf, HoldingSteps, Open
    <3>3. tourLock'[p.tour] = z /\ SameTour(p.tour)
      BY <3>1, <3>2 DEF LocksRespected
    <3> QED
      BY <3>1, <3>3, EntitledKept
  <2> QED
    BY <2>2, <2>3, <2>4 DEF LockShape
<1>4. ShapeOf(req[r])' /\ LockShape(r)'
  BY <1>2 DEF LockShape
<1> QED
  BY <1>1, <1>3, <1>4 DEF Desk

\* No posting is ever removed.
LedgersGrow == \A u \in Users : Listed(ledger[u]) \subseteq Listed(ledger'[u])

\* An entry that the step is not about.
LEMMA EntryKept ==
  ASSUME RowsTyped, RowsOnlyGrow, LedgersGrow, NEW e \in Entries, EntrySound(e),
         entries'[e] = entries[e], BuyIns(e)' = BuyIns(e), Refunds(e)' = Refunds(e),
         entries[e].status = "REGISTERED" =>
           tours'[entries[e].tour].setting = tours[entries[e].tour].setting
  PROVE  EntrySound(e)'
<1>1. CASE entries[e].status = "NONE"
  BY <1>1 DEF EntrySound
<1>2. CASE entries[e].status # "NONE"
  <2>1. PICK t, u, b : t = entries[e].tour /\ u = entries[e].user /\ b = entries[e].bonus
    OBVIOUS
  <2>2. PICK x \in Listed(ledger[u]) :
          /\ BuyIns(e) = {x}
          /\ entries[e].status = "REGISTERED" => Refunds(e) = {} /\ x.amount = -Price(t, b)
          /\ entries[e].status = "REFUNDED" =>
               \E y : Refunds(e) = {y} /\ y.amount = -x.amount
    BY <1>2, <2>1 DEF EntrySound
  <2>3. Open(t) /\ u \in wallets
    BY <1>2, <2>1 DEF EntrySound
  <2>4. Open(t)' /\ u \in wallets' /\ x \in Listed(ledger'[u])
    BY <2>2, <2>3 DEF Open, RowsOnlyGrow, LedgersGrow, RowsTyped
  <2>5. entries[e].status = "REGISTERED" => Price(t, b)' = Price(t, b)
    BY <2>1 DEF Price, Setting
  <2>6. \E z \in Listed(ledger'[u]) :
          /\ BuyIns(e)' = {z}
          /\ entries[e].status = "REGISTERED" => Refunds(e)' = {} /\ z.amount = -Price(t, b)'
          /\ entries[e].status = "REFUNDED" =>
               \E y : Refunds(e)' = {y} /\ y.amount = -z.amount
    BY <2>2, <2>4, <2>5
  <2>7. entries'[e].tour = t /\ entries'[e].user = u /\ entries'[e].bonus = b
    BY <2>1
  <2> QED
    BY <1>2, <2>4, <2>6, <2>7 DEF EntrySound
<1> QED
  BY <1>1, <1>2

\* A step that writes no row keeps the books.
LEMMA BooksKept ==
  ASSUME Books, RowsKept
  PROVE  Books' /\ RowsOnlyGrow /\ \A t : SameTour(t)
<1>1. UNCHANGED <<wallets, balance, ledger, tours, entries>>
  BY DEF RowsKept
<1>2. RowsOnlyGrow
  BY <1>1 DEF RowsOnlyGrow
<1>3. RowsTyped'
  BY <1>1 DEF Books, RowsTyped
<1>4. ASSUME NEW e \in Entries PROVE EntrySound(e)'
  <2>1. EntrySound(e)
    BY DEF Books
  <2>2. BuyIns(e)' = BuyIns(e) /\ Refunds(e)' = Refunds(e)
    BY <1>1 DEF BuyIns, Refunds, Legs
  <2>3. LedgersGrow /\ entries'[e] = entries[e]
    BY <1>1 DEF LedgersGrow
  <2>4. tours' = tours /\ RowsTyped
    BY <1>1 DEF Books
  <2> QED
    BY <1>2, <2>1, <2>2, <2>3, <2>4, EntryKept
<1>5. ASSUME NEW t \in Tournaments PROVE TourSound(t)'
  <2>1. TourSound(t)
    BY DEF Books
  <2>2. Kept(t)' = Kept(t) /\ AliveIn(t)' = AliveIn(t) /\ Setting(t)' = Setting(t)
    BY <1>1 DEF Kept, AliveIn, EntriesOf, Refunds, Legs, Setting
  <2> QED
    BY <1>1, <2>1, <2>2 DEF TourSound, PoolSound
<1>6. ASSUME NEW u \in Users PROVE WalletSound(u)'
  BY <1>1 DEF Books, WalletSound
<1>7. \A t : SameTour(t)
  BY <1>1 DEF SameTour
<1> QED
  BY <1>2, <1>3, <1>4, <1>5, <1>6, <1>7 DEF Books

\* A step of a request that writes no row, and takes no lock but a free one.
LEMMA QuietStep ==
  ASSUME DeskInv, NEW r \in Reqs, NEW q \in TourRequests,
         RowsKept, req' = [req EXCEPT ![r] = q],
         tourLock' \in [Tournaments -> Reqs \cup {None}],
         walletLock' \in [Users -> Reqs \cup {None}],
         \A t \in Tournaments : tourLock[t] \in Reqs \ {r} => tourLock'[t] = tourLock[t],
         ShapeOf(q), q.pc \in HoldingSteps => tourLock'[q.tour] = r /\ Entitled(q)
  PROVE  DeskInv'
<1>1. Books' /\ RowsOnlyGrow /\ \A t : SameTour(t)
  BY BooksKept DEF DeskInv
<1>2. LocksRespected(r)
  BY <1>1 DEF LocksRespected
<1>3. ShapeOf(q)' /\ (Entitled(q) => Entitled(q)')
  BY <1>1, ShapeKept, EntitledKept
<1>4. Desk'
  BY <1>1, <1>2, <1>3, DeskStep DEF DeskInv
<1> QED
  BY <1>1, <1>4 DEF DeskInv

\* The same when the locks are not touched and the request holds none.
LEMMA IdleStep ==
  ASSUME DeskInv, NEW r \in Reqs, NEW q \in TourRequests,
         RowsKept, UNCHANGED <<tourLock, walletLock>>, req' = [req EXCEPT ![r] = q],
         ShapeOf(q), q.pc \notin HoldingSteps
  PROVE  DeskInv'
<1>1. /\ tourLock' \in [Tournaments -> Reqs \cup {None}]
      /\ walletLock' \in [Users -> Reqs \cup {None}]
  BY DEF DeskInv, Desk, RequestsTyped
<1> QED
  BY <1>1, QuietStep

\* The request that has nothing to do.
LEMMA IdleTyped == Idle \in TourRequests /\ Idle.pc = "idle" /\ ShapeOf(Idle)
<1>1. Idle \in TourRequests
  BY TournamentConstants DEF Idle, TourRequests, Phases
<1> QED
  BY <1>1 DEF Idle, ShapeOf

\* A transaction that is rolled back.
LEMMA RollbackKeeps ==
  ASSUME DeskInv, NEW r \in Reqs, Rollback(r)
  PROVE  DeskInv'
<1>1. RowsKept
  BY DEF Rollback, RowsKept, tourVars
<1>2. req' = [req EXCEPT ![r] = Idle]
  BY DEF Rollback, Finish
<1>3. /\ tourLock' = ToursUnlocked(r) /\ walletLock' = Unlocked(r)
      /\ tourLock \in [Tournaments -> Reqs \cup {None}]
      /\ walletLock \in [Users -> Reqs \cup {None}]
  BY DEF Rollback, DeskInv, Desk, RequestsTyped
<1>4. /\ tourLock' \in [Tournaments -> Reqs \cup {None}]
      /\ walletLock' \in [Users -> Reqs \cup {None}]
      /\ \A t \in Tournaments : tourLock[t] \in Reqs \ {r} => tourLock'[t] = tourLock[t]
  BY <1>3 DEF ToursUnlocked, Unlocked
<1>5. Idle.pc \notin HoldingSteps
  BY IdleTyped DEF HoldingSteps
<1> QED
  BY <1>1, <1>2, <1>4, <1>5, IdleTyped, QuietStep

\* Only a request's own record changes, and it holds nothing.
LEMMA BeginKeeps ==
  ASSUME DeskInv, NEW r \in Reqs, NEW q \in TourRequests, Begin(r, q), ShapeOf(q),
         q.pc \notin HoldingSteps
  PROVE  DeskInv' /\ q.op \in Workload
<1>1. RowsKept /\ UNCHANGED <<tourLock, walletLock>> /\ req' = [req EXCEPT ![r] = q]
  BY DEF Begin, RowsKept, walletVars, tourVars
<1> QED
  BY <1>1, IdleStep DEF Begin

-----------------------------------------------------------------------------
(* The steps that write no row.                                            *)

\* The sets of entries of a tournament are finite.
LEMMA EntriesFinite ==
  ASSUME NEW S, S \subseteq Entries
  PROVE  IsFiniteSet(S) /\ Cardinality(S) \in Nat
<1>1. IsFiniteSet(Entries)
  BY TournamentConstants, FS_Interval DEF Entries
<1> QED
  BY <1>1, FS_Subset, FS_CardinalityType

\* What was collected is not negative.
LEMMA PoolNatural ==
  ASSUME Books, NEW t \in Tournaments, tours[t].status # "NONE"
  PROVE  /\ tours[t].pool \in Nat /\ tours[t].setting \in DOMAIN Settings
         /\ Setting(t).buyIn \in Nat /\ Setting(t).fee \in Nat /\ Setting(t).bonus \in Nat
         /\ Setting(t).max \in Nat /\ Setting(t).maxReentries \in Nat
<1>1. TourSound(t)
  BY DEF Books
<1>2. Kept(t) \subseteq Entries
  BY DEF Kept, EntriesOf
<1>3. Cardinality(Kept(t)) \in Nat
  BY <1>2, EntriesFinite
<1>4. tours[t].setting \in DOMAIN Settings /\ PoolSound(t)
  BY <1>1 DEF TourSound
<1>5. /\ Setting(t).buyIn \in Nat /\ Setting(t).fee \in Nat /\ Setting(t).bonus \in Nat
      /\ Setting(t).max \in Nat /\ Setting(t).maxReentries \in Nat
  BY <1>4, SettingConstants DEF Setting
<1>6. \A a, b \in Nat : a * b \in Nat
  OBVIOUS
<1>7. tours[t].pool \in Nat
  BY <1>3, <1>4, <1>5, <1>6 DEF PoolSound
<1> QED
  BY <1>4, <1>5, <1>7

\* What a request starts with.
LEMMA ArriveKeeps ==
  ASSUME DeskInv, NEW r \in Reqs, Arrive(r)
  PROVE  DeskInv'
<1> USE DEF HoldingSteps
<1>1. CASE RegisterEntry(r)
  <2>1. PICK u \in wallets, t \in Tournaments, k \in Keys, b \in BOOLEAN :
          /\ tours[t].status # "NONE"
          /\ Begin(r, [Idle EXCEPT !.pc = "lookup", !.op = "register", !.tour = t, !.user = u,
                                   !.key = k, !.bonus = b])
    BY <1>1 DEF RegisterEntry
  <2>2. PICK q : q = [Idle EXCEPT !.pc = "lookup", !.op = "register", !.tour = t, !.user = u,
                                  !.key = k, !.bonus = b]
    OBVIOUS
  <2>3. u \in Users
    BY DEF DeskInv, Books, RowsTyped
  <2>4. q \in TourRequests
    BY <2>2, <2>3, IdleTyped DEF TourRequests, Phases, Ops, RegisterOps
  <2>5. ShapeOf(q) /\ q.pc \notin HoldingSteps
    BY <2>1, <2>2 DEF Idle, ShapeOf, Open, Ops, RegisterOps
  <2> QED
    BY <2>1, <2>2, <2>4, <2>5, BeginKeeps
<1>2. CASE RegisterGuestEntry(r)
  <2>1. PICK t \in Tournaments, k \in Keys, b \in BOOLEAN :
          /\ tours[t].status # "NONE"
          /\ Begin(r, [Idle EXCEPT !.pc = "lookup", !.op = "registerGuest", !.tour = t,
                                   !.key = k, !.bonus = b])
    BY <1>2 DEF RegisterGuestEntry
  <2>2. PICK q : q = [Idle EXCEPT !.pc = "lookup", !.op = "registerGuest", !.tour = t,
                                  !.key = k, !.bonus = b]
    OBVIOUS
  <2>4. q \in TourRequests
    BY <2>2, IdleTyped DEF TourRequests, Phases, Ops, RegisterOps
  <2>5. ShapeOf(q) /\ q.pc \notin HoldingSteps
    BY <2>1, <2>2 DEF Idle, ShapeOf, Open, Ops, RegisterOps
  <2> QED
    BY <2>1, <2>2, <2>4, <2>5, BeginKeeps
<1>3. CASE UnregisterEntry(r)
  <2>1. PICK u \in wallets, t \in Tournaments, k \in Keys :
          /\ tours[t].status # "NONE"
          /\ Begin(r, [Idle EXCEPT !.pc = "lookup", !.op = "unregister", !.tour = t, !.user = u,
                                   !.key = k])
    BY <1>3 DEF UnregisterEntry
  <2>2. PICK q : q = [Idle EXCEPT !.pc = "lookup", !.op = "unregister", !.tour = t, !.user = u,
                                  !.key = k]
    OBVIOUS
  <2>3. u \in Users
    BY DEF DeskInv, Books, RowsTyped
  <2>4. q \in TourRequests
    BY <2>2, <2>3, IdleTyped DEF TourRequests, Phases, Ops, RegisterOps
  <2>5. ShapeOf(q) /\ q.pc \notin HoldingSteps
    BY <2>1, <2>2 DEF Idle, ShapeOf, Open, Ops, RegisterOps
  <2> QED
    BY <2>1, <2>2, <2>4, <2>5, BeginKeeps
<1>4. CASE EliminateEntry(r)
  <2>1. PICK e \in Entries, p \in Positions \cup {0} :
          /\ entries[e].status # "NONE"
          /\ Begin(r, [Idle EXCEPT !.pc = "lock", !.op = "eliminate", !.tour = entries[e].tour,
                                   !.entry = e, !.position = p])
    BY <1>4 DEF EliminateEntry
  <2>2. PICK q, t : /\ t = entries[e].tour
                    /\ q = [Idle EXCEPT !.pc = "lock", !.op = "eliminate", !.tour = t,
                                        !.entry = e, !.position = p]
    OBVIOUS
  <2>3. Open(t) /\ p \in Nat /\ e \in 0 .. MaxEntries
    BY <2>1, <2>2, TournamentConstants DEF DeskInv, Books, EntrySound, Entries
  <2>4. q \in TourRequests
    BY <2>2, <2>3, IdleTyped DEF TourRequests, Phases, Ops, RegisterOps, Open
  <2>5. ShapeOf(q) /\ q.pc \notin HoldingSteps
    BY <2>1, <2>2, <2>3 DEF Idle, ShapeOf, Open, Ops, RegisterOps, EntryIn
  <2> QED
    BY <2>1, <2>2, <2>4, <2>5, BeginKeeps
<1>5. CASE RedrawTables(r)
  <2>1. PICK t \in Tournaments :
          /\ tours[t].status # "NONE"
          /\ Begin(r, [Idle EXCEPT !.pc = "lock", !.op = "redraw", !.tour = t])
    BY <1>5 DEF RedrawTables
  <2>2. PICK q : q = [Idle EXCEPT !.pc = "lock", !.op = "redraw", !.tour = t]
    OBVIOUS
  <2>4. q \in TourRequests
    BY <2>2, IdleTyped DEF TourRequests, Phases, Ops, RegisterOps
  <2>5. ShapeOf(q) /\ q.pc \notin HoldingSteps
    BY <2>1, <2>2 DEF Idle, ShapeOf, Open, Ops, RegisterOps
  <2> QED
    BY <2>1, <2>2, <2>4, <2>5, BeginKeeps
<1>6. CASE UpdateTournament(r)
  <2>1. PICK t \in Tournaments, n \in ValidSettings :
          /\ tours[t].status = "REGISTERING"
          /\ Begin(r, [Idle EXCEPT !.pc = "update", !.op = "update", !.tour = t, !.setting = n])
    BY <1>6 DEF UpdateTournament
  <2>2. PICK q : q = [Idle EXCEPT !.pc = "update", !.op = "update", !.tour = t, !.setting = n]
    OBVIOUS
  <2>3. n \in DOMAIN Settings
    BY DEF ValidSettings
  <2>4. q \in TourRequests
    BY <2>2, <2>3, IdleTyped DEF TourRequests, Phases, Ops, RegisterOps
  <2>5. ShapeOf(q) /\ q.pc \notin HoldingSteps
    BY <2>1, <2>2, <2>3 DEF Idle, ShapeOf, Open, Ops, RegisterOps
  <2> QED
    BY <2>1, <2>2, <2>4, <2>5, BeginKeeps
<1>7. CASE FinishTournament(r)
  <2>1. PICK t \in Tournaments :
          /\ tours[t].status \in {"REGISTERING", "RUNNING"}
          /\ Begin(r, [Idle EXCEPT !.pc = "grade", !.op = "finish", !.tour = t,
                                   !.pool = tours[t].pool])
    BY <1>7 DEF FinishTournament
  <2>2. PICK q, n : /\ n = tours[t].pool
                    /\ q = [Idle EXCEPT !.pc = "grade", !.op = "finish", !.tour = t, !.pool = n]
    OBVIOUS
  <2>3. n \in Nat
    BY <2>1, <2>2, PoolNatural DEF DeskInv
  <2>4. q \in TourRequests
    BY <2>2, <2>3, IdleTyped DEF TourRequests, Phases, Ops, RegisterOps
  <2>5. ShapeOf(q) /\ q.pc \notin HoldingSteps
    BY <2>1, <2>2 DEF Idle, ShapeOf, Open, Ops, RegisterOps
  <2> QED
    BY <2>1, <2>2, <2>4, <2>5, BeginKeeps
<1> QED
  BY <1>1, <1>2, <1>3, <1>4, <1>5, <1>6, <1>7 DEF Arrive

\* The request ends and what it held is not touched.
LEMMA FinishKeeps ==
  ASSUME DeskInv, NEW r \in Reqs, Finish(r), RowsKept, UNCHANGED <<tourLock, walletLock>>
  PROVE  DeskInv'
<1>1. req' = [req EXCEPT ![r] = Idle]
  BY DEF Finish
<1>2. Idle.pc \notin HoldingSteps
  BY IdleTyped DEF HoldingSteps
<1> QED
  BY <1>1, <1>2, IdleTyped, IdleStep

\* What is known of each request.
LEMMA OwnShape ==
  ASSUME DeskInv, NEW r \in Reqs
  PROVE  req[r] \in TourRequests /\ ShapeOf(req[r]) /\ LockShape(r)
BY DEF DeskInv, Desk, RequestsTyped

\* The replay that is looked for before the transaction.
LEMMA FindReplayKeeps ==
  ASSUME DeskInv, NEW r \in Reqs, FindReplay(r)
  PROVE  DeskInv'
<1>1. RowsKept /\ UNCHANGED <<tourLock, walletLock>> /\ req[r].pc = "lookup"
  BY DEF FindReplay, RowsKept, walletVars, tourVars
<1>2. CASE Goto(r, "lock")
  <2>1. PICK q : q = [req[r] EXCEPT !.pc = "lock"]
    OBVIOUS
  <2>2. req' = [req EXCEPT ![r] = q]
    BY <1>2, <2>1 DEF Goto, DeskInv, Desk, RequestsTyped
  <2>3. q \in TourRequests
    BY <2>1, OwnShape, SMTT(40) DEF TourRequests, Phases
  <2>4. ShapeOf(q) /\ q.pc \notin HoldingSteps
    BY <1>1, <2>1, OwnShape DEF ShapeOf, HoldingSteps, TourRequests, Ops, RegisterOps
  <2> QED
    BY <1>1, <2>2, <2>3, <2>4, IdleStep
<1> QED
  BY <1>1, <1>2, FinishKeeps DEF FindReplay

\* The first read of an edit, which takes the snapshot.
LEMMA StartUpdateKeeps ==
  ASSUME DeskInv, NEW r \in Reqs, StartUpdate(r)
  PROVE  DeskInv'
<1>1. RowsKept /\ UNCHANGED <<tourLock, walletLock>> /\ req[r].pc = "update"
  BY DEF StartUpdate, RowsKept, walletVars, tourVars
<1>2. CASE Goto(r, "apply")
  <2>1. PICK q : q = [req[r] EXCEPT !.pc = "apply"]
    OBVIOUS
  <2>2. req' = [req EXCEPT ![r] = q]
    BY <1>2, <2>1 DEF Goto, DeskInv, Desk, RequestsTyped
  <2>3. q \in TourRequests
    BY <2>1, OwnShape DEF TourRequests, Phases
  <2>4. ShapeOf(q) /\ q.pc \notin HoldingSteps
    BY <1>1, <2>1, OwnShape DEF ShapeOf, HoldingSteps, TourRequests, Ops, RegisterOps
  <2> QED
    BY <1>1, <2>2, <2>3, <2>4, IdleStep
<1> QED
  BY <1>1, <1>2, FinishKeeps DEF StartUpdate

\* A finish reads the grade.
LEMMA FinishReadGradeKeeps ==
  ASSUME DeskInv, NEW r \in Reqs, FinishReadGrade(r)
  PROVE  DeskInv'
<1>1. RowsKept /\ UNCHANGED <<tourLock, walletLock>> /\ req[r].pc = "grade"
  BY DEF FinishReadGrade, RowsKept, walletVars, tourVars
<1>2. PICK n, q : /\ n = tours[req[r].tour].setting
                  /\ q = [req[r] EXCEPT !.pc = "entries", !.setting = n]
  OBVIOUS
<1>3. req' = [req EXCEPT ![r] = q]
  BY <1>2 DEF FinishReadGrade, DeskInv, Desk, RequestsTyped
<1>4. req[r].op = "finish" /\ Open(req[r].tour)
  BY <1>1, OwnShape DEF ShapeOf, Ops, RegisterOps
<1>5. n \in DOMAIN Settings
  BY <1>2, <1>4, PoolNatural DEF Open, DeskInv
<1>6. q \in TourRequests
  <2>1. "entries" \in Phases /\ n \in {0} \cup DOMAIN Settings
    BY <1>5 DEF Phases
  <2>2. PICK old : old = req[r]
    OBVIOUS
  <2>3. old \in TourRequests
    BY <2>2, OwnShape
  <2>4. q = [old EXCEPT !.pc = "entries", !.setting = n]
    BY <1>2, <2>2
  <2> QED
    BY ONLY <2>1, <2>3, <2>4 DEF TourRequests
<1>7. ShapeOf(q) /\ q.pc \notin HoldingSteps
  BY <1>1, <1>2, <1>4, <1>5, OwnShape DEF ShapeOf, HoldingSteps, TourRequests, Ops, RegisterOps
<1> QED
  BY <1>1, <1>3, <1>6, <1>7, IdleStep

\* An elimination that is refused, and a redraw, leave the entries alone.
LEMMA QuietCommitKeeps ==
  ASSUME DeskInv, NEW r \in Reqs, RefuseEliminate(r) \/ CommitRedraw(r)
  PROVE  DeskInv'
<1>1. Finish(r) /\ RowsKept /\ UNCHANGED <<tourLock, walletLock>>
  BY DEF RefuseEliminate, CommitRedraw, RowsKept, walletVars, tourVars
<1> QED
  BY <1>1, FinishKeeps

\* The user's wallet is locked under the row of the tournament.
LEMMA TakeWalletLockKeeps ==
  ASSUME DeskInv, NEW r \in Reqs, TakeWalletLock(r)
  PROVE  DeskInv'
<1>1. /\ RowsKept /\ UNCHANGED tourLock /\ req[r].pc = "wallet"
      /\ LockWallet(r, req[r].user) /\ Goto(r, "commit")
  BY DEF TakeWalletLock, RowsKept, walletVars, tourVars, LockWallet
<1>2. PICK q : q = [req[r] EXCEPT !.pc = "commit"]
  OBVIOUS
<1>3. req' = [req EXCEPT ![r] = q]
  BY <1>1, <1>2 DEF Goto, DeskInv, Desk, RequestsTyped
<1>4. q \in TourRequests
  BY <1>2, OwnShape DEF TourRequests, Phases
<1>5. ShapeOf(q)
  BY <1>1, <1>2, OwnShape DEF ShapeOf, HoldingSteps, TourRequests, Ops, RegisterOps
<1>6. tourLock'[q.tour] = r /\ Entitled(q)
  <2>1. tourLock[req[r].tour] = r /\ Entitled(req[r])
    BY <1>1, OwnShape DEF LockShape, HoldingSteps
  <2>2. q.tour = req[r].tour /\ q.user = req[r].user /\ q.entry = req[r].entry /\ q.op = req[r].op
    BY <1>2, OwnShape DEF TourRequests
  <2> QED
    BY <1>1, <2>1, <2>2 DEF Entitled
<1>7. /\ tourLock' \in [Tournaments -> Reqs \cup {None}]
      /\ walletLock' \in [Users -> Reqs \cup {None}]
      /\ \A t \in Tournaments : tourLock[t] \in Reqs \ {r} => tourLock'[t] = tourLock[t]
  BY <1>1 DEF DeskInv, Desk, RequestsTyped, LockWallet
<1> QED
  BY <1>1, <1>3, <1>4, <1>5, <1>6, <1>7, QuietStep

\* The winners' wallets, one after the other.
LEMMA LockNextWinnerKeeps ==
  ASSUME DeskInv, NEW r \in Reqs, LockNextWinner(r)
  PROVE  DeskInv'
<1>1. /\ RowsKept /\ UNCHANGED tourLock /\ req[r].pc = "pay"
      /\ walletLock' = [walletLock EXCEPT ![NextWinner(req[r])] = r]
      /\ req' = [req EXCEPT ![r].next = @ + 1]
  BY DEF LockNextWinner, RowsKept, walletVars, tourVars
<1>2. PICK old, n, q : old = req[r] /\ n = old.next + 1 /\ q = [old EXCEPT !.next = n]
  OBVIOUS
<1>3. req' = [req EXCEPT ![r] = q]
  BY <1>1, <1>2 DEF DeskInv, Desk, RequestsTyped
<1>4. q \in TourRequests
  <2>1. old \in TourRequests
    BY <1>2, OwnShape
  <2>2. n \in Nat
    BY <1>2, <2>1 DEF TourRequests
  <2> QED
    BY ONLY <1>2, <2>1, <2>2 DEF TourRequests
<1>5. ShapeOf(q)
  BY <1>1, <1>2, OwnShape DEF ShapeOf, HoldingSteps, TourRequests, Ops, RegisterOps
<1>6. tourLock'[q.tour] = r /\ Entitled(q)
  <2>1. tourLock[req[r].tour] = r /\ Entitled(req[r])
    BY <1>1, OwnShape DEF LockShape, HoldingSteps
  <2>2. q.tour = req[r].tour /\ q.user = req[r].user /\ q.entry = req[r].entry /\ q.op = req[r].op
    BY <1>2, OwnShape DEF TourRequests
  <2> QED
    BY <1>1, <2>1, <2>2 DEF Entitled
<1>7. /\ tourLock' \in [Tournaments -> Reqs \cup {None}]
      /\ walletLock' \in [Users -> Reqs \cup {None}]
      /\ \A t \in Tournaments : tourLock[t] \in Reqs \ {r} => tourLock'[t] = tourLock[t]
  BY <1>1 DEF DeskInv, Desk, RequestsTyped
<1> QED
  BY <1>1, <1>3, <1>4, <1>5, <1>6, <1>7, QuietStep

\* A request that takes the free row of its tournament.
LEMMA RowTaken ==
  ASSUME DeskInv, NEW r \in Reqs, NEW t \in Tournaments, TourFree(t),
         tourLock' = [tourLock EXCEPT ![t] = r]
  PROVE  /\ tourLock' \in [Tournaments -> Reqs \cup {None}] /\ tourLock'[t] = r
         /\ \A z \in Tournaments : tourLock[z] \in Reqs \ {r} => tourLock'[z] = tourLock[z]
BY WalletConstants DEF DeskInv, Desk, RequestsTyped, TourFree

\* Everything that decides about an entry is read under the row lock.
LEMMA LockAndCheckKeeps ==
  ASSUME DeskInv, NEW r \in Reqs, LockAndCheck(r)
  PROVE  DeskInv'
<1> DEFINE own == req[r]
<1>1. /\ RowsKept /\ UNCHANGED walletLock /\ own.pc = "lock"
      /\ own.op \in RegisterOps \cup {"unregister"} /\ TourFree(own.tour)
  BY DEF LockAndCheck, RowsKept, walletVars, tourVars
<1>2. PICK t, u, op : t = own.tour /\ u = own.user /\ op = own.op
  OBVIOUS
<1>3. t \in Tournaments /\ op \in {"register", "registerGuest", "unregister"}
  BY <1>1, <1>2, OwnShape DEF ShapeOf, Open, RegisterOps
<1>4. CASE Finish(r) /\ UNCHANGED tourLock
  BY <1>1, <1>4, FinishKeeps
<1>5. CASE ~(Finish(r) /\ UNCHANGED tourLock)
  <2> DEFINE previous == IF op = "register" THEN Cardinality(PreviousEntries(t, u)) ELSE 0
  <2>1. IF op = "unregister"
        THEN \E e \in AliveIn(t) : entries[e].user = u
        ELSE /\ Eligible(t, previous, own.bonus)
             /\ op = "register" => NotAliveYet(t, u)
    BY <1>2, <1>5 DEF LockAndCheck
  <2>2. PICK pc, e :
          /\ pc = IF op = "registerGuest" THEN "commit" ELSE "wallet"
          /\ e = IF op = "unregister" THEN CHOOSE x \in AliveIn(t) : entries[x].user = u ELSE 0
    OBVIOUS
  <2>3. /\ tourLock' = [tourLock EXCEPT ![t] = r]
        /\ req' = [req EXCEPT ![r].pc = pc, ![r].entry = e]
    BY <1>2, <1>5, <2>2 DEF LockAndCheck
  <2>4. PICK q : q = [own EXCEPT !.pc = pc, !.entry = e]
    OBVIOUS
  <2>5. req' = [req EXCEPT ![r] = q]
    BY <2>3, <2>4 DEF DeskInv, Desk, RequestsTyped
  <2>6. op = "unregister" => e \in AliveIn(t) /\ entries[e].user = u
    BY <2>1, <2>2
  <2>7. e \in 0 .. MaxEntries /\ pc \in {"commit", "wallet"}
    <3>1. AliveIn(t) \subseteq 1 .. MaxEntries
      BY DEF AliveIn, EntriesOf, Entries
    <3> QED
      BY <2>2, <2>6, <3>1, TournamentConstants
  <2>8. q \in TourRequests /\ q.pc = pc /\ q.op = op /\ q.tour = t /\ q.user = u /\ q.entry = e
        /\ q.key = own.key
    <3>1. PICK old : old = own
      OBVIOUS
    <3>2. old \in TourRequests /\ pc \in Phases
      BY <2>7, <3>1, OwnShape DEF Phases
    <3>3. q = [old EXCEPT !.pc = pc, !.entry = e]
      BY <2>4, <3>1
    <3>4. q \in TourRequests
      BY ONLY <2>7, <3>2, <3>3 DEF TourRequests
    <3>5. /\ q.pc = pc /\ q.entry = e /\ q.op = old.op /\ q.tour = old.tour
          /\ q.user = old.user /\ q.key = old.key
      BY ONLY <3>2, <3>3 DEF TourRequests
    <3> QED
      BY <1>2, <3>1, <3>4, <3>5
  <2>9. ShapeOf(q)
    BY <1>1, <1>2, <1>3, <2>2, <2>7, <2>8, OwnShape DEF ShapeOf, RegisterOps, Ops
  <2>10. Granted(op, t, u, e)
    <3>1. op \in RegisterOps => RoomForOne(t) /\ RegistrationAllowed(t, previous)
      BY <2>1 DEF Eligible, RegisterOps
    <3>2. op = "register" =>
            NotAliveYet(t, u) /\ MayEnterAgain(t, Cardinality(PreviousEntries(t, u)))
      BY <2>1, <3>1 DEF RegistrationAllowed, MayEnterAgain, RegisterOps
    <3> QED
      BY <2>6, <3>1, <3>2 DEF Granted
  <2>11. Entitled(q)
    BY <2>8, <2>10 DEF Entitled
  <2>12. /\ tourLock' \in [Tournaments -> Reqs \cup {None}] /\ tourLock'[t] = r
         /\ \A z \in Tournaments : tourLock[z] \in Reqs \ {r} => tourLock'[z] = tourLock[z]
    BY <1>1, <1>2, <1>3, <2>3, RowTaken
  <2>13. walletLock' \in [Users -> Reqs \cup {None}]
    BY <1>1 DEF DeskInv, Desk, RequestsTyped
  <2> QED
    BY <1>1, <2>5, <2>8, <2>9, <2>11, <2>12, <2>13, QuietStep
<1> QED
  BY <1>4, <1>5

\* A finish locks the row before it pays.
LEMMA FinishLockKeeps ==
  ASSUME DeskInv, NEW r \in Reqs, FinishLock(r)
  PROVE  DeskInv'
<1>1. /\ RowsKept /\ UNCHANGED walletLock /\ req[r].pc = "lock" /\ req[r].op = "finish"
      /\ req' = [req EXCEPT ![r].pc = "pay", ![r].next = 1]
  BY DEF FinishLock, RowsKept, walletVars, tourVars
<1>2. PICK t : t = req[r].tour
  OBVIOUS
<1>3. t \in Tournaments
  BY <1>1, <1>2, OwnShape DEF ShapeOf, Open
<1>4. TourFree(t) /\ tourLock' = [tourLock EXCEPT ![t] = r]
  BY <1>2 DEF FinishLock
<1>5. PICK q : q = [req[r] EXCEPT !.pc = "pay", !.next = 1]
  OBVIOUS
<1>6. req' = [req EXCEPT ![r] = q]
  BY <1>1, <1>5 DEF DeskInv, Desk, RequestsTyped
<1>7. q \in TourRequests /\ q.op = "finish" /\ q.tour = t
  <2>1. PICK old : old = req[r]
    OBVIOUS
  <2>2. old \in TourRequests /\ "pay" \in Phases /\ 1 \in Nat
    BY <2>1, OwnShape DEF Phases
  <2>3. q = [old EXCEPT !.pc = "pay", !.next = 1]
    BY <1>5, <2>1
  <2>4. q \in TourRequests
    BY ONLY <2>2, <2>3 DEF TourRequests
  <2>5. q.op = old.op /\ q.tour = old.tour
    BY ONLY <2>2, <2>3 DEF TourRequests
  <2> QED
    BY <1>1, <1>2, <2>1, <2>4, <2>5
<1>8. ShapeOf(q)
  BY <1>1, <1>5, OwnShape DEF ShapeOf, TourRequests, Ops, RegisterOps
<1>9. Entitled(q)
  BY <1>7 DEF Entitled, Granted, RegisterOps
<1>10. /\ tourLock' \in [Tournaments -> Reqs \cup {None}] /\ tourLock'[t] = r
       /\ \A z \in Tournaments : tourLock[z] \in Reqs \ {r} => tourLock'[z] = tourLock[z]
  BY <1>3, <1>4, RowTaken
<1>11. walletLock' \in [Users -> Reqs \cup {None}]
  BY <1>1 DEF DeskInv, Desk, RequestsTyped
<1> QED
  BY <1>1, <1>6, <1>7, <1>8, <1>9, <1>10, <1>11, QuietStep

\* The payouts of a grade are for entries of the tournament, and not negative.
LEMMA PayoutsTyped ==
  ASSUME NEW t \in Tournaments, NEW n \in DOMAIN Settings, NEW q, q.pool \in Nat,
         NEW holder \in Holders(t, Settings[n].prizes)
  PROVE  /\ Payouts(q, holder, Settings[n].prizes) \in Seq(PayoutRows)
         /\ \A i \in DOMAIN Payouts(q, holder, Settings[n].prizes) :
              Payouts(q, holder, Settings[n].prizes)[i].entry \in EntriesOf(t)
<1> DEFINE prizes == Settings[n].prizes
           unpaid == Unpaid(holder, prizes)
           due == Ascending(unpaid)
           row(i) == [entry |-> holder[due[i]], position |-> due[i],
                      amount |-> Share(q.pool, prizes[due[i]])]
<1>1. /\ IsFiniteSet(DOMAIN prizes) /\ DOMAIN prizes \subseteq Nat
      /\ \A p \in DOMAIN prizes : prizes[p] \in Nat
  BY SettingConstants
<1>2. unpaid \subseteq DOMAIN prizes
  BY DEF Unpaid
<1>3. unpaid \in SUBSET Nat /\ IsFiniteSet(unpaid)
  BY <1>1, <1>2, FS_Subset
<1>4. /\ Cardinality(unpaid) \in Nat /\ DOMAIN due = 1 .. Cardinality(unpaid)
      /\ \A i \in DOMAIN due : due[i] \in unpaid
  BY <1>3, AscendingMembers
<1>5. \A p \in DOMAIN prizes : holder[p] \in EntriesOf(t)
  BY DEF Holders
<1>6. \A a, b \in Nat : Share(a, b) \in Nat
  <2> SUFFICES ASSUME NEW a \in Nat, NEW b \in Nat PROVE Share(a, b) \in Nat
    OBVIOUS
  <2>1. a * b + 5000 \in Nat
    OBVIOUS
  <2>2. \A m \in Nat : m \div 10000 \in Nat
    OBVIOUS
  <2> QED
    BY <2>1, <2>2 DEF Share
<1>7. \A i \in DOMAIN due : row(i).entry \in EntriesOf(t) /\ row(i) \in PayoutRows
  <2> SUFFICES ASSUME NEW i \in DOMAIN due
               PROVE  row(i).entry \in EntriesOf(t) /\ row(i) \in PayoutRows
    OBVIOUS
  <2>1. due[i] \in DOMAIN prizes
    BY <1>2, <1>4
  <2>2. /\ due[i] \in Nat /\ holder[due[i]] \in EntriesOf(t) /\ holder[due[i]] \in Entries
        /\ Share(q.pool, prizes[due[i]]) \in Nat
    BY <1>1, <1>5, <1>6, <2>1 DEF EntriesOf
  <2> QED
    BY <2>2 DEF PayoutRows
<1>8. Payouts(q, holder, prizes) = [i \in DOMAIN due |-> row(i)]
  BY DEF Payouts
<1> HIDE DEF prizes, due, row, unpaid
<1> QED
  BY <1>4, <1>7, <1>8 DEF prizes

\* A finish decides what it will pay, and to whom.
LEMMA FinishReadEntriesKeeps ==
  ASSUME DeskInv, NEW r \in Reqs, FinishReadEntries(r)
  PROVE  DeskInv'
<1>1. /\ RowsKept /\ UNCHANGED <<tourLock, walletLock>> /\ req[r].pc = "entries"
      /\ req[r] \in TourRequests /\ ShapeOf(req[r])
  BY OwnShape DEF FinishReadEntries, RowsKept, walletVars, tourVars
<1>2. PICK t, n : t = req[r].tour /\ n = req[r].setting
  OBVIOUS
<1>3. t \in Tournaments /\ n \in DOMAIN Settings /\ Open(t) /\ req[r].op = "finish"
  BY <1>1, <1>2 DEF ShapeOf, Open, Ops, RegisterOps
<1>4. \A e \in EntriesOf(t) : EntryIn(e, t)
  <2> SUFFICES ASSUME NEW e \in EntriesOf(t) PROVE EntryIn(e, t)
    OBVIOUS
  <2>1. EntrySound(e) /\ e \in Entries /\ entries[e].tour = t
    BY DEF DeskInv, Books, EntriesOf
  <2> QED
    BY <1>3, <2>1, TournamentConstants DEF EntrySound, EntryIn
<1>5. ASSUME NEW payouts \in Seq(PayoutRows), NEW winner \in {0} \cup EntriesOf(t),
             \A i \in DOMAIN payouts : payouts[i].entry \in EntriesOf(t),
             req' = [req EXCEPT ![r].pc = "lock", ![r].payouts = payouts, ![r].winner = winner]
      PROVE  DeskInv'
  <2>1. PICK q : q = [req[r] EXCEPT !.pc = "lock", !.payouts = payouts, !.winner = winner]
    OBVIOUS
  <2>2. req' = [req EXCEPT ![r] = q]
    BY <1>5, <2>1 DEF DeskInv, Desk, RequestsTyped
  <2>3. winner \in 0 .. MaxEntries
    BY TournamentConstants DEF EntriesOf, Entries
  <2>4. q \in TourRequests
    BY <1>1, <2>1, <2>3 DEF TourRequests, Phases
  <2>5. q.pc = "lock" /\ q.op = "finish" /\ q.tour = t /\ q.payouts = payouts /\ q.winner = winner
    BY <1>1, <1>2, <1>3, <2>1 DEF TourRequests
  <2>6. ShapeOf(q) /\ q.pc \notin HoldingSteps
    BY <1>3, <1>4, <1>5, <2>5 DEF ShapeOf, HoldingSteps, Ops, RegisterOps
  <2> QED
    BY <1>1, <2>2, <2>4, <2>6, IdleStep
<1>6. CASE Finish(r)
  BY <1>1, <1>6, FinishKeeps, Zenon
<1>7. CASE ~Finish(r)
  <2> DEFINE champion == AliveIn(req[r].tour)
             prizes == Settings[req[r].setting].prizes
  <2>1. \/ req' = [req EXCEPT ![r].pc = "lock", ![r].payouts = <<>>, ![r].winner = 0]
        \/ \E holder \in Holders(req[r].tour, prizes) :
             req' = [req EXCEPT ![r].pc = "lock", ![r].payouts = Payouts(req[r], holder, prizes),
                                ![r].winner = IF Cardinality(champion) = 1
                                              THEN CHOOSE e \in champion : TRUE ELSE 0]
    BY <1>7, Zenon DEF FinishReadEntries
  <2>2. CASE req' = [req EXCEPT ![r].pc = "lock", ![r].payouts = <<>>, ![r].winner = 0]
    <3>1. /\ <<>> \in Seq(PayoutRows) /\ 0 \in {0} \cup EntriesOf(t)
          /\ \A i \in DOMAIN <<>> : FALSE
      OBVIOUS
    <3>2. PICK payouts, winner : payouts = <<>> /\ winner = 0
      BY Zenon
    <3> QED
      BY <1>5, <2>2, <3>1, <3>2
  <2>3. CASE \E holder \in Holders(req[r].tour, prizes) :
             req' = [req EXCEPT ![r].pc = "lock", ![r].payouts = Payouts(req[r], holder, prizes),
                                ![r].winner = IF Cardinality(champion) = 1
                                              THEN CHOOSE e \in champion : TRUE ELSE 0]
    <3>0. PICK holder \in Holders(req[r].tour, prizes) :
             req' = [req EXCEPT ![r].pc = "lock", ![r].payouts = Payouts(req[r], holder, prizes),
                                ![r].winner = IF Cardinality(champion) = 1
                                              THEN CHOOSE e \in champion : TRUE ELSE 0]
      BY <2>3
    <3>1. PICK payouts, winner :
            /\ payouts = Payouts(req[r], holder, prizes)
            /\ winner = IF Cardinality(champion) = 1 THEN CHOOSE e \in champion : TRUE ELSE 0
      OBVIOUS
    <3>2. /\ payouts \in Seq(PayoutRows)
          /\ \A i \in DOMAIN payouts : payouts[i].entry \in EntriesOf(t)
      <4>1. req[r].pool \in Nat
        BY <1>1 DEF TourRequests
      <4> QED
        BY <1>2, <1>3, <3>0, <3>1, <4>1, PayoutsTyped
    <3>3. winner \in {0} \cup EntriesOf(t)
      <4>1. champion \subseteq EntriesOf(t)
        BY <1>2 DEF AliveIn
      <4>2. Cardinality(champion) = 1 => champion # {}
        BY FS_EmptySet
      <4> QED
        BY <3>1, <4>1, <4>2
    <3> QED
      BY <1>5, <3>0, <3>1, <3>2, <3>3
  <2> QED
    BY <2>1, <2>2, <2>3
<1> QED
  BY <1>6, <1>7

-----------------------------------------------------------------------------
(* The steps that write rows.                                              *)

\* A step that writes rows of one tournament leaves the books of the others as they
\* are: what is to be shown is about that tournament and its entries.
LEMMA RowsWritten ==
  ASSUME Books, NEW t \in Tournaments, RowsTyped', RowsOnlyGrow, LedgersGrow, TourSound(t)',
         \A z \in Tournaments \ {t} : tours'[z] = tours[z],
         \A e \in Entries : entries'[e].tour = t => EntrySound(e)',
         \A e \in Entries : entries'[e].tour # t =>
           entries'[e] = entries[e] /\ BuyIns(e)' = BuyIns(e) /\ Refunds(e)' = Refunds(e),
         \A u \in Users : WalletSound(u)'
  PROVE  Books' /\ \A z \in Tournaments \ {t} : SameTour(z)
<1>1. \A e \in Entries :
        EntrySound(e) /\ (entries[e].tour \in Tournaments => entries'[e].tour = entries[e].tour)
  <2> SUFFICES ASSUME NEW e \in Entries, entries[e].tour \in Tournaments
               PROVE  entries'[e].tour = entries[e].tour
    BY DEF Books
  <2>1. EntrySound(e)
    BY DEF Books
  <2>2. entries[e].status # "NONE"
    BY <2>1, TournamentConstants DEF EntrySound
  <2> QED
    BY <2>2 DEF RowsOnlyGrow
<1>2. ASSUME NEW e \in Entries PROVE EntrySound(e)'
  <2>1. CASE entries'[e].tour # t
    <3>1. /\ entries'[e] = entries[e] /\ BuyIns(e)' = BuyIns(e) /\ Refunds(e)' = Refunds(e)
          /\ EntrySound(e) /\ entries[e].tour # t /\ RowsTyped
      BY <1>1, <2>1 DEF Books
    <3>2. entries[e].status = "REGISTERED" =>
            tours'[entries[e].tour].setting = tours[entries[e].tour].setting
      <4>1. entries[e].status = "REGISTERED" => entries[e].tour \in Tournaments
        BY <3>1 DEF EntrySound, Open
      <4> QED
        BY <3>1, <4>1
    <3> QED
      BY <3>1, <3>2, EntryKept
  <2> QED
    BY <2>1
<1>3. ASSUME NEW z \in Tournaments \ {t} PROVE SameTour(z)
  BY <1>1 DEF SameTour
<1>4. ASSUME NEW z \in Tournaments PROVE TourSound(z)'
  <2>1. CASE z # t
    <3>1. SameTour(z) /\ TourSound(z)
      BY <1>3, <2>1 DEF Books
    <3>2. /\ EntriesOf(z)' = EntriesOf(z) /\ AliveIn(z)' = AliveIn(z) /\ Setting(z)' = Setting(z)
          /\ tours'[z] = tours[z]
      BY <3>1, SameTourReads DEF SameTour
    <3>3. \A e \in EntriesOf(z) :
            e \in Entries /\ entries'[e] = entries[e] /\ Refunds(e)' = Refunds(e)
      <4> SUFFICES ASSUME NEW e \in EntriesOf(z)
                   PROVE  e \in Entries /\ entries'[e] = entries[e] /\ Refunds(e)' = Refunds(e)
        OBVIOUS
      <4>1. e \in Entries /\ entries'[e].tour = z
        BY <3>1 DEF EntriesOf, SameTour
      <4> QED
        BY <2>1, <4>1
    <3>4. Kept(z)' = Kept(z)
      BY <3>2, <3>3 DEF Kept
    <3>5. \A u : {e \in Kept(z) : entries[e].user = u}' = {e \in Kept(z) : entries[e].user = u}
      BY <3>3, <3>4 DEF Kept
    <3>6. PoolSound(z)' <=> PoolSound(z)
      BY <3>2, <3>4 DEF PoolSound
    <3>7. \A e \in AliveIn(z) : entries'[e] = entries[e]
      BY <3>3 DEF AliveIn
    <3> QED
      BY <3>1, <3>2, <3>5, <3>6, <3>7 DEF TourSound
  <2> QED
    BY <2>1
<1> QED
  BY <1>2, <1>3, <1>4 DEF Books

\* What a commit of the request r must leave behind, when it writes to t.
LEMMA CommitKeeps ==
  ASSUME DeskInv, NEW r \in Reqs, NEW t \in Tournaments, Finish(r), Books', RowsOnlyGrow,
         tourLock[t] \in {r, None}, \A z \in Tournaments \ {t} : SameTour(z),
         tourLock' \in {tourLock, ToursUnlocked(r)}, walletLock' \in {walletLock, Unlocked(r)}
  PROVE  DeskInv'
<1>1. /\ tourLock \in [Tournaments -> Reqs \cup {None}]
      /\ walletLock \in [Users -> Reqs \cup {None}]
      /\ req' = [req EXCEPT ![r] = Idle]
  BY DEF Finish, DeskInv, Desk, RequestsTyped
<1>2. /\ tourLock' \in [Tournaments -> Reqs \cup {None}]
      /\ walletLock' \in [Users -> Reqs \cup {None}]
      /\ \A z \in Tournaments : tourLock[z] \in Reqs \ {r} => tourLock'[z] = tourLock[z]
  BY <1>1 DEF ToursUnlocked, Unlocked
<1>3. LocksRespected(r)
  BY <1>2, WalletConstants DEF LocksRespected
<1>4. PICK q : q = Idle
  OBVIOUS
<1>5. q \in TourRequests /\ ShapeOf(q)' /\ q.pc \notin HoldingSteps
  BY <1>4, IdleTyped DEF ShapeOf, HoldingSteps
<1>6. Desk'
  BY <1>1, <1>3, <1>4, <1>5, DeskStep DEF DeskInv
<1> QED
  BY <1>6 DEF DeskInv

\* A step of nobody's changes nothing at a tournament that is open.
LEMMA RequestsKept ==
  ASSUME Desk, RowsOnlyGrow, UNCHANGED <<req, tourLock, walletLock>>,
         \A t \in Tournaments : tours[t].status # "NONE" => SameTour(t)
  PROVE  Desk'
<1>1. RequestsTyped'
  BY DEF Desk, RequestsTyped
<1>2. ASSUME NEW z \in Reqs PROVE ShapeOf(req[z])' /\ LockShape(z)'
  <2>1. PICK p : p = req[z]
    OBVIOUS
  <2>2. req'[z] = p /\ ShapeOf(p) /\ p \in TourRequests
    BY <2>1 DEF Desk, RequestsTyped
  <2>3. ShapeOf(p)'
    BY <2>2, ShapeKept
  <2>4. ASSUME p.pc \in HoldingSteps PROVE tourLock'[p.tour] = z /\ Entitled(p)'
    <3>1. tourLock[p.tour] = z /\ Entitled(p)
      BY <2>1, <2>4 DEF Desk, LockShape
    <3>2. Open(p.tour)
      BY <2>2, <2>4 DEF ShapeOf, HoldingSteps
    <3>3. SameTour(p.tour)
      BY <3>2 DEF Open
    <3> QED
      BY <3>1, <3>3, EntitledKept
  <2> QED
    BY <2>2, <2>3, <2>4 DEF LockShape
<1> QED
  BY <1>1, <1>2 DEF Desk

\* A tournament is created without entries.
LEMMA CreateTournamentKeeps ==
  ASSUME DeskInv, NEW t \in Tournaments, CreateTournament(t)
  PROVE  DeskInv'
<1>1. /\ tours[t].status = "NONE"
      /\ UNCHANGED <<wallets, balance, ledger, walletLock, entries, tourLock, req>>
  BY DEF CreateTournament, walletVars
<1>2. PICK n \in ValidSettings :
        tours' = [tours EXCEPT ![t] = [status |-> "REGISTERING", setting |-> n, pool |-> 0]]
  BY DEF CreateTournament
<1>3. n \in DOMAIN Settings /\ tours \in [Tournaments -> TourRows] /\ RowsTyped
  BY DEF ValidSettings, DeskInv, Books, RowsTyped
<1>4. /\ tours'[t] = [status |-> "REGISTERING", setting |-> n, pool |-> 0]
      /\ \A z \in Tournaments \ {t} : tours'[z] = tours[z]
  BY <1>2, <1>3
<1>5. RowsOnlyGrow
  BY <1>1, <1>4 DEF RowsOnlyGrow
<1>6. RowsTyped'
  <2>1. tours' \in [Tournaments -> TourRows]
    BY <1>2, <1>3 DEF TourRows
  <2> QED
    BY <1>1, <1>3, <2>1 DEF RowsTyped
<1>7. LedgersGrow
  BY <1>1 DEF LedgersGrow
<1>8. \A e \in Entries : EntrySound(e) /\ entries[e].tour # t
  <2>1. \A e \in Entries : EntrySound(e)
    BY DEF DeskInv, Books
  <2> QED
    BY <1>1, <2>1, TournamentConstants DEF EntrySound, Open
<1>9. \A e \in Entries : BuyIns(e)' = BuyIns(e) /\ Refunds(e)' = Refunds(e)
  BY <1>1 DEF BuyIns, Refunds, Legs
<1>10. TourSound(t)'
  <2>1. EntriesOf(t)' = {}
    BY <1>1, <1>8 DEF EntriesOf
  <2>2. Kept(t)' = {} /\ AliveIn(t)' = {}
    BY <2>1 DEF Kept, AliveIn
  <2>3. Setting(t)' = Settings[n] /\ tours'[t].pool = 0 /\ tours'[t].setting = n
    BY <1>4 DEF Setting
  <2>4. \A u : {e \in Kept(t) : entries[e].user = u}' = {}
    BY <2>2
  <2>5. Cardinality({}) = 0 /\ Settings[n].buyIn \in Nat /\ Settings[n].max \in Nat
        /\ Settings[n].maxReentries \in Nat
    BY <1>3, FS_EmptySet, SettingConstants
  <2> QED
    BY <1>3, <2>2, <2>3, <2>4, <2>5 DEF TourSound, PoolSound
<1>11. \A u \in Users : WalletSound(u)'
  BY <1>1 DEF DeskInv, Books, WalletSound
<1>12. Books' /\ \A z \in Tournaments \ {t} : SameTour(z)
  BY <1>1, <1>4, <1>5, <1>6, <1>7, <1>8, <1>9, <1>10, <1>11, RowsWritten DEF DeskInv
<1>13. Desk'
  BY <1>1, <1>5, <1>12, RequestsKept DEF DeskInv
<1> QED
  BY <1>12, <1>13 DEF DeskInv

\* The books of one ledger that grows.
LEMMA LedgerGrows ==
  ASSUME RowsTyped, NEW u \in Users, NEW new \in Seq(TourPostings),
         ledger' = [ledger EXCEPT ![u] = ledger[u] \o new]
  PROVE  /\ ledger' \in [Users -> Seq(TourPostings)]
         /\ LedgersGrow
         /\ Listed(new) \subseteq Listed(ledger'[u])
         /\ \A e : BuyIns(e)' = BuyIns(e) \cup Marked(new, e, "TOURNAMENT_BUY_IN")
         /\ \A e : Refunds(e)' = Refunds(e) \cup Marked(new, e, "TOURNAMENT_REFUND")
<1>1. ledger \in [Users -> Seq(TourPostings)]
  BY DEF RowsTyped
<1>2. PICK books : books = ledger
  OBVIOUS
<1>3. PICK old : old = books[u]
  OBVIOUS
<1>4. /\ old \in Seq(TourPostings) /\ ledger'[u] = old \o new
      /\ \A v \in Users \ {u} : ledger'[v] = books[v]
  BY <1>1, <1>2, <1>3
<1>5. Listed(old \o new) = Listed(old) \cup Listed(new)
  BY <1>4, ListedGrows
<1>6. LedgersGrow
  BY <1>2, <1>3, <1>4, <1>5 DEF LedgersGrow
<1>7. ledger' \in [Users -> Seq(TourPostings)]
  BY <1>1
<1>8. ASSUME NEW e, NEW kind
      PROVE  Legs(ledger', e, kind) = Legs(ledger, e, kind) \cup Marked(new, e, kind)
  <2>1. books \in [Users -> Seq(TourPostings)]
    BY <1>1, <1>2
  <2>2. PICK later : later = [books EXCEPT ![u] = books[u] \o new]
    OBVIOUS
  <2>3. Posted(books, u, new, later)
    BY <2>1, <2>2 DEF Posted
  <2>4. Legs(later, e, kind) = Legs(books, e, kind) \cup Marked(new, e, kind)
    BY <2>3, LegsOfOne
  <2> QED
    BY <1>2, <2>2, <2>4
<1> QED
  BY <1>4, <1>5, <1>6, <1>7, <1>8 DEF BuyIns, Refunds

\* An entry of the user u is written, and postings to the user's wallet.
EntryWritten(t, u, e, b, new) ==
  /\ wallets' = wallets \cup {u}
  /\ ledger' = [ledger EXCEPT ![u] = ledger[u] \o new]
  /\ balance' \in [Users -> Nat] /\ \A v \in Users \ {u} : balance'[v] = balance[v]
  /\ entries' = [entries EXCEPT ![e] = [NoEntry EXCEPT !.status = "REGISTERED", !.tour = t,
                                                       !.user = u, !.bonus = b]]
  /\ tours' = [tours EXCEPT ![t].pool = @ + PoolShare(t)]

\* The postings hold one buy-in, the entry's, at the tournament's price.
PriceOf(t, e, b, new, x) ==
  /\ x.amount = -Price(t, b)
  /\ \A f : Marked(new, f, "TOURNAMENT_BUY_IN") = IF f = e THEN {x} ELSE {}
  /\ \A f : Marked(new, f, "TOURNAMENT_REFUND") = {}

\* A new entry that was paid for, by a player who may enter.
LEMMA EntryAdded ==
  ASSUME Books, NEW t, Open(t), NEW e \in Unused, NEW u \in Users, NEW b \in BOOLEAN,
         NEW new \in Seq(TourPostings), NEW x, PriceOf(t, e, b, new, x),
         RoomForOne(t), NotAliveYet(t, u), MayEnterAgain(t, Cardinality(PreviousEntries(t, u))),
         EntryWritten(t, u, e, b, new)
  PROVE  Books' /\ RowsOnlyGrow /\ \A z \in Tournaments \ {t} : SameTour(z)
<1> USE DEF EntryWritten, PriceOf
<1>1. /\ t \in Tournaments /\ tours[t].status # "NONE" /\ e \in Entries /\ RowsTyped
      /\ entries[e].status = "NONE" /\ tours \in [Tournaments -> TourRows]
      /\ entries \in [Entries -> EntryRows] /\ TourSound(t)
      /\ \A f \in Entries : EntrySound(f)
  BY DEF Open, Unused, Books, RowsTyped
<1>2. /\ entries[e].tour = None /\ BuyIns(e) = {} /\ Refunds(e) = {} /\ entries[e].tour # t
  BY <1>1, TournamentConstants DEF EntrySound
<1>3. /\ entries'[e].status = "REGISTERED" /\ entries'[e].tour = t /\ entries'[e].user = u
      /\ entries'[e].bonus = b /\ \A f \in Entries \ {e} : entries'[f] = entries[f]
  BY <1>1 DEF NoEntry
<1>4. /\ tours'[t].status = tours[t].status /\ tours'[t].setting = tours[t].setting
      /\ tours'[t].pool = tours[t].pool + Setting(t).buyIn
      /\ \A z \in Tournaments \ {t} : tours'[z] = tours[z]
  BY <1>1 DEF TourRows, PoolShare
<1>5. RowsOnlyGrow
  BY <1>1, <1>3, <1>4 DEF RowsOnlyGrow
<1>6. /\ ledger' \in [Users -> Seq(TourPostings)] /\ LedgersGrow
      /\ Listed(new) \subseteq Listed(ledger'[u])
      /\ \A f : BuyIns(f)' = BuyIns(f) \cup Marked(new, f, "TOURNAMENT_BUY_IN")
      /\ \A f : Refunds(f)' = Refunds(f) \cup Marked(new, f, "TOURNAMENT_REFUND")
  BY <1>1, LedgerGrows
<1>7. /\ BuyIns(e)' = {x} /\ Refunds(e)' = {}
      /\ \A f \in Entries \ {e} : BuyIns(f)' = BuyIns(f) /\ Refunds(f)' = Refunds(f)
  BY <1>2, <1>6
<1>8. RowsTyped'
  <2>1. tours' \in [Tournaments -> TourRows]
    <3>1. PICK n : n = PoolShare(t)
      OBVIOUS
    <3>2. n \in Nat /\ tours' = [tours EXCEPT ![t].pool = @ + n]
      BY <1>1, <3>1, PoolNatural DEF PoolShare
    <3>3. PICK old, row : old = tours[t] /\ row = [old EXCEPT !.pool = @ + n]
      OBVIOUS
    <3>4. row \in TourRows
      <4>1. old \in TourRows /\ \A a \in Int : a + n \in Int
        BY <1>1, <3>2, <3>3
      <4>2. old \in [status : {"NONE", "REGISTERING", "RUNNING", "FINISHED"},
                    setting : {0} \cup DOMAIN Settings, pool : Int]
        BY <4>1 DEF TourRows
      <4>3. row = [old EXCEPT !.pool = old.pool + n] /\ old.pool + n \in Int
        BY <3>3, <4>1, <4>2
      <4> QED
        BY ONLY <4>2, <4>3 DEF TourRows
    <3>5. tours' = [tours EXCEPT ![t] = row]
      BY <1>1, <3>2, <3>3
    <3> QED
      BY <1>1, <3>4, <3>5
  <2>2. entries' \in [Entries -> EntryRows]
    <3>1. [NoEntry EXCEPT !.status = "REGISTERED", !.tour = t, !.user = u, !.bonus = b]
            \in EntryRows
      BY <1>1 DEF NoEntry, EntryRows
    <3> QED
      BY <1>1, <3>1
  <2> QED
    BY <1>1, <1>6, <2>1, <2>2 DEF RowsTyped
<1>9. Setting(t)' = Setting(t) /\ Price(t, b)' = Price(t, b)
  BY <1>4 DEF Setting, Price
<1>10. EntrySound(e)'
  <2>1. x \in Listed(ledger'[u])
    BY <1>6 DEF Marked
  <2>2. Open(t)' /\ u \in wallets'
    BY <1>1, <1>4 DEF Open
  <2>3. \E y \in Listed(ledger'[u]) :
          BuyIns(e)' = {y} /\ Refunds(e)' = {} /\ y.amount = -Price(t, b)'
    BY <1>7, <1>9, <2>1
  <2> QED
    BY <1>3, <2>2, <2>3 DEF EntrySound
<1>11. ASSUME NEW f \in Entries, entries'[f].tour = t PROVE EntrySound(f)'
  <2>1. CASE f # e
    <3>1. /\ entries'[f] = entries[f]
          /\ tours'[entries[f].tour].setting = tours[entries[f].tour].setting
      BY <1>3, <1>4, <1>11, <2>1
    <3> QED
      BY <1>1, <1>5, <1>6, <1>7, <2>1, <3>1, EntryKept
  <2> QED
    BY <1>10, <2>1
<1>12. TourSound(t)'
  <2>1. /\ EntriesOf(t)' = EntriesOf(t) \cup {e} /\ e \notin EntriesOf(t)
    BY <1>1, <1>2, <1>3 DEF EntriesOf
  <2>2. /\ AliveIn(t)' = AliveIn(t) \cup {e} /\ e \notin AliveIn(t)
    BY <1>1, <1>3, <2>1 DEF AliveIn, Alive, EntriesOf
  <2>3. /\ Kept(t)' = Kept(t) \cup {e} /\ e \notin Kept(t)
    BY <1>7, <2>1 DEF Kept, EntriesOf
  <2>4. /\ IsFiniteSet(Kept(t)) /\ Cardinality(Kept(t)) \in Nat
        /\ IsFiniteSet(AliveIn(t)) /\ Cardinality(AliveIn(t)) \in Nat
    BY EntriesFinite DEF Kept, AliveIn, EntriesOf
  <2>5. /\ Cardinality(Kept(t)') = Cardinality(Kept(t)) + 1
        /\ Cardinality(AliveIn(t)') = Cardinality(AliveIn(t)) + 1
    BY <2>2, <2>3, <2>4, FS_AddElement
  <2>6. /\ Setting(t).buyIn \in Nat /\ Setting(t).max \in Nat /\ Setting(t).maxReentries \in Nat
        /\ tours[t].pool \in Nat
    BY <1>1, PoolNatural
  <2>7. PoolSound(t)'
    <3>1. \A a, n \in Nat : a * (n + 1) = a * n + a
      OBVIOUS
    <3>2. PICK a, n : a = Setting(t).buyIn /\ n = Cardinality(Kept(t))
      OBVIOUS
    <3>3. tours[t].pool = a * n /\ a \in Nat /\ n \in Nat
      BY <1>1, <2>4, <2>6, <3>2 DEF TourSound, PoolSound
    <3>4. tours'[t].pool = a * n + a
      BY <1>4, <3>2, <3>3
    <3>5. Setting(t)'.buyIn = a /\ Cardinality(Kept(t))' = n + 1
      BY <1>9, <2>5, <3>2
    <3> QED
      BY <3>1, <3>3, <3>4, <3>5 DEF PoolSound
  <2>8. Cardinality(AliveIn(t))' <= Setting(t)'.max
    BY <1>9, <2>4, <2>5, <2>6 DEF RoomForOne
  <2>9. ASSUME NEW v \in Users
        PROVE  /\ \A a, c \in AliveIn(t)' :
                    entries'[a].user = v /\ entries'[c].user = v => a = c
               /\ ~Setting(t).reentry => Cardinality({c \in Kept(t)' : entries'[c].user = v}) <= 1
               /\ Setting(t).maxReentries > 0 =>
                    Cardinality({c \in Kept(t)' : entries'[c].user = v})
                      <= Setting(t).maxReentries + 1
    <3> DEFINE mine == {c \in Kept(t) : entries[c].user = v}
               later == {c \in Kept(t)' : entries'[c].user = v}
    <3>1. /\ \A a, c \in AliveIn(t) : entries[a].user = v /\ entries[c].user = v => a = c
          /\ ~Setting(t).reentry => Cardinality(mine) <= 1
          /\ Setting(t).maxReentries > 0 => Cardinality(mine) <= Setting(t).maxReentries + 1
      BY <1>1 DEF TourSound
    <3>2. \A a \in AliveIn(t) \cup Kept(t) : a \in Entries \ {e} /\ entries'[a] = entries[a]
      BY <1>3, <2>2, <2>3 DEF AliveIn, Kept, EntriesOf
    <3>3. \A a, c \in AliveIn(t)' : entries'[a].user = v /\ entries'[c].user = v => a = c
      <4>1. \A a \in AliveIn(t) : entries[a].user # u
        BY DEF NotAliveYet
      <4> QED
        BY <1>3, <2>2, <3>1, <3>2, <4>1
    <3>4. IsFiniteSet(mine) /\ Cardinality(mine) \in Nat /\ e \notin mine
      BY <2>3, EntriesFinite DEF Kept, EntriesOf
    <3>5. later = IF v = u THEN mine \cup {e} ELSE mine
      BY <1>3, <2>3, <3>2
    <3>6. CASE v # u
      BY <3>1, <3>3, <3>5, <3>6
    <3>7. CASE v = u
      <4>1. Cardinality(later) = Cardinality(mine) + 1
        BY <3>4, <3>5, <3>7, FS_AddElement
      <4>2. /\ mine \subseteq PreviousEntries(t, u)
            /\ PreviousEntries(t, u) \subseteq Entries
        <5>1. \A c \in Kept(t) : c \in EntriesOf(t) /\ entries[c].status # "REFUNDED"
          <6> SUFFICES ASSUME NEW c \in Kept(t), entries[c].status = "REFUNDED" PROVE FALSE
            BY DEF Kept
          <6>1. EntrySound(c) /\ Refunds(c) = {}
            BY <1>1 DEF Kept, EntriesOf
          <6> QED
            BY <6>1 DEF EntrySound
        <5> QED
          BY <3>7, <5>1 DEF PreviousEntries, NotRefunded, EntriesOf
      <4>3. PICK n : n = Cardinality(PreviousEntries(t, u))
        OBVIOUS
      <4>4. n \in Nat /\ Cardinality(mine) <= n
        BY <4>2, <4>3, EntriesFinite, FS_Subset
      <4>5. n > 0 =>
              Setting(t).reentry /\ (Setting(t).maxReentries = 0 \/ n <= Setting(t).maxReentries)
        BY <4>3 DEF MayEnterAgain
      <4> HIDE DEF mine, later
      <4>6. ~Setting(t).reentry => Cardinality(later) <= 1
        BY <3>4, <4>1, <4>4, <4>5
      <4>7. Setting(t).maxReentries > 0 => Cardinality(later) <= Setting(t).maxReentries + 1
        BY <2>6, <3>4, <4>1, <4>4, <4>5
      <4> QED
        BY <3>3, <4>6, <4>7 DEF later
    <3> QED
      BY <3>6, <3>7
  <2>10. tours'[t].setting \in DOMAIN Settings
    BY <1>1, <1>4 DEF TourSound
  <2> QED
    BY <1>9, <2>7, <2>8, <2>9, <2>10 DEF TourSound
<1>13. \A v \in Users : WalletSound(v)'
  <2> SUFFICES ASSUME NEW v \in Users, v \notin wallets' PROVE balance'[v] = 0 /\ ledger'[v] = <<>>
    BY DEF WalletSound
  <2>1. WalletSound(v) /\ v # u /\ v \notin wallets
    BY DEF Books
  <2>2. ledger \in [Users -> Seq(TourPostings)]
    BY <1>1 DEF RowsTyped
  <2> QED
    BY <2>1, <2>2 DEF WalletSound
<1>14. \A f \in Entries : entries'[f].tour # t =>
         entries'[f] = entries[f] /\ BuyIns(f)' = BuyIns(f) /\ Refunds(f)' = Refunds(f)
  BY <1>3, <1>7
<1>15. Books' /\ \A z \in Tournaments \ {t} : SameTour(z)
  BY <1>1, <1>4, <1>5, <1>6, <1>8, <1>11, <1>12, <1>13, <1>14, RowsWritten
<1> QED
  BY <1>5, <1>15

\* The entry that is written is an unused row.
LEMMA NextRowUnused ==
  ASSUME Unused # {}
  PROVE  Min(Unused) \in Unused /\ Min(Unused) \in Entries
<1>1. Unused \in SUBSET Nat /\ Unused \subseteq Entries
  BY DEF Unused, Entries
<1> QED
  BY <1>1, SmallestOf

\* What a request that stands at its commit knows.
LEMMA AtCommit ==
  ASSUME DeskInv, NEW r \in Reqs, req[r].pc = "commit"
  PROVE  /\ req[r].tour \in Tournaments /\ Open(req[r].tour) /\ req[r].bonus \in BOOLEAN
         /\ req[r].key \in Keys /\ tourLock[req[r].tour] = r
         /\ req[r].user \in Users \cup {None} /\ req[r].entry \in 0 .. MaxEntries
         /\ req[r].op \in {"register", "unregister"} => req[r].user \in wallets
         /\ Granted(req[r].op, req[r].tour, req[r].user, req[r].entry)
<1>1. req[r] \in TourRequests /\ ShapeOf(req[r]) /\ LockShape(r)
  BY OwnShape
<1>2. /\ req[r].op \in {"register", "registerGuest", "unregister"} /\ Open(req[r].tour)
      /\ req[r].key \in Keys
      /\ req[r].op \in {"register", "unregister"} => req[r].user \in wallets
  BY <1>1 DEF ShapeOf, Ops, RegisterOps
<1>3. tourLock[req[r].tour] = r /\ Entitled(req[r])
  BY <1>1 DEF LockShape, HoldingSteps
<1>4. /\ req[r].tour \in Tournaments /\ req[r].user \in Users \cup {None}
      /\ req[r].entry \in 0 .. MaxEntries /\ req[r].bonus \in BOOLEAN
  BY <1>1, <1>2 DEF TourRequests, Open
<1> QED
  BY <1>2, <1>3, <1>4 DEF Entitled

\* What an entry costs.
LEMMA PriceNatural ==
  ASSUME Books, NEW t, Open(t), NEW b \in BOOLEAN
  PROVE  Price(t, b) \in Nat /\ PoolShare(t) \in Nat
<1>1. Setting(t).buyIn \in Nat /\ Setting(t).fee \in Nat /\ Setting(t).bonus \in Nat
  BY PoolNatural DEF Open
<1> QED
  BY <1>1 DEF Price, PoolShare

\* A registration: the entry, its debit and the prize pool are written together.
LEMMA CommitRegisterKeeps ==
  ASSUME DeskInv, NEW r \in Reqs, CommitRegister(r)
  PROVE  DeskInv'
<1>1. PICK t, u, b, k, e : /\ t = req[r].tour /\ u = req[r].user /\ b = req[r].bonus
                           /\ k = LedgerKey(req[r]) /\ e = Min(Unused)
  OBVIOUS
<1>2. req[r].pc = "commit" /\ req[r].op = "register" /\ Unused # {} /\ Books
  BY DEF CommitRegister, DeskInv
<1>3. /\ t \in Tournaments /\ Open(t) /\ b \in BOOLEAN /\ tourLock[t] = r /\ u \in wallets
      /\ Granted("register", t, u, req[r].entry) /\ req[r].key \in Keys
  BY <1>1, <1>2, AtCommit
<1>4. e \in Unused /\ e \in Entries
  BY <1>1, <1>2, NextRowUnused
<1>5. k \in BaseKeys
  BY <1>1, <1>2, <1>3 DEF LedgerKey, BaseKeys, RegisterOps
<1>6. u \in Users /\ balance[u] \in Nat /\ balance \in [Users -> Nat]
  BY <1>2, <1>3 DEF Books, RowsTyped
<1>7. PICK bal, debit : bal = balance[u] /\ debit = -Price(t, b)
  OBVIOUS
<1>8. PICK new, x : /\ new = Postings(bal, debit, "TOURNAMENT_BUY_IN", k, e)
                    /\ x = Entry(k, "TOURNAMENT_BUY_IN", debit, NewBalance(bal, debit), e)
  OBVIOUS
<1>9. debit \in Int
  BY <1>2, <1>3, <1>7, PriceNatural
<1>10. new \in Seq(TourPostings) /\ NewBalance(bal, debit) \in Nat
  <2>1. "TOURNAMENT_BUY_IN" \in EntryTypes /\ e \in Entries \cup {None} /\ bal \in Nat
    BY <1>4, <1>6, <1>7 DEF EntryTypes
  <2> QED
    BY <1>5, <1>8, <1>9, <2>1, PostingsTyped
<1>11. PriceOf(t, e, b, new, x)
  <2>1. x.amount = -Price(t, b)
    BY <1>7, <1>8 DEF Entry
  <2>2. \A f : Marked(new, f, "TOURNAMENT_BUY_IN") = IF f = e THEN {x} ELSE {}
    BY <1>8, PostingsMarked
  <2>3. \A f : Marked(new, f, "TOURNAMENT_REFUND") = {}
    BY <1>8, PostingsMarked
  <2> QED
    BY <2>1, <2>2, <2>3 DEF PriceOf
<1>12. EntryWritten(t, u, e, b, new)
  <2>1. /\ ledger' = [ledger EXCEPT ![u] = ledger[u] \o new]
        /\ balance' = [balance EXCEPT ![u] = NewBalance(bal, debit)]
    BY <1>1, <1>7, <1>8 DEF CommitRegister, ApplyLedgerEntry
  <2>2. balance' \in [Users -> Nat] /\ \A v \in Users \ {u} : balance'[v] = balance[v]
    BY <1>6, <1>10, <2>1
  <2>3. /\ entries' = [entries EXCEPT ![e] = [NoEntry EXCEPT !.status = "REGISTERED", !.tour = t,
                                                             !.user = u, !.bonus = b]]
        /\ tours' = [tours EXCEPT ![t].pool = @ + PoolShare(t)]
    BY <1>1 DEF CommitRegister, CreateEntry
  <2>4. wallets' = wallets \cup {u}
    BY <1>3 DEF CommitRegister
  <2> QED
    BY <2>1, <2>2, <2>3, <2>4 DEF EntryWritten
<1>13. /\ RoomForOne(t) /\ NotAliveYet(t, u)
       /\ MayEnterAgain(t, Cardinality(PreviousEntries(t, u)))
  BY <1>3 DEF Granted, RegisterOps
<1>14. Books' /\ RowsOnlyGrow /\ \A z \in Tournaments \ {t} : SameTour(z)
  BY <1>2, <1>3, <1>4, <1>6, <1>10, <1>11, <1>12, <1>13, EntryAdded
<1>15. Finish(r) /\ tourLock' = ToursUnlocked(r) /\ walletLock' = Unlocked(r)
  BY DEF CommitRegister
<1> QED
  BY <1>3, <1>14, <1>15, CommitKeeps

\* A walk-in's registration: the wallet is opened, and the cash posted, with it.
LEMMA CommitRegisterGuestKeeps ==
  ASSUME DeskInv, NEW r \in Reqs, CommitRegisterGuest(r)
  PROVE  DeskInv'
<1>1. PICK t, b, k, e, cashKey :
        /\ t = req[r].tour /\ b = req[r].bonus /\ k = LedgerKey(req[r]) /\ e = Min(Unused)
        /\ cashKey = <<"guest-cash-in", req[r].key>>
  OBVIOUS
<1>2. req[r].pc = "commit" /\ req[r].op = "registerGuest" /\ Unused # {} /\ Books
  BY DEF CommitRegisterGuest, DeskInv
<1>3. /\ t \in Tournaments /\ Open(t) /\ b \in BOOLEAN /\ tourLock[t] = r
      /\ Granted("registerGuest", t, req[r].user, req[r].entry) /\ req[r].key \in Keys
  BY <1>1, <1>2, AtCommit
<1>4. e \in Unused /\ e \in Entries
  BY <1>1, <1>2, NextRowUnused
<1>5. k \in BaseKeys /\ cashKey \in BaseKeys
  BY <1>1, <1>2, <1>3 DEF LedgerKey, BaseKeys, RegisterOps
<1>6. PICK price : price = Price(t, b)
  BY Zenon
<1>7. PICK g \in Guests \ wallets :
        /\ wallets' = wallets \cup {g}
        /\ CreateEntry(req[r], g, e)
        /\ ledger' = [ledger EXCEPT ![g] =
             Postings(0, price, "ADJUSTMENT", cashKey, None)
             \o Postings(price, -price, "TOURNAMENT_BUY_IN", k, e)]
  BY <1>1, <1>6 DEF CommitRegisterGuest
<1>8. g \in Users /\ balance[g] = 0 /\ ledger[g] = <<>> /\ price \in Nat /\ -price \in Int
  BY <1>2, <1>3, <1>6, <1>7, TournamentConstants, PriceNatural DEF Books, WalletSound
<1>9. PICK cash, paid, new, x :
        /\ cash = Postings(0, price, "ADJUSTMENT", cashKey, None)
        /\ paid = Postings(price, -price, "TOURNAMENT_BUY_IN", k, e)
        /\ new = cash \o paid
        /\ x = Entry(k, "TOURNAMENT_BUY_IN", -price, NewBalance(price, -price), e)
  OBVIOUS
<1>10. cash \in Seq(TourPostings) /\ paid \in Seq(TourPostings)
  <2>1. /\ "TOURNAMENT_BUY_IN" \in EntryTypes /\ "ADJUSTMENT" \in EntryTypes
        /\ e \in Entries \cup {None} /\ None \in Entries \cup {None} /\ price \in Int
    BY <1>4, <1>8 DEF EntryTypes
  <2>2. cash \in Seq(TourPostings)
    <3>1. 0 \in Nat
      OBVIOUS
    <3> QED
      BY <1>5, <1>9, <2>1, <3>1, PostingsTyped
  <2>3. paid \in Seq(TourPostings)
    BY <1>5, <1>8, <1>9, <2>1, PostingsTyped
  <2> QED
    BY <2>2, <2>3
<1>11. new \in Seq(TourPostings) /\ \A f, kind : Marked(new, f, kind)
                                      = Marked(cash, f, kind) \cup Marked(paid, f, kind)
  <2>1. Listed(new) = Listed(cash) \cup Listed(paid)
    BY <1>9, <1>10, ListedGrows
  <2> QED
    BY <1>9, <1>10, <2>1 DEF Marked
<1>12. PriceOf(t, e, b, new, x)
  <2>1. x.amount = -Price(t, b)
    BY <1>6, <1>9 DEF Entry
  <2>2. \A f : /\ Marked(cash, f, "TOURNAMENT_BUY_IN") = {}
               /\ Marked(cash, f, "TOURNAMENT_REFUND") = {}
    BY <1>9, PostingsMarked
  <2>3. \A f : /\ Marked(paid, f, "TOURNAMENT_BUY_IN") = IF f = e THEN {x} ELSE {}
               /\ Marked(paid, f, "TOURNAMENT_REFUND") = {}
    BY <1>9, PostingsMarked
  <2> QED
    BY <1>11, <2>1, <2>2, <2>3 DEF PriceOf
<1>13. EntryWritten(t, g, e, b, new)
  <2>1. ledger' = [ledger EXCEPT ![g] = ledger[g] \o new]
    <3>1. <<>> \o new = new
      BY <1>11
    <3> QED
      BY <1>7, <1>8, <1>9, <3>1
  <2>2. balance' = balance /\ balance \in [Users -> Nat]
    BY <1>2 DEF CommitRegisterGuest, Books, RowsTyped
  <2>3. /\ entries' = [entries EXCEPT ![e] = [NoEntry EXCEPT !.status = "REGISTERED", !.tour = t,
                                                             !.user = g, !.bonus = b]]
        /\ tours' = [tours EXCEPT ![t].pool = @ + PoolShare(t)]
    BY <1>1, <1>7 DEF CreateEntry
  <2> QED
    BY <1>7, <2>1, <2>2, <2>3 DEF EntryWritten
<1>14. RoomForOne(t)
  BY <1>3 DEF Granted, RegisterOps
<1>15. NotAliveYet(t, g) /\ PreviousEntries(t, g) = {}
  <2>1. \A f \in Entries : entries[f].tour = t => entries[f].user # g
    <3> SUFFICES ASSUME NEW f \in Entries, entries[f].tour = t PROVE entries[f].user \in wallets
      BY <1>7
    <3>1. EntrySound(f)
      BY <1>2 DEF Books
    <3> QED
      BY <1>3, <3>1, TournamentConstants DEF EntrySound
  <2> QED
    BY <2>1 DEF NotAliveYet, PreviousEntries, AliveIn, NotRefunded, EntriesOf
<1>16. MayEnterAgain(t, Cardinality(PreviousEntries(t, g)))
  BY <1>15, FS_EmptySet DEF MayEnterAgain
<1>17. Books' /\ RowsOnlyGrow /\ \A z \in Tournaments \ {t} : SameTour(z)
  BY <1>2, <1>3, <1>4, <1>8, <1>11, <1>12, <1>13, <1>14, <1>15, <1>16, EntryAdded
<1>18. Finish(r) /\ tourLock' = ToursUnlocked(r) /\ walletLock' = walletLock
  BY DEF CommitRegisterGuest
<1> QED
  BY <1>3, <1>17, <1>18, CommitKeeps

\* The tournament whose entries leave it one after the other: what holds of the
\* entries alive, and of those kept, holds of fewer of them.
LEMMA FewerSound ==
  ASSUME Books, NEW t, Open(t), tours'[t].setting = tours[t].setting,
         \A e \in Entries : entries'[e].tour = t => entries'[e].user = entries[e].user,
         AliveIn(t)' \subseteq AliveIn(t), Kept(t)' \subseteq Kept(t), PoolSound(t)'
  PROVE  TourSound(t)'
<1>1. TourSound(t) /\ tours[t].status # "NONE" /\ tours[t].setting \in DOMAIN Settings
  BY DEF Books, Open, TourSound
<1>2. Setting(t)' = Setting(t) /\ Setting(t).max \in Nat /\ Setting(t).maxReentries \in Nat
  <2>1. Setting(t).max \in Nat /\ Setting(t).maxReentries \in Nat
    BY PoolNatural DEF Open
  <2> QED
    BY <2>1 DEF Setting
<1>3. \A e \in AliveIn(t)' \cup Kept(t)' : e \in Entries /\ entries'[e].user = entries[e].user
  BY DEF AliveIn, Kept, EntriesOf
<1>4. /\ Cardinality(AliveIn(t)') <= Cardinality(AliveIn(t)) /\ Cardinality(AliveIn(t)') \in Nat
      /\ Cardinality(AliveIn(t)) \in Nat
  <2>1. AliveIn(t) \subseteq Entries
    BY DEF AliveIn, EntriesOf
  <2> QED
    BY <2>1, EntriesFinite, FS_Subset
<1>5. ASSUME NEW v \in Users
      PROVE  /\ \A a, c \in AliveIn(t)' :
                  entries'[a].user = v /\ entries'[c].user = v => a = c
             /\ ~Setting(t).reentry => Cardinality({c \in Kept(t)' : entries'[c].user = v}) <= 1
             /\ Setting(t).maxReentries > 0 =>
                  Cardinality({c \in Kept(t)' : entries'[c].user = v})
                    <= Setting(t).maxReentries + 1
  <2> DEFINE mine == {c \in Kept(t) : entries[c].user = v}
             later == {c \in Kept(t)' : entries'[c].user = v}
  <2>1. /\ \A a, c \in AliveIn(t) : entries[a].user = v /\ entries[c].user = v => a = c
        /\ ~Setting(t).reentry => Cardinality(mine) <= 1
        /\ Setting(t).maxReentries > 0 => Cardinality(mine) <= Setting(t).maxReentries + 1
    BY <1>1 DEF TourSound
  <2>2. later \subseteq mine
    BY <1>3
  <2>3. mine \subseteq Entries
    BY DEF Kept, EntriesOf
  <2> HIDE DEF mine, later
  <2>4. /\ Cardinality(later) <= Cardinality(mine)
        /\ Cardinality(mine) \in Nat /\ Cardinality(later) \in Nat
    BY <2>2, <2>3, EntriesFinite, FS_Subset
  <2>5. \A a, c \in AliveIn(t)' : entries'[a].user = v /\ entries'[c].user = v => a = c
    BY <1>3, <2>1
  <2>6. ~Setting(t).reentry => Cardinality(later) <= 1
    BY <2>1, <2>4
  <2>7. Setting(t).maxReentries > 0 => Cardinality(later) <= Setting(t).maxReentries + 1
    BY <1>2, <2>1, <2>4
  <2> QED
    BY <2>5, <2>6, <2>7 DEF later
<1>6. Cardinality(AliveIn(t)') <= Setting(t)'.max
  BY <1>1, <1>2, <1>4 DEF TourSound
<1> QED
  BY <1>1, <1>2, <1>5, <1>6 DEF TourSound

\* A cancellation: the refund, the prize pool and the entry are written together.
LEMMA CommitUnregisterKeeps ==
  ASSUME DeskInv, NEW r \in Reqs, CommitUnregister(r)
  PROVE  DeskInv'
<1>1. PICK t, u, e, k : /\ t = req[r].tour /\ u = req[r].user /\ e = req[r].entry
                        /\ k = LedgerKey(req[r])
  OBVIOUS
<1>2. req[r].pc = "commit" /\ req[r].op = "unregister" /\ Books /\ RowsTyped
  BY DEF CommitUnregister, DeskInv, Books
<1>3. /\ t \in Tournaments /\ Open(t) /\ tourLock[t] = r /\ u \in wallets
      /\ Granted("unregister", t, u, e) /\ req[r].key \in Keys
  BY <1>1, <1>2, AtCommit
<1>4. e \in AliveIn(t) /\ e \in Entries /\ entries[e].tour = t /\ entries[e].user = u
      /\ entries[e].status = "REGISTERED" /\ EntrySound(e)
  BY <1>2, <1>3 DEF Granted, AliveIn, Alive, EntriesOf, Books
<1>5. k \in BaseKeys
  BY <1>1, <1>2, <1>3 DEF LedgerKey, BaseKeys, RegisterOps
<1>6. /\ u \in Users /\ balance[u] \in Nat /\ balance \in [Users -> Nat]
      /\ entries \in [Entries -> EntryRows] /\ tours \in [Tournaments -> TourRows]
  BY <1>2, <1>3 DEF RowsTyped
<1>7. PICK b, bal, refund : b = entries[e].bonus /\ bal = balance[u] /\ refund = Price(t, b)
  OBVIOUS
<1>8. b \in BOOLEAN /\ refund \in Nat /\ PoolShare(t) \in Nat
  <2>1. b \in BOOLEAN
    BY <1>4, <1>6, <1>7 DEF EntryRows
  <2> QED
    BY <1>2, <1>3, <1>7, <2>1, PriceNatural
<1>9. PICK new, y : /\ new = Postings(bal, refund, "TOURNAMENT_REFUND", k, e)
                    /\ y = Entry(k, "TOURNAMENT_REFUND", refund, NewBalance(bal, refund), e)
  OBVIOUS
<1>10. new \in Seq(TourPostings) /\ NewBalance(bal, refund) \in Nat
  <2>1. "TOURNAMENT_REFUND" \in EntryTypes /\ e \in Entries \cup {None} /\ bal \in Nat
        /\ refund \in Int
    BY <1>4, <1>6, <1>7, <1>8 DEF EntryTypes
  <2> QED
    BY <1>5, <1>9, <2>1, PostingsTyped
<1>11. /\ \A f : Marked(new, f, "TOURNAMENT_REFUND") = IF f = e THEN {y} ELSE {}
       /\ \A f : Marked(new, f, "TOURNAMENT_BUY_IN") = {}
       /\ y.amount = refund
  <2>1. \A f : Marked(new, f, "TOURNAMENT_REFUND") = IF f = e THEN {y} ELSE {}
    BY <1>9, PostingsMarked
  <2>2. \A f : Marked(new, f, "TOURNAMENT_BUY_IN") = {}
    BY <1>9, PostingsMarked
  <2>3. y.amount = refund
    BY ONLY <1>9 DEF Entry
  <2> QED
    BY <2>1, <2>2, <2>3
<1>12. /\ ledger' = [ledger EXCEPT ![u] = ledger[u] \o new]
       /\ balance' = [balance EXCEPT ![u] = NewBalance(bal, refund)]
       /\ wallets' = wallets
       /\ tours' = [tours EXCEPT ![t].pool = @ - PoolShare(t)]
       /\ entries' = [entries EXCEPT ![e].status = "REFUNDED"]
  BY <1>1, <1>7, <1>9, Zenon DEF CommitUnregister, ApplyLedgerEntry
<1>13. /\ ledger' \in [Users -> Seq(TourPostings)] /\ LedgersGrow
       /\ \A f : BuyIns(f)' = BuyIns(f) \cup Marked(new, f, "TOURNAMENT_BUY_IN")
       /\ \A f : Refunds(f)' = Refunds(f) \cup Marked(new, f, "TOURNAMENT_REFUND")
  BY <1>2, <1>6, <1>10, <1>12, LedgerGrows
<1>14. PICK x \in Listed(ledger[u]) : BuyIns(e) = {x} /\ Refunds(e) = {} /\ x.amount = -refund
  BY <1>4, <1>7 DEF EntrySound
<1>15. /\ BuyIns(e)' = {x} /\ Refunds(e)' = {y} /\ y.amount = -x.amount
       /\ \A f \in Entries \ {e} : BuyIns(f)' = BuyIns(f) /\ Refunds(f)' = Refunds(f)
  <2>1. y.amount = -x.amount
    <3>1. \A n \in Nat : -(-n) = n
      OBVIOUS
    <3> QED
      BY <1>8, <1>11, <1>14, <3>1
  <2>2. BuyIns(e)' = {x} \cup {} /\ Refunds(e)' = {} \cup {y}
    <3>1. /\ Marked(new, e, "TOURNAMENT_BUY_IN") = {}
          /\ Marked(new, e, "TOURNAMENT_REFUND") = {y}
      BY <1>11
    <3>2. /\ BuyIns(e)' = BuyIns(e) \cup Marked(new, e, "TOURNAMENT_BUY_IN")
          /\ Refunds(e)' = Refunds(e) \cup Marked(new, e, "TOURNAMENT_REFUND")
      BY <1>13
    <3> QED
      BY ONLY <1>14, <3>1, <3>2, Zenon
  <2>3. \A f \in Entries \ {e} : /\ BuyIns(f)' = BuyIns(f) \cup {}
                                /\ Refunds(f)' = Refunds(f) \cup {}
    <3> SUFFICES ASSUME NEW f \in Entries \ {e}
                 PROVE  BuyIns(f)' = BuyIns(f) \cup {} /\ Refunds(f)' = Refunds(f) \cup {}
      OBVIOUS
    <3>1. /\ Marked(new, f, "TOURNAMENT_BUY_IN") = {}
          /\ Marked(new, f, "TOURNAMENT_REFUND") = {}
      BY <1>11
    <3>2. /\ BuyIns(f)' = BuyIns(f) \cup Marked(new, f, "TOURNAMENT_BUY_IN")
          /\ Refunds(f)' = Refunds(f) \cup Marked(new, f, "TOURNAMENT_REFUND")
      BY <1>13
    <3> QED
      BY ONLY <3>1, <3>2, Zenon
  <2> QED
    BY <2>1, <2>2, <2>3
<1>16. /\ entries'[e].status = "REFUNDED" /\ entries'[e].tour = t /\ entries'[e].user = u
       /\ \A f \in Entries \ {e} : entries'[f] = entries[f]
  BY <1>4, <1>6, <1>12 DEF EntryRows
<1>17. /\ tours'[t].status = tours[t].status /\ tours'[t].setting = tours[t].setting
       /\ tours'[t].pool = tours[t].pool - Setting(t).buyIn
       /\ \A z \in Tournaments \ {t} : tours'[z] = tours[z]
  BY <1>3, <1>6, <1>12 DEF TourRows, PoolShare
<1>18. RowsOnlyGrow
  BY <1>3, <1>4, <1>12, <1>16, <1>17 DEF RowsOnlyGrow
<1>19. RowsTyped'
  <2>1. tours' \in [Tournaments -> TourRows]
    <3>1. PICK n, old, row : n = PoolShare(t) /\ old = tours[t] /\ row = [old EXCEPT !.pool = @ - n]
      OBVIOUS
    <3>2. row \in TourRows
      <4>1. old \in TourRows /\ n \in Nat /\ \A a \in Int : a - n \in Int
        BY <1>3, <1>6, <1>8, <3>1
      <4>2. old \in [status : {"NONE", "REGISTERING", "RUNNING", "FINISHED"},
                    setting : {0} \cup DOMAIN Settings, pool : Int]
        BY <4>1 DEF TourRows
      <4>3. row = [old EXCEPT !.pool = old.pool - n] /\ old.pool - n \in Int
        BY <3>1, <4>1, <4>2
      <4> QED
        BY ONLY <4>2, <4>3 DEF TourRows
    <3>3. tours' = [tours EXCEPT ![t] = row]
      BY <1>3, <1>6, <1>12, <3>1
    <3> QED
      BY <1>3, <1>6, <3>2, <3>3
  <2>2. entries' \in [Entries -> EntryRows]
    <3>1. PICK old, row : old = entries[e] /\ row = [old EXCEPT !.status = "REFUNDED"]
      OBVIOUS
    <3>2. row \in EntryRows
      BY <1>4, <1>6, <3>1 DEF EntryRows
    <3>3. entries' = [entries EXCEPT ![e] = row]
      BY <1>4, <1>6, <1>12, <3>1
    <3> QED
      BY <1>4, <1>6, <3>2, <3>3
  <2>3. balance' \in [Users -> Nat]
    BY <1>6, <1>10, <1>12
  <2> QED
    BY <1>2, <1>12, <1>13, <2>1, <2>2, <2>3 DEF RowsTyped
<1>20. EntrySound(e)'
  <2>1. Open(t)' /\ u \in wallets' /\ x \in Listed(ledger'[u])
    BY <1>3, <1>6, <1>12, <1>13, <1>14, <1>17 DEF Open, LedgersGrow
  <2> QED
    BY <1>15, <1>16, <2>1 DEF EntrySound
<1>21. ASSUME NEW f \in Entries, entries'[f].tour = t PROVE EntrySound(f)'
  <2>1. CASE f # e
    <3>1. /\ entries'[f] = entries[f] /\ EntrySound(f)
          /\ tours'[entries[f].tour].setting = tours[entries[f].tour].setting
      BY <1>2, <1>16, <1>17, <1>21, <2>1 DEF Books
    <3> QED
      BY <1>2, <1>13, <1>15, <1>18, <2>1, <3>1, EntryKept
  <2> QED
    BY <1>20, <2>1
<1>22. TourSound(t)'
  <2>1. EntriesOf(t)' = EntriesOf(t) /\ e \in EntriesOf(t) /\ EntriesOf(t) \subseteq Entries
    BY <1>4, <1>16 DEF EntriesOf
  <2>2. AliveIn(t)' \subseteq AliveIn(t)
    BY <1>16, <2>1 DEF AliveIn, Alive
  <2>3. Kept(t)' = Kept(t) \ {e} /\ e \in Kept(t) /\ Kept(t) \subseteq Entries
    BY <1>14, <1>15, <2>1 DEF Kept
  <2>4. \A f \in Entries : entries'[f].tour = t => entries'[f].user = entries[f].user
    BY <1>4, <1>16
  <2>5. PoolSound(t)'
    <3>1. \A a, n \in Nat : a * (n - 1) = a * n - a
      OBVIOUS
    <3>2. PICK a, n : a = Setting(t).buyIn /\ n = Cardinality(Kept(t))
      OBVIOUS
    <3>3. tours[t].pool = a * n /\ a \in Nat /\ n \in Nat
      <4>1. n \in Nat /\ TourSound(t) /\ tours[t].status # "NONE"
        BY <1>2, <1>3, <2>3, <3>2, EntriesFinite DEF Books, Open
      <4>2. a \in Nat
        BY <1>2, <1>3, <3>2, <4>1, PoolNatural
      <4> QED
        BY <3>2, <4>1, <4>2 DEF TourSound, PoolSound
    <3>4. tours'[t].pool = a * n - a
      BY <1>17, <3>2, <3>3
    <3>5. Setting(t)'.buyIn = a
      BY <1>17, <3>2 DEF Setting
    <3>6. Cardinality(Kept(t))' = n - 1
      BY <2>3, <3>2, EntriesFinite, FS_RemoveElement
    <3> QED
      BY <3>1, <3>3, <3>4, <3>5, <3>6 DEF PoolSound
  <2> QED
    BY <1>2, <1>3, <1>17, <2>2, <2>3, <2>4, <2>5, FewerSound
<1>23. \A v \in Users : WalletSound(v)'
  <2> SUFFICES ASSUME NEW v \in Users, v \notin wallets' PROVE balance'[v] = 0 /\ ledger'[v] = <<>>
    BY DEF WalletSound
  <2>1. WalletSound(v) /\ v # u /\ v \notin wallets /\ ledger \in [Users -> Seq(TourPostings)]
    BY <1>2, <1>3, <1>12 DEF Books, RowsTyped
  <2> QED
    BY <1>6, <1>12, <2>1 DEF WalletSound
<1>24. \A f \in Entries : entries'[f].tour # t =>
         entries'[f] = entries[f] /\ BuyIns(f)' = BuyIns(f) /\ Refunds(f)' = Refunds(f)
  BY <1>15, <1>16
<1>25. Books' /\ \A z \in Tournaments \ {t} : SameTour(z)
  BY <1>2, <1>3, <1>13, <1>17, <1>18, <1>19, <1>21, <1>22, <1>23, <1>24, RowsWritten
<1>26. Finish(r) /\ tourLock' = ToursUnlocked(r) /\ walletLock' = Unlocked(r)
  BY DEF CommitUnregister
<1> QED
  BY <1>3, <1>18, <1>25, <1>26, CommitKeeps

\* A row of an entry that stays, or leaves, with its player and its price.
Settled(old, new) ==
  /\ new.tour = old.tour /\ new.user = old.user /\ new.bonus = old.bonus
  /\ new.status \in {old.status, "ELIMINATED", "PAID"}

\* Entries of an open tournament leave it, without refund.
LEMMA EntriesSettled ==
  ASSUME Books, NEW t, Open(t), RowsTyped', LedgersGrow, wallets' = wallets,
         \A f \in Entries : BuyIns(f)' = BuyIns(f) /\ Refunds(f)' = Refunds(f),
         \A v \in Users \ wallets : balance'[v] = balance[v] /\ ledger'[v] = ledger[v],
         tours'[t].setting = tours[t].setting, tours'[t].pool = tours[t].pool,
         tours'[t].status # "NONE", \A z \in Tournaments \ {t} : tours'[z] = tours[z],
         \A f \in Entries : IF entries[f].tour = t THEN Settled(entries[f], entries'[f])
                            ELSE entries'[f] = entries[f]
  PROVE  Books' /\ RowsOnlyGrow /\ \A z \in Tournaments \ {t} : SameTour(z)
<1>1. /\ t \in Tournaments /\ tours[t].status # "NONE"
      /\ \A f \in Entries : EntrySound(f) /\ (entries[f].tour = t => entries[f].status # "NONE")
  <2> SUFFICES ASSUME NEW f \in Entries, entries[f].tour = t PROVE entries[f].status # "NONE"
    BY DEF Open, Books
  <2>1. EntrySound(f) /\ t \in Tournaments
    BY DEF Books, Open
  <2> QED
    BY <2>1, TournamentConstants DEF EntrySound
<1>2. \A f \in Entries : /\ entries'[f].tour = entries[f].tour
                         /\ entries'[f].user = entries[f].user
                         /\ entries'[f].bonus = entries[f].bonus
                         /\ entries'[f].status \in {entries[f].status, "ELIMINATED", "PAID"}
                         /\ entries[f].status # "NONE" => entries'[f].status # "NONE"
  BY DEF Settled
<1>3. RowsOnlyGrow
  BY <1>2 DEF RowsOnlyGrow
<1>4. ASSUME NEW f \in Entries, entries'[f].tour = t PROVE EntrySound(f)'
  <2>1. PICK u, b : u = entries[f].user /\ b = entries[f].bonus
    OBVIOUS
  <2>2. /\ entries[f].tour = t /\ entries[f].status # "NONE" /\ entries'[f].user = u
        /\ entries'[f].bonus = b /\ entries'[f].status # "NONE"
        /\ entries'[f].status \in {"REGISTERED", "REFUNDED"} =>
             entries'[f].status = entries[f].status
    BY <1>1, <1>2, <1>4, <2>1
  <2>3. PICK x \in Listed(ledger[u]) :
          /\ BuyIns(f) = {x}
          /\ entries[f].status = "REGISTERED" => Refunds(f) = {} /\ x.amount = -Price(t, b)
          /\ entries[f].status = "REFUNDED" => \E y : Refunds(f) = {y} /\ y.amount = -x.amount
    BY <1>1, <2>1, <2>2 DEF EntrySound
  <2>4. u \in wallets /\ u \in wallets' /\ x \in Listed(ledger'[u]) /\ Open(t)'
    <3>1. u \in wallets /\ wallets \subseteq Users
      BY <1>1, <2>1, <2>2 DEF EntrySound, Books, RowsTyped
    <3> QED
      BY <1>1, <2>3, <3>1 DEF LedgersGrow, Open
  <2>5. Price(t, b)' = Price(t, b)
    BY DEF Price, Setting
  <2>6. /\ BuyIns(f)' = {x}
        /\ entries'[f].status = "REGISTERED" => Refunds(f)' = {} /\ x.amount = -Price(t, b)'
        /\ entries'[f].status = "REFUNDED" => \E y : Refunds(f)' = {y} /\ y.amount = -x.amount
    BY <2>2, <2>3, <2>5
  <2> QED
    BY <1>4, <2>2, <2>4, <2>6 DEF EntrySound
<1>5. TourSound(t)'
  <2>1. EntriesOf(t)' = EntriesOf(t)
    BY <1>2 DEF EntriesOf
  <2>2. AliveIn(t)' \subseteq AliveIn(t)
    BY <1>2, <2>1 DEF AliveIn, Alive, EntriesOf
  <2>3. Kept(t)' = Kept(t)
    BY <2>1 DEF Kept, EntriesOf
  <2>4. PoolSound(t)'
    <3>1. TourSound(t) /\ Setting(t)' = Setting(t)
      BY <1>1 DEF Books, Setting
    <3> QED
      BY <1>1, <2>3, <3>1 DEF TourSound, PoolSound
  <2> QED
    BY <1>2, <2>2, <2>3, <2>4, FewerSound
<1>6. \A v \in Users : WalletSound(v)'
  BY DEF Books, WalletSound
<1>7. Books' /\ \A z \in Tournaments \ {t} : SameTour(z)
  BY <1>1, <1>2, <1>3, <1>4, <1>5, <1>6, RowsWritten
<1> QED
  BY <1>3, <1>7

\* An elimination.
LEMMA CommitEliminateKeeps ==
  ASSUME DeskInv, NEW r \in Reqs, CommitEliminate(r)
  PROVE  DeskInv'
<1>1. PICK t, e : t = req[r].tour /\ e = req[r].entry
  OBVIOUS
<1>2. PICK place : place = IF req[r].position > 0 THEN req[r].position ELSE AutomaticPosition(t, e)
  OBVIOUS
<1>3. /\ req[r].pc = "lock" /\ req[r].op = "eliminate" /\ Books /\ RowsTyped
      /\ tourLock[t] = None
      /\ entries' = [entries EXCEPT ![e].status = "ELIMINATED", ![e].position = place]
      /\ tours' = [tours EXCEPT ![t].status = IF @ = "REGISTERING" THEN "RUNNING" ELSE @]
      /\ Finish(r) /\ UNCHANGED <<wallets, balance, ledger, walletLock, tourLock>>
  BY <1>1, <1>2 DEF CommitEliminate, DeskInv, Books, TourFree, walletVars
<1>4. /\ t \in Tournaments /\ Open(t) /\ e \in Entries /\ entries[e].tour = t
      /\ entries[e].status # "NONE" /\ req[r].position \in Nat
  BY <1>1, <1>3, OwnShape DEF ShapeOf, Open, EntryIn, TourRequests
<1>5. entries \in [Entries -> EntryRows] /\ tours \in [Tournaments -> TourRows]
  BY <1>3 DEF RowsTyped
<1>6. place \in Nat
  <2>1. AliveIn(t) \ {e} \subseteq Entries
    BY DEF AliveIn, EntriesOf
  <2>2. Cardinality(AliveIn(t) \ {e}) \in Nat
    BY <2>1, EntriesFinite
  <2> QED
    BY <1>2, <1>4, <2>2 DEF AutomaticPosition
<1>7. PICK old, row :
        /\ old = entries[e]
        /\ row = [old EXCEPT !.status = "ELIMINATED", !.position = place]
  OBVIOUS
<1>8. /\ row \in EntryRows /\ row.tour = old.tour /\ row.user = old.user /\ row.bonus = old.bonus
      /\ row.status = "ELIMINATED" /\ entries' = [entries EXCEPT ![e] = row]
  <2>1. old \in EntryRows
    BY <1>4, <1>5, <1>7
  <2>2. row \in EntryRows /\ row.status = "ELIMINATED"
    BY <1>6, <1>7, <2>1 DEF EntryRows
  <2>3. row.tour = old.tour /\ row.user = old.user /\ row.bonus = old.bonus
    BY <1>7, <2>1 DEF EntryRows
  <2>4. entries' = [entries EXCEPT ![e] = row]
    BY <1>3, <1>4, <1>5, <1>7
  <2> QED
    BY <2>2, <2>3, <2>4
<1>9. /\ tours'[t].setting = tours[t].setting /\ tours'[t].pool = tours[t].pool
      /\ tours'[t].status # "NONE" /\ \A z \in Tournaments \ {t} : tours'[z] = tours[z]
      /\ tours' \in [Tournaments -> TourRows]
  <2>1. PICK was, tour : /\ was = tours[t]
                         /\ tour = [was EXCEPT !.status = IF was.status = "REGISTERING"
                                                          THEN "RUNNING" ELSE was.status]
    OBVIOUS
  <2>2. was \in TourRows /\ was.status # "NONE"
    BY <1>4, <1>5, <2>1 DEF Open
  <2>3. /\ tour \in TourRows /\ tour.setting = was.setting /\ tour.pool = was.pool
        /\ tour.status # "NONE"
    BY <2>1, <2>2 DEF TourRows
  <2>4. tours' = [tours EXCEPT ![t] = tour]
    BY <1>3, <1>4, <1>5, <2>1
  <2>5. tours'[t] = tour /\ \A z \in Tournaments \ {t} : tours'[z] = tours[z]
    BY <1>4, <1>5, <2>4
  <2>6. tours' \in [Tournaments -> TourRows]
    BY <1>4, <1>5, <2>3, <2>4
  <2>7. tour.setting = tours[t].setting /\ tour.pool = tours[t].pool
    BY <2>1, <2>3
  <2> QED
    BY <2>3, <2>5, <2>6, <2>7
<1>10. RowsTyped'
  <2>1. entries' \in [Entries -> EntryRows]
    BY <1>4, <1>5, <1>8
  <2>2. UNCHANGED <<wallets, balance, ledger>>
    BY <1>3
  <2> QED
    BY <1>3, <1>9, <2>1, <2>2 DEF RowsTyped
<1>11. /\ LedgersGrow
       /\ \A f \in Entries : BuyIns(f)' = BuyIns(f) /\ Refunds(f)' = Refunds(f)
  BY <1>3 DEF LedgersGrow, BuyIns, Refunds, Legs
<1>12. \A f \in Entries : IF entries[f].tour = t THEN Settled(entries[f], entries'[f])
                          ELSE entries'[f] = entries[f]
  BY <1>4, <1>5, <1>7, <1>8 DEF Settled
<1>13. Books' /\ RowsOnlyGrow /\ \A z \in Tournaments \ {t} : SameTour(z)
  BY <1>3, <1>4, <1>9, <1>10, <1>11, <1>12, EntriesSettled, ZenonT(60)
<1> QED
  BY <1>3, <1>4, <1>13, CommitKeeps

\* An edit of the setting, when it respects the entries.
LEMMA ApplyUpdateKeeps ==
  ASSUME DeskInv, NEW r \in Reqs, ApplyUpdate(r), SettingsKept
  PROVE  DeskInv'
<1>1. PICK t, n : t = req[r].tour /\ n = req[r].setting
  OBVIOUS
<1>2. /\ req[r].pc = "apply" /\ tourLock[t] = None /\ Books /\ RowsTyped /\ Finish(r)
      /\ UNCHANGED <<wallets, balance, ledger, walletLock, entries, tourLock>>
      /\ tours' = IF tours[t].status = "REGISTERING" THEN [tours EXCEPT ![t].setting = n]
                  ELSE tours
  BY <1>1 DEF ApplyUpdate, DeskInv, Books, TourFree, walletVars
<1>3. t \in Tournaments /\ Open(t) /\ n \in DOMAIN Settings
  BY <1>1, <1>2, OwnShape DEF ShapeOf, Open, Ops, RegisterOps
<1>4. CASE tours' = tours
  <2>1. RowsKept
    BY <1>2, <1>4 DEF RowsKept
  <2> QED
    BY <1>2, <2>1, FinishKeeps
<1>5. CASE tours' # tours
  <2>1. tours' = [tours EXCEPT ![t].setting = n] /\ tours \in [Tournaments -> TourRows]
    BY <1>2, <1>5 DEF RowsTyped
  <2>2. /\ tours'[t].status = tours[t].status /\ tours'[t].pool = tours[t].pool
        /\ tours'[t].setting = n /\ \A z \in Tournaments \ {t} : tours'[z] = tours[z]
        /\ tours' \in [Tournaments -> TourRows]
    <3>1. PICK was, tour : was = tours[t] /\ tour = [was EXCEPT !.setting = n]
      OBVIOUS
    <3>2. was \in TourRows
      BY <1>3, <2>1, <3>1
    <3>3. tour \in TourRows /\ tour.status = was.status /\ tour.pool = was.pool /\ tour.setting = n
      BY <1>3, <3>1, <3>2 DEF TourRows
    <3>4. tours' = [tours EXCEPT ![t] = tour]
      BY <1>3, <2>1, <3>1
    <3> QED
      BY <1>3, <2>1, <3>1, <3>3, <3>4
  <2>3. RowsTyped' /\ RowsOnlyGrow /\ LedgersGrow
    BY <1>2, <1>3, <2>2 DEF RowsTyped, RowsOnlyGrow, LedgersGrow
  <2>4. \A f \in Entries : BuyIns(f)' = BuyIns(f) /\ Refunds(f)' = Refunds(f)
    BY <1>2 DEF BuyIns, Refunds, Legs
  <2>5. tours'[t].setting # tours[t].setting
    <3> SUFFICES ASSUME tours'[t].setting = tours[t].setting PROVE FALSE
      OBVIOUS
    <3>1. PICK was : was = tours[t]
      OBVIOUS
    <3>2. was \in TourRows /\ n = was.setting
      BY <1>3, <2>1, <2>2, <3>1
    <3>3. [was EXCEPT !.setting = n] = was
      BY <3>2 DEF TourRows
    <3>4. tours' = [tours EXCEPT ![t] = was]
      BY <1>3, <2>1, <3>1, <3>3
    <3> QED
      BY <1>3, <1>5, <2>1, <3>1, <3>4
  <2>6. NotRefunded(t) = {}
    BY <1>3, <2>5 DEF SettingsKept, Open
  <2>7. ASSUME NEW f \in Entries, entries'[f].tour = t
        PROVE  EntrySound(f)' /\ Refunds(f) # {} /\ entries[f].status # "REGISTERED"
    <3>1. /\ entries'[f] = entries[f] /\ EntrySound(f) /\ entries[f].status = "REFUNDED"
      BY <1>2, <2>6, <2>7 DEF Books, NotRefunded, EntriesOf
    <3>2. Refunds(f) # {}
      BY <3>1 DEF EntrySound
    <3> QED
      BY <1>2, <2>3, <2>4, <3>1, <3>2, EntryKept
  <2>8. TourSound(t)'
    <3>1. Kept(t)' = {} /\ AliveIn(t)' = {}
      BY <1>2, <2>4, <2>7 DEF Kept, AliveIn, Alive, EntriesOf
    <3>2. Kept(t) = {}
      BY <1>2, <2>7 DEF Kept, EntriesOf
    <3>3. tours[t].pool = 0
      <4>1. TourSound(t) /\ Setting(t).buyIn \in Nat /\ tours[t].status # "NONE"
        BY <1>2, <1>3, PoolNatural DEF Books, Open
      <4> QED
        BY <3>2, <4>1, FS_EmptySet DEF TourSound, PoolSound
    <3>4. Setting(t)' = Settings[n]
      BY <2>2 DEF Setting
    <3>5. \A u : {e \in Kept(t) : entries[e].user = u}' = {}
      BY <3>1
    <3>6. Cardinality({}) = 0 /\ Settings[n].buyIn \in Nat /\ Settings[n].max \in Nat
          /\ Settings[n].maxReentries \in Nat
      BY <1>3, FS_EmptySet, SettingConstants
    <3> QED
      BY <1>3, <2>2, <3>1, <3>3, <3>4, <3>5, <3>6 DEF TourSound, PoolSound
  <2>9. \A v \in Users : WalletSound(v)'
    BY <1>2 DEF Books, WalletSound
  <2>10. Books' /\ \A z \in Tournaments \ {t} : SameTour(z)
    BY <1>2, <1>3, <2>2, <2>3, <2>4, <2>7, <2>8, <2>9, RowsWritten
  <2> QED
    BY <1>2, <1>3, <2>3, <2>10, CommitKeeps
<1> QED
  BY <1>4, <1>5

\* What the payouts of a grade post for one user.
LEMMA PrizesTyped ==
  ASSUME RowsTyped, NEW u \in Users, NEW payouts \in Seq(PayoutRows)
  PROVE  /\ \A n \in Nat : BalanceAfter(u, payouts, n) \in Nat
         /\ PrizePostings(u, payouts) \in Seq(TourPostings)
         /\ \A x \in Listed(PrizePostings(u, payouts)) : x.type = "TOURNAMENT_PAYOUT"
         /\ Won(u, payouts) = {} =>
              /\ \A n \in Nat : BalanceAfter(u, payouts, n) = balance[u]
              /\ PrizePostings(u, payouts) = <<>>
<1> DEFINE amounts == [i \in DOMAIN payouts |-> payouts[i].amount]
           upTo(n) == {i \in Won(u, payouts) : i <= n}
           won == Ascending(Won(u, payouts))
           row(k) == Entry(PayoutKey(payouts[won[k]].entry), "TOURNAMENT_PAYOUT",
                           payouts[won[k]].amount, BalanceAfter(u, payouts, won[k]),
                           payouts[won[k]].entry)
<1>1. /\ DOMAIN payouts = 1 .. Len(payouts) /\ Len(payouts) \in Nat
      /\ \A i \in DOMAIN payouts : payouts[i] \in PayoutRows
  OBVIOUS
<1>2. /\ IsFiniteSet(DOMAIN payouts) /\ DOMAIN payouts \subseteq Nat
      /\ Won(u, payouts) \subseteq DOMAIN payouts
  <2>1. IsFiniteSet(1 .. Len(payouts))
    BY <1>1, FS_Interval
  <2> QED
    BY <1>1, <2>1 DEF Won
<1>3. \A i \in DOMAIN payouts : amounts[i] \in Nat /\ payouts[i].entry \in Entries
  BY <1>1 DEF PayoutRows
<1>4. balance[u] \in Nat
  BY DEF RowsTyped
<1>5. ASSUME NEW n \in Nat
      PROVE  /\ BalanceAfter(u, payouts, n) = balance[u] + SumFunctionOnSet(amounts, upTo(n))
             /\ SumFunctionOnSet(amounts, upTo(n)) \in Nat
  <2>1. IsFiniteSet(upTo(n)) /\ \A i \in upTo(n) : amounts[i] \in Nat
    BY <1>2, <1>3, FS_Subset
  <2> HIDE DEF amounts, upTo
  <2>2. SumFunctionOnSet(amounts, upTo(n)) \in Nat
    BY <2>1, SumNatural
  <2>3. BalanceAfter(u, payouts, n) = balance[u] + SumFunctionOnSet(amounts, upTo(n))
    BY DEF BalanceAfter, amounts, upTo
  <2> QED
    BY <2>2, <2>3
<1> HIDE DEF amounts, upTo
<1>6. \A n \in Nat : BalanceAfter(u, payouts, n) \in Nat
  <2> SUFFICES ASSUME NEW n \in Nat PROVE BalanceAfter(u, payouts, n) \in Nat
    OBVIOUS
  <2>1. PICK sum : sum = SumFunctionOnSet(amounts, upTo(n))
    OBVIOUS
  <2>2. sum \in Nat /\ BalanceAfter(u, payouts, n) = balance[u] + sum
    BY <1>5, <2>1
  <2> QED
    BY <1>4, <2>2
<1>7. /\ Cardinality(Won(u, payouts)) \in Nat
      /\ DOMAIN won = 1 .. Cardinality(Won(u, payouts))
      /\ \A k \in DOMAIN won : won[k] \in Won(u, payouts)
  <2>1. Won(u, payouts) \in SUBSET Nat /\ IsFiniteSet(Won(u, payouts))
    BY <1>2, FS_Subset
  <2> QED
    BY <2>1, AscendingMembers
<1>8. PrizePostings(u, payouts) = [k \in DOMAIN won |-> row(k)]
  BY DEF PrizePostings
<1>9. \A k \in DOMAIN won : row(k) \in TourPostings /\ row(k).type = "TOURNAMENT_PAYOUT"
  <2> SUFFICES ASSUME NEW k \in DOMAIN won
               PROVE  row(k) \in TourPostings /\ row(k).type = "TOURNAMENT_PAYOUT"
    OBVIOUS
  <2>1. PICK i : i = won[k]
    OBVIOUS
  <2>2. i \in DOMAIN payouts /\ i \in Nat
    BY <1>2, <1>7, <2>1
  <2>3. PICK e, amount, after : /\ e = payouts[i].entry /\ amount = payouts[i].amount
                                /\ after = BalanceAfter(u, payouts, i)
    OBVIOUS
  <2>4. e \in Entries /\ amount \in Int /\ after \in Nat
    <3>1. amounts[i] = amount
      BY <2>2, <2>3 DEF amounts
    <3> QED
      BY <1>3, <1>6, <2>2, <2>3, <3>1, SMTT(40)
  <2>5. PayoutKey(e) \in TourKeys /\ "TOURNAMENT_PAYOUT" \in EntryTypes
    BY <2>4 DEF PayoutKey, TourKeys, BaseKeys, EntryTypes
  <2>6. Entry(PayoutKey(e), "TOURNAMENT_PAYOUT", amount, after, e) \in TourPostings
    BY <2>4, <2>5, EntryTyped
  <2>7. row(k) = Entry(PayoutKey(e), "TOURNAMENT_PAYOUT", amount, after, e)
    BY <2>1, <2>3
  <2> QED
    BY <2>6, <2>7 DEF Entry
<1> HIDE DEF won, row
<1>10. /\ PrizePostings(u, payouts) \in Seq(TourPostings)
       /\ \A x \in Listed(PrizePostings(u, payouts)) : x.type = "TOURNAMENT_PAYOUT"
  BY <1>7, <1>8, <1>9 DEF Listed
<1>11. ASSUME Won(u, payouts) = {}
       PROVE  /\ \A n \in Nat : BalanceAfter(u, payouts, n) = balance[u]
              /\ PrizePostings(u, payouts) = <<>>
  <2>1. \A n \in Nat : upTo(n) = {}
    BY <1>11 DEF upTo
  <2>2. SumFunctionOnSet(amounts, {}) = 0
    BY SumEmpty
  <2>3. \A n \in Nat : BalanceAfter(u, payouts, n) = balance[u]
    <3> SUFFICES ASSUME NEW n \in Nat PROVE BalanceAfter(u, payouts, n) = balance[u]
      OBVIOUS
    <3>1. BalanceAfter(u, payouts, n) = balance[u] + 0
      BY <1>5, <2>1, <2>2
    <3> QED
      BY <1>4, <3>1
  <2>4. DOMAIN won = {}
    BY <1>7, <1>11, FS_EmptySet
  <2> QED
    BY <1>8, <2>3, <2>4
<1> QED
  BY <1>6, <1>10, <1>11

\* The payouts: the prizes, the places and the status are written together.
LEMMA CommitFinishKeeps ==
  ASSUME DeskInv, NEW r \in Reqs, CommitFinish(r)
  PROVE  DeskInv'
<1>1. PICK q, t, payouts : q = req[r] /\ t = q.tour /\ payouts = q.payouts
  BY Zenon
<1> DEFINE paidAt(e) == {i \in DOMAIN payouts : payouts[i].entry = e}
           row(e) == IF paidAt(e) # {}
                     THEN [entries[e] EXCEPT !.status = "PAID", !.paid = TRUE,
                             !.prize = payouts[Min(paidAt(e))].amount,
                             !.position = payouts[Min(paidAt(e))].position]
                     ELSE IF e = q.winner THEN [entries[e] EXCEPT !.position = 1] ELSE entries[e]
<1>2. /\ q.pc = "pay" /\ Books /\ RowsTyped /\ q \in TourRequests /\ ShapeOf(q)
      /\ LockShape(r)
  BY <1>1, OwnShape, Zenon DEF CommitFinish, DeskInv, Books
<1>3. /\ q.op = "finish" /\ t \in Tournaments /\ Open(t) /\ tourLock[t] = r
      /\ payouts \in Seq(PayoutRows) /\ q.winner \in 0 .. MaxEntries
      /\ \A i \in DOMAIN payouts : EntryIn(payouts[i].entry, t)
      /\ q.winner # 0 => EntryIn(q.winner, t)
  <2>1. q.op = "finish" /\ Open(q.tour)
    BY <1>2, Zenon DEF ShapeOf, Ops, RegisterOps
  <2> QED
    BY <1>1, <1>2, <2>1 DEF ShapeOf, Open, LockShape, HoldingSteps, TourRequests, RegisterOps
<1>4. /\ \A u \in Users : balance'[u] = BalanceAfter(u, payouts, Len(payouts))
      /\ balance' = [u \in Users |-> BalanceAfter(u, payouts, Len(payouts))]
      /\ ledger' = [u \in Users |-> ledger[u] \o PrizePostings(u, payouts)]
      /\ tours' = [tours EXCEPT ![t].status = "FINISHED"] /\ wallets' = wallets
      /\ Finish(r) /\ tourLock' = ToursUnlocked(r) /\ walletLock' = Unlocked(r)
  BY <1>1, Zenon DEF CommitFinish
<1>5. entries' = [e \in Entries |-> row(e)]
  BY <1>1, Zenon DEF CommitFinish
<1>6. /\ ledger \in [Users -> Seq(TourPostings)] /\ balance \in [Users -> Nat]
      /\ entries \in [Entries -> EntryRows] /\ tours \in [Tournaments -> TourRows]
      /\ Len(payouts) \in Nat
  BY <1>2, <1>3 DEF RowsTyped
<1>7. \A u \in Users :
        /\ BalanceAfter(u, payouts, Len(payouts)) \in Nat
        /\ PrizePostings(u, payouts) \in Seq(TourPostings)
        /\ \A x \in Listed(PrizePostings(u, payouts)) : x.type = "TOURNAMENT_PAYOUT"
        /\ Won(u, payouts) = {} => /\ BalanceAfter(u, payouts, Len(payouts)) = balance[u]
                                   /\ PrizePostings(u, payouts) = <<>>
  BY <1>2, <1>3, <1>6, PrizesTyped
<1>8. ledger' \in [Users -> Seq(TourPostings)] /\ balance' \in [Users -> Nat]
  BY <1>4, <1>6, <1>7
<1>9. PICK books, more, later : /\ books = ledger /\ later = ledger'
                                /\ more = [u \in Users |-> PrizePostings(u, payouts)]
  OBVIOUS
<1>10. Extended(books, more, later)
  <2> SUFFICES ASSUME NEW u \in Users
               PROVE  /\ books[u] \in Seq(TourPostings) /\ more[u] \in Seq(TourPostings)
                      /\ later[u] = books[u] \o more[u]
    BY DEF Extended
  <2> QED
    BY <1>4, <1>6, <1>7, <1>9
<1>11. LedgersGrow
  <2> SUFFICES ASSUME NEW u \in Users PROVE Listed(books[u]) \subseteq Listed(later[u])
    BY <1>9 DEF LedgersGrow
  <2>1. /\ books[u] \in Seq(TourPostings) /\ more[u] \in Seq(TourPostings)
        /\ later[u] = books[u] \o more[u]
    BY <1>10 DEF Extended
  <2> QED
    BY <2>1, ListedGrows
<1>12. ASSUME NEW f, NEW kind, kind # "TOURNAMENT_PAYOUT"
       PROVE  Legs(later, f, kind) = Legs(books, f, kind)
  <2>1. Legs(later, f, kind) = Legs(books, f, kind) \cup Legs(more, f, kind)
    BY <1>10, LegsGrow
  <2>2. \A u \in Users : Marked(more[u], f, kind) = {}
    BY <1>7, <1>9, <1>12 DEF Marked
  <2>3. \A x : x \notin Legs(more, f, kind)
    BY <2>2, LegsAreMarked
  <2> QED
    BY <2>1, <2>3
<1>13. \A f \in Entries : BuyIns(f)' = BuyIns(f) /\ Refunds(f)' = Refunds(f)
  BY <1>9, <1>12 DEF BuyIns, Refunds
<1>14. \A e \in Entries : /\ row(e) \in EntryRows
                          /\ entries[e].tour = t => Settled(entries[e], row(e))
                          /\ entries[e].tour # t => row(e) = entries[e]
  <2> SUFFICES ASSUME NEW e \in Entries
               PROVE  /\ row(e) \in EntryRows
                      /\ entries[e].tour = t => Settled(entries[e], row(e))
                      /\ entries[e].tour # t => row(e) = entries[e]
    BY Zenon
  <2>1. PICK old : old = entries[e]
    OBVIOUS
  <2>2. old \in EntryRows
    BY <1>6, <2>1
  <2>3. CASE paidAt(e) # {}
    <3>1. PICK i : i = Min(paidAt(e))
      OBVIOUS
    <3>2. paidAt(e) \in SUBSET Nat
      BY <1>3
    <3>3. i \in DOMAIN payouts /\ payouts[i].entry = e
      BY <2>3, <3>1, <3>2, SmallestOf
    <3>4. payouts[i] \in PayoutRows
      BY <1>3, <3>3
    <3>5. PICK amount, place : amount = payouts[i].amount /\ place = payouts[i].position
      OBVIOUS
    <3>6. amount \in Nat /\ place \in Nat /\ entries[e].tour = t
      BY <1>3, <3>3, <3>4, <3>5 DEF PayoutRows, EntryIn
    <3>7. row(e) = [old EXCEPT !.status = "PAID", !.paid = TRUE, !.prize = amount,
                               !.position = place]
      BY <2>1, <2>3, <3>1, <3>5
    <3>8. PICK new : new = [old EXCEPT !.status = "PAID", !.paid = TRUE, !.prize = amount,
                                       !.position = place]
      OBVIOUS
    <3>9. new \in EntryRows /\ Settled(old, new)
      BY <2>2, <3>6, <3>8 DEF EntryRows, Settled
    <3> QED
      BY <2>1, <3>6, <3>7, <3>8, <3>9
  <2>4. CASE paidAt(e) = {} /\ e = q.winner
    <3>1. PICK new : new = [old EXCEPT !.position = 1]
      OBVIOUS
    <3>2. new \in EntryRows /\ Settled(old, new)
      BY <2>2, <3>1 DEF EntryRows, Settled
    <3>3. entries[e].tour = t
      BY <1>3, <2>4, TournamentConstants DEF EntryIn, Entries
    <3> QED
      BY <2>1, <2>4, <3>1, <3>2, <3>3
  <2>5. CASE paidAt(e) = {} /\ e # q.winner
    <3>1. row(e) = old /\ Settled(old, old)
      BY <2>1, <2>5 DEF Settled
    <3> QED
      BY <2>1, <2>2, <3>1
  <2> QED
    BY <2>3, <2>4, <2>5, Zenon
<1> HIDE DEF row, paidAt
<1>15. /\ tours'[t].setting = tours[t].setting /\ tours'[t].pool = tours[t].pool
       /\ tours'[t].status # "NONE" /\ \A z \in Tournaments \ {t} : tours'[z] = tours[z]
       /\ tours' \in [Tournaments -> TourRows]
  <2>1. PICK was, tour : was = tours[t] /\ tour = [was EXCEPT !.status = "FINISHED"]
    OBVIOUS
  <2>2. was \in TourRows
    BY <1>3, <1>6, <2>1
  <2>3. /\ tour \in TourRows /\ tour.setting = was.setting /\ tour.pool = was.pool
        /\ tour.status = "FINISHED"
    BY <2>1, <2>2 DEF TourRows
  <2>4. tours' = [tours EXCEPT ![t] = tour]
    BY <1>3, <1>4, <1>6, <2>1
  <2> QED
    BY <1>3, <1>6, <2>1, <2>3, <2>4
<1>16. /\ \A e \in Entries : IF entries[e].tour = t THEN Settled(entries[e], entries'[e])
                             ELSE entries'[e] = entries[e]
       /\ entries' \in [Entries -> EntryRows]
  BY <1>5, <1>14
<1>17. RowsTyped'
  BY <1>2, <1>4, <1>8, <1>15, <1>16 DEF RowsTyped
<1>18. \A v \in Users \ wallets : balance'[v] = balance[v] /\ ledger'[v] = ledger[v]
  <2> SUFFICES ASSUME NEW v \in Users \ wallets
               PROVE  balance'[v] = balance[v] /\ ledger'[v] = ledger[v]
    OBVIOUS
  <2>1. \A i \in DOMAIN payouts : entries[payouts[i].entry].user \in wallets
    <3> SUFFICES ASSUME NEW i \in DOMAIN payouts
                 PROVE  entries[payouts[i].entry].user \in wallets
      OBVIOUS
    <3>1. PICK e : e = payouts[i].entry
      OBVIOUS
    <3>2. EntrySound(e) /\ entries[e].status # "NONE"
      BY <1>2, <1>3, <3>1 DEF EntryIn, Books
    <3> QED
      BY <3>1, <3>2 DEF EntrySound
  <2>2. Won(v, payouts) = {}
    BY <2>1 DEF Won
  <2>3. ledger[v] \o <<>> = ledger[v]
    BY <1>6
  <2> QED
    BY <1>4, <1>7, <2>2, <2>3
<1>19. Books' /\ RowsOnlyGrow /\ \A z \in Tournaments \ {t} : SameTour(z)
  BY <1>2, <1>3, <1>4, <1>11, <1>13, <1>15, <1>16, <1>17, <1>18, EntriesSettled
<1> QED
  BY <1>3, <1>4, <1>19, CommitKeeps

-----------------------------------------------------------------------------
(* The invariant, and what it says of the runs' properties.                *)

\* Every step keeps the invariant, as long as an edit respects the entries.
LEMMA NextKeeps ==
  ASSUME DeskInv, [Next]_vars, [SettingsKept]_vars
  PROVE  DeskInv'
<1>1. CASE UNCHANGED vars
  <2>1. RowsKept /\ UNCHANGED <<req, tourLock, walletLock>>
    BY <1>1 DEF vars, walletVars, tourVars, RowsKept
  <2>2. Books' /\ RowsOnlyGrow /\ \A t : SameTour(t)
    BY <2>1, BooksKept DEF DeskInv
  <2> QED
    BY <2>1, <2>2, RequestsKept DEF DeskInv
<1>2. ASSUME NEW t \in Tournaments, CreateTournament(t) PROVE DeskInv'
  BY <1>2, CreateTournamentKeeps
<1>3. ASSUME NEW t \in Tournaments, TimePasses(t) PROVE DeskInv'
  <2>1. RowsKept /\ UNCHANGED <<req, tourLock, walletLock>>
    BY <1>3 DEF TimePasses, walletVars, RowsKept
  <2>2. Books' /\ RowsOnlyGrow /\ \A z : SameTour(z)
    BY <2>1, BooksKept DEF DeskInv
  <2> QED
    BY <2>1, <2>2, RequestsKept DEF DeskInv
<1>4. ASSUME NEW r \in Reqs, Arrive(r) PROVE DeskInv'
  BY <1>4, ArriveKeeps
<1>5. ASSUME NEW r \in Reqs, TakeLock(r) PROVE DeskInv'
  <2>1. CASE LockAndCheck(r)
    BY <2>1, LockAndCheckKeeps
  <2>2. CASE TakeWalletLock(r)
    BY <2>2, TakeWalletLockKeeps
  <2>3. CASE CommitEliminate(r)
    BY <2>3, CommitEliminateKeeps
  <2>4. CASE RefuseEliminate(r) \/ CommitRedraw(r)
    BY <2>4, QuietCommitKeeps
  <2>5. CASE ApplyUpdate(r)
    <3>1. CASE SettingsKept
      BY <2>5, <3>1, ApplyUpdateKeeps
    <3>2. CASE UNCHANGED vars
      BY <1>1, <3>2
    <3> QED
      BY <3>1, <3>2
  <2>6. CASE FinishLock(r)
    BY <2>6, FinishLockKeeps
  <2>7. CASE LockNextWinner(r)
    BY <2>7, LockNextWinnerKeeps
  <2>8. CASE RefusePayout(r)
    <3>1. Rollback(r)
      BY <2>8 DEF RefusePayout
    <3> QED
      BY <3>1, RollbackKeeps
  <2> QED
    BY <1>5, <2>1, <2>2, <2>3, <2>4, <2>5, <2>6, <2>7, <2>8 DEF TakeLock
<1>6. ASSUME NEW r \in Reqs, Proceed(r) PROVE DeskInv'
  <2>1. CASE FindReplay(r)
    BY <2>1, FindReplayKeeps
  <2>2. CASE CommitRegister(r)
    BY <2>2, CommitRegisterKeeps
  <2>3. CASE CommitRegisterGuest(r)
    BY <2>3, CommitRegisterGuestKeeps
  <2>4. CASE CommitUnregister(r)
    BY <2>4, CommitUnregisterKeeps
  <2>5. CASE RefuseCommit(r)
    <3>1. Rollback(r)
      BY <2>5 DEF RefuseCommit
    <3> QED
      BY <3>1, RollbackKeeps
  <2>6. CASE StartUpdate(r)
    BY <2>6, StartUpdateKeeps
  <2>7. CASE FinishReadGrade(r)
    BY <2>7, FinishReadGradeKeeps
  <2>8. CASE FinishReadEntries(r)
    BY <2>8, FinishReadEntriesKeeps
  <2>9. CASE CommitFinish(r)
    BY <2>9, CommitFinishKeeps
  <2>10. CASE AbortDeadlock(r)
    <3>1. Rollback(r)
      BY <2>10 DEF AbortDeadlock
    <3> QED
      BY <3>1, RollbackKeeps
  <2> QED
    BY <1>6, <2>1, <2>2, <2>3, <2>4, <2>5, <2>6, <2>7, <2>8, <2>9, <2>10 DEF Proceed
<1>7. ASSUME NEW r \in Reqs, Fail(r) PROVE DeskInv'
  <2>1. Rollback(r)
    BY <1>7 DEF Fail
  <2> QED
    BY <2>1, RollbackKeeps
<1> QED
  BY <1>1, <1>2, <1>3, <1>4, <1>5, <1>6, <1>7 DEF Next

\* The types are part of the invariant.
LEMMA DeskTyped ==
  ASSUME DeskInv
  PROVE  TypeOK
<1>1. RowsTyped /\ RequestsTyped
  BY DEF DeskInv, Books, Desk
<1>2. ASSUME NEW r \in Reqs
      PROVE  /\ req[r].pc \in Phases /\ req[r].entry \in 0 .. MaxEntries
             /\ req[r].winner \in 0 .. MaxEntries
  <2>1. req[r] \in TourRequests
    BY <1>1 DEF RequestsTyped
  <2> QED
    BY <2>1 DEF TourRequests
<1> QED
  BY <1>1, <1>2 DEF RowsTyped, RequestsTyped, TypeOK

\* What one posting amounts to.
LEMMA TotalOfOne ==
  ASSUME NEW x, x.amount \in Int
  PROVE  Total({x}) = x.amount
<1> DEFINE f == [z \in {x} |-> z.amount]
<1>1. f[x] = x.amount /\ f[x] \in Int
  OBVIOUS
<1> HIDE DEF f
<1>2. IsFiniteSet({}) /\ x \notin {} /\ \A z \in {} : f[z] \in Int
  BY FS_EmptySet
<1>3. SumFunctionOnSet(f, {} \cup {x}) = SumFunctionOnSet(f, {}) + f[x]
  BY ONLY <1>1, <1>2, SumAdd, SMT
<1>4. SumFunctionOnSet(f, {}) = 0
  BY SumEmpty
<1>5. {} \cup {x} = {x}
  OBVIOUS
<1>6. SumFunctionOnSet(f, {x}) = f[x]
  BY <1>1, <1>3, <1>4, <1>5
<1> QED
  BY <1>1, <1>6 DEF Total, f

\* Entries are paid for once.
LEMMA DeskPaid ==
  ASSUME DeskInv
  PROVE  PaidForOnce
<1> SUFFICES ASSUME NEW e \in Entries
             PROVE  /\ Cardinality(BuyIns(e)) = (IF entries[e].status = "NONE" THEN 0 ELSE 1)
                    /\ \A x \in BuyIns(e) : x \in Listed(ledger[entries[e].user])
                    /\ entries[e].status = "REFUNDED" => Total(Refunds(e)) = -Total(BuyIns(e))
                    /\ entries[e].status = "REGISTERED" => Refunds(e) = {}
  BY DEF PaidForOnce, Listed
<1>1. EntrySound(e) /\ RowsTyped
  BY DEF DeskInv, Books
<1>2. CASE entries[e].status = "NONE"
  BY <1>1, <1>2, FS_EmptySet DEF EntrySound
<1>3. CASE entries[e].status # "NONE"
  <2>1. PICK u : u = entries[e].user
    OBVIOUS
  <2>2. PICK x \in Listed(ledger[u]) :
          /\ BuyIns(e) = {x}
          /\ entries[e].status = "REGISTERED" => Refunds(e) = {}
          /\ entries[e].status = "REFUNDED" => \E y : Refunds(e) = {y} /\ y.amount = -x.amount
    BY <1>1, <1>3, <2>1 DEF EntrySound
  <2>3. x.amount \in Int
    <3>1. u \in Users /\ ledger[u] \in Seq(TourPostings)
      BY <1>1, <1>3, <2>1 DEF EntrySound, RowsTyped
    <3>2. x \in TourPostings
      BY <2>2, <3>1 DEF Listed
    <3> QED
      BY <3>2 DEF TourPostings
  <2>4. Cardinality(BuyIns(e)) = 1
    BY <2>2, FS_Singleton
  <2>5. Total(BuyIns(e)) = x.amount
    BY <2>2, <2>3, TotalOfOne
  <2>6. ASSUME entries[e].status = "REFUNDED" PROVE Total(Refunds(e)) = -Total(BuyIns(e))
    <3>1. PICK y : Refunds(e) = {y} /\ y.amount = -x.amount
      BY <2>2, <2>6
    <3>2. Total(Refunds(e)) = y.amount
      BY <2>3, <3>1, TotalOfOne
    <3> QED
      BY <2>5, <3>1, <3>2
  <2> QED
    BY <1>3, <2>1, <2>2, <2>4, <2>6
<1> QED
  BY <1>2, <1>3

\* The prize pools and the vacancies.
LEMMA DeskPools ==
  ASSUME DeskInv
  PROVE  PoolIsWhatWasCollected /\ VacanciesRespected
<1>1. \A t \in Tournaments : TourSound(t)
  BY DEF DeskInv, Books
<1>2. PoolIsWhatWasCollected
  BY <1>1 DEF TourSound, PoolSound, PoolIsWhatWasCollected
<1>3. VacanciesRespected
  BY <1>1 DEF TourSound, VacanciesRespected
<1> QED
  BY <1>2, <1>3

-----------------------------------------------------------------------------
(* Where nobody edits a tournament.                                        *)

\* The steps of an edit.
EditSteps == {"update", "apply"}

\* No request is editing a tournament.
NobodyEdits == \A r \in Reqs : req[r].pc \notin EditSteps

\* A step that leaves every tournament its setting.
SettingsStay == \A t \in Tournaments : tours[t].status # "NONE" =>
                  tours'[t].setting = tours[t].setting

\* A request that takes a step of another kind.
LEMMA NoEditBegins ==
  ASSUME DeskInv, NobodyEdits, NEW r \in Reqs, NEW q, q.pc \notin EditSteps,
         req' = [req EXCEPT ![r] = q]
  PROVE  NobodyEdits'
<1>1. req \in [Reqs -> TourRequests]
  BY DEF DeskInv, Desk, RequestsTyped
<1> QED
  BY <1>1 DEF NobodyEdits

\* A request that goes on to another step.
LEMMA NoEditFollows ==
  ASSUME DeskInv, NobodyEdits, NEW r \in Reqs, NEW pc, pc \notin EditSteps,
         \/ Finish(r) \/ Goto(r, pc)
         \/ \E e : req' = [req EXCEPT ![r].pc = pc, ![r].entry = e]
         \/ \E n : req' = [req EXCEPT ![r].pc = pc, ![r].next = n]
         \/ \E n : req' = [req EXCEPT ![r].pc = pc, ![r].setting = n]
         \/ \E payouts, winner :
              req' = [req EXCEPT ![r].pc = pc, ![r].payouts = payouts, ![r].winner = winner]
  PROVE  NobodyEdits'
<1>1. req \in [Reqs -> TourRequests] /\ req[r] \in TourRequests
  BY OwnShape DEF DeskInv, Desk, RequestsTyped
<1>2. CASE Finish(r)
  BY <1>2, NoEditBegins DEF Finish, Idle, EditSteps
<1>3. ASSUME ~Finish(r) PROVE \E q : q.pc = pc /\ req' = [req EXCEPT ![r] = q]
  <2>1. CASE Goto(r, pc)
    <3>1. [req[r] EXCEPT !.pc = pc].pc = pc /\ req' = [req EXCEPT ![r] = [req[r] EXCEPT !.pc = pc]]
      BY <1>1, <2>1 DEF Goto, TourRequests
    <3> QED
      BY <3>1
  <2>2. CASE \E e : req' = [req EXCEPT ![r].pc = pc, ![r].entry = e]
    <3>1. PICK e : req' = [req EXCEPT ![r].pc = pc, ![r].entry = e]
      BY <2>2
    <3>2. PICK q : q = [req[r] EXCEPT !.pc = pc, !.entry = e]
      OBVIOUS
    <3>3. q.pc = pc /\ req' = [req EXCEPT ![r] = q]
      BY <1>1, <3>1, <3>2 DEF TourRequests
    <3> QED
      BY <3>3
  <2>3. CASE \E n : req' = [req EXCEPT ![r].pc = pc, ![r].next = n]
    <3>1. PICK n : req' = [req EXCEPT ![r].pc = pc, ![r].next = n]
      BY <2>3
    <3>2. PICK q : q = [req[r] EXCEPT !.pc = pc, !.next = n]
      OBVIOUS
    <3>3. q.pc = pc /\ req' = [req EXCEPT ![r] = q]
      BY <1>1, <3>1, <3>2 DEF TourRequests
    <3> QED
      BY <3>3
  <2>4. CASE \E n : req' = [req EXCEPT ![r].pc = pc, ![r].setting = n]
    <3>1. PICK n : req' = [req EXCEPT ![r].pc = pc, ![r].setting = n]
      BY <2>4
    <3>2. PICK q : q = [req[r] EXCEPT !.pc = pc, !.setting = n]
      OBVIOUS
    <3>3. q.pc = pc /\ req' = [req EXCEPT ![r] = q]
      BY <1>1, <3>1, <3>2 DEF TourRequests
    <3> QED
      BY <3>3
  <2>5. CASE \E payouts, winner :
               req' = [req EXCEPT ![r].pc = pc, ![r].payouts = payouts, ![r].winner = winner]
    <3>1. PICK payouts, winner :
                 req' = [req EXCEPT ![r].pc = pc, ![r].payouts = payouts, ![r].winner = winner]
      BY <2>5
    <3>2. PICK q : q = [req[r] EXCEPT !.pc = pc, !.payouts = payouts, !.winner = winner]
      OBVIOUS
    <3>3. q.pc = pc /\ req' = [req EXCEPT ![r] = q]
      BY <1>1, <3>1, <3>2 DEF TourRequests
    <3> QED
      BY <3>3
  <2> QED
    BY <1>3, <2>1, <2>2, <2>3, <2>4, <2>5
<1>4. CASE ~Finish(r)
  <2>1. PICK q : q.pc = pc /\ req' = [req EXCEPT ![r] = q]
    BY <1>3, <1>4
  <2> QED
    BY <2>1, NoEditBegins
<1> QED
  BY <1>2, <1>4

\* No step that follows another begins an edit.
LEMMA NoEditByStep ==
  ASSUME DeskInv, NobodyEdits, NEW r \in Reqs, TakeLock(r) \/ Proceed(r) \/ Fail(r)
  PROVE  NobodyEdits'
<1>1. /\ req[r].pc \notin EditSteps
      /\ \A pc \in {"lock", "wallet", "commit", "entries", "pay"} : pc \notin EditSteps
  BY Zenon DEF NobodyEdits, EditSteps
<1>2. CASE Finish(r)
  BY <1>2, NoEditFollows, <1>1
<1>3. CASE TakeLock(r)
  <2>1. CASE LockAndCheck(r)
    <3>1. \/ Finish(r)
          \/ \E pc \in {"commit", "wallet"} :
               \E e : req' = [req EXCEPT ![r].pc = pc, ![r].entry = e]
      BY <2>1, Zenon DEF LockAndCheck
    <3>2. ASSUME NEW pc \in {"commit", "wallet"},
                 \E e : req' = [req EXCEPT ![r].pc = pc, ![r].entry = e]
          PROVE  NobodyEdits'
      BY <1>1, <3>2, NoEditFollows
    <3> QED
      BY <1>2, <3>1, <3>2
  <2>2. CASE TakeWalletLock(r)
    BY <1>1, <2>2, NoEditFollows DEF TakeWalletLock
  <2>3. CASE CommitEliminate(r) \/ RefuseEliminate(r) \/ CommitRedraw(r) \/ ApplyUpdate(r)
    BY <1>2, <2>3 DEF CommitEliminate, RefuseEliminate, CommitRedraw, ApplyUpdate
  <2>4. CASE FinishLock(r)
    BY <1>1, <2>4, NoEditFollows DEF FinishLock
  <2>5. CASE LockNextWinner(r)
    <3>1. PICK q : q = [req[r] EXCEPT !.next = @ + 1]
      OBVIOUS
    <3>2. q.pc = req[r].pc /\ req' = [req EXCEPT ![r] = q]
      BY <2>5, <3>1, OwnShape DEF LockNextWinner, TourRequests, DeskInv, Desk, RequestsTyped
    <3> QED
      BY <1>1, <3>2, NoEditBegins
  <2>6. CASE RefusePayout(r)
    BY <1>2, <2>6 DEF RefusePayout, Rollback
  <2> QED
    BY <1>3, <2>1, <2>2, <2>3, <2>4, <2>5, <2>6, Zenon DEF TakeLock
<1>4. CASE Proceed(r)
  <2>1. CASE FindReplay(r)
    BY <1>1, <1>2, <2>1, NoEditFollows DEF FindReplay
  <2>2. CASE CommitRegister(r) \/ CommitRegisterGuest(r) \/ CommitUnregister(r)
    BY <1>2, <2>2 DEF CommitRegister, CommitRegisterGuest, CommitUnregister
  <2>3. CASE RefuseCommit(r) \/ AbortDeadlock(r)
    BY <1>2, <2>3 DEF RefuseCommit, AbortDeadlock, Rollback
  <2>4. CASE StartUpdate(r)
    BY <1>1, <2>4 DEF StartUpdate, EditSteps
  <2>5. CASE FinishReadGrade(r)
    BY <1>1, <2>5, NoEditFollows DEF FinishReadGrade
  <2>6. CASE FinishReadEntries(r)
    <3>1. \/ Finish(r)
          \/ \E payouts, winner :
               req' = [req EXCEPT ![r].pc = "lock", ![r].payouts = payouts, ![r].winner = winner]
      BY <2>6, Zenon DEF FinishReadEntries
    <3>2. CASE \E payouts, winner :
                 req' = [req EXCEPT ![r].pc = "lock", ![r].payouts = payouts, ![r].winner = winner]
      BY <1>1, <3>2, NoEditFollows
    <3> QED
      BY <1>2, <3>1, <3>2
  <2>7. CASE CommitFinish(r)
    BY <1>2, <2>7, Zenon DEF CommitFinish
  <2> QED
    BY <1>4, <2>1, <2>2, <2>3, <2>4, <2>5, <2>6, <2>7, Zenon DEF Proceed
<1> QED
  BY <1>2, <1>3, <1>4 DEF Fail, Rollback

\* Without the clients' asking for it, no request begins an edit.
LEMMA NoEditArrives ==
  ASSUME "update" \notin Workload, DeskInv, NobodyEdits, NEW r \in Reqs, Arrive(r)
  PROVE  NobodyEdits'
<1>1. CASE RegisterEntry(r) \/ RegisterGuestEntry(r) \/ UnregisterEntry(r)
  <2>1. PICK q : q.pc = "lookup" /\ Begin(r, q)
    BY <1>1 DEF RegisterEntry, RegisterGuestEntry, UnregisterEntry, Idle
  <2> QED
    BY <2>1, NoEditBegins DEF Begin, EditSteps
<1>2. CASE EliminateEntry(r) \/ RedrawTables(r)
  <2>1. PICK q : q.pc = "lock" /\ Begin(r, q)
    BY <1>2 DEF EliminateEntry, RedrawTables, Idle
  <2> QED
    BY <2>1, NoEditBegins DEF Begin, EditSteps
<1>3. CASE UpdateTournament(r)
  <2>1. PICK q : q.op = "update" /\ Begin(r, q)
    BY <1>3 DEF UpdateTournament, Idle
  <2> QED
    BY <2>1 DEF Begin
<1>4. CASE FinishTournament(r)
  <2>1. PICK q : q.pc = "grade" /\ Begin(r, q)
    BY <1>4 DEF FinishTournament, Idle
  <2> QED
    BY <2>1, NoEditBegins DEF Begin, EditSteps
<1> QED
  BY <1>1, <1>2, <1>3, <1>4 DEF Arrive

\* Only an edit changes the setting of a tournament that is there.
LEMMA SettingsStayByStep ==
  ASSUME DeskInv, NobodyEdits, Next
  PROVE  SettingsStay
<1>1. tours \in [Tournaments -> TourRows]
  BY DEF DeskInv, Books, RowsTyped
<1>2. CASE tours' = tours
  BY <1>2 DEF SettingsStay
<1>3. ASSUME NEW t \in Tournaments, CreateTournament(t) PROVE SettingsStay
  <2>1. tours[t].status = "NONE" /\ \A z \in Tournaments \ {t} : tours'[z] = tours[z]
    BY <1>1, <1>3 DEF CreateTournament
  <2> QED
    BY <2>1 DEF SettingsStay
<1>4. ASSUME NEW t, NEW n, tours' = [tours EXCEPT ![t].pool = n] PROVE SettingsStay
  <2> SUFFICES ASSUME NEW z \in Tournaments PROVE tours'[z].setting = tours[z].setting
    BY DEF SettingsStay
  <2>1. PICK was : was = tours[z]
    OBVIOUS
  <2>2. was \in TourRows /\ (tours'[z] = was \/ tours'[z] = [was EXCEPT !.pool = n])
    BY <1>1, <1>4, <2>1
  <2> QED
    BY <2>1, <2>2 DEF TourRows
<1>5. ASSUME NEW t, NEW s, tours' = [tours EXCEPT ![t].status = s] PROVE SettingsStay
  <2> SUFFICES ASSUME NEW z \in Tournaments PROVE tours'[z].setting = tours[z].setting
    BY DEF SettingsStay
  <2>1. PICK was : was = tours[z]
    OBVIOUS
  <2>2. was \in TourRows /\ (tours'[z] = was \/ tours'[z] = [was EXCEPT !.status = s])
    BY <1>1, <1>5, <2>1
  <2> QED
    BY <2>1, <2>2 DEF TourRows
<1>6. ASSUME NEW r \in Reqs, CommitRegister(r) \/ CommitRegisterGuest(r) \/ CommitUnregister(r)
      PROVE  SettingsStay
  <2>1. PICK t : t = req[r].tour
    OBVIOUS
  <2>2. PICK n : tours' = [tours EXCEPT ![t].pool = n]
    <3>1. \/ tours' = [tours EXCEPT ![t].pool = @ + PoolShare(t)]
          \/ tours' = [tours EXCEPT ![t].pool = @ - PoolShare(t)]
      BY <1>6, <2>1, Zenon DEF CommitRegister, CommitRegisterGuest, CommitUnregister, CreateEntry
    <3>2. \E n : tours' = [tours EXCEPT ![t].pool = n]
      BY <3>1
    <3> QED
      BY <3>2, Zenon
  <2> QED
    BY <1>4, <2>2
<1>7. ASSUME NEW r \in Reqs, CommitEliminate(r) PROVE SettingsStay
  <2>1. PICK t, s : t = req[r].tour /\ s = IF tours[t].status = "REGISTERING" THEN "RUNNING"
                                           ELSE tours[t].status
    OBVIOUS
  <2>2. tours' = [tours EXCEPT ![t].status = s]
    BY <1>1, <1>7, <2>1 DEF CommitEliminate
  <2> QED
    BY <1>5, <2>2, Zenon
<1>8. ASSUME NEW r \in Reqs, CommitFinish(r) PROVE SettingsStay
  <2>1. PICK t : t = req[r].tour
    OBVIOUS
  <2>2. tours' = [tours EXCEPT ![t].status = "FINISHED"]
    BY <1>8, <2>1, Zenon DEF CommitFinish
  <2> QED
    BY <1>5, <2>2, Zenon
<1>9. ASSUME NEW r \in Reqs PROVE ~ApplyUpdate(r)
  BY DEF ApplyUpdate, NobodyEdits, EditSteps
<1>10. ASSUME NEW r \in Reqs, Rollback(r) PROVE SettingsStay
  BY <1>2, <1>10, Zenon DEF Rollback, tourVars
<1>11. ASSUME NEW r \in Reqs, Arrive(r) PROVE SettingsStay

  BY <1>2, <1>11, Zenon
     DEF Arrive, RegisterEntry, RegisterGuestEntry, UnregisterEntry, EliminateEntry,
                     RedrawTables, UpdateTournament, FinishTournament, Begin, tourVars
<1>12. ASSUME NEW r \in Reqs, TakeLock(r) PROVE SettingsStay
  <2>1. CASE LockAndCheck(r) \/ TakeWalletLock(r) \/ RefuseEliminate(r) \/ CommitRedraw(r)
             \/ FinishLock(r) \/ LockNextWinner(r)
    BY <1>2, <2>1 DEF LockAndCheck, TakeWalletLock, RefuseEliminate, CommitRedraw, FinishLock,
                      LockNextWinner, tourVars
  <2>2. CASE RefusePayout(r)
    BY <1>10, <2>2 DEF RefusePayout
  <2> QED
    BY <1>7, <1>9, <1>12, <2>1, <2>2 DEF TakeLock
<1>13. ASSUME NEW r \in Reqs, Proceed(r) PROVE SettingsStay
  <2>1. CASE FindReplay(r) \/ StartUpdate(r) \/ FinishReadGrade(r) \/ FinishReadEntries(r)
    BY <1>2, <2>1 DEF FindReplay, StartUpdate, FinishReadGrade, FinishReadEntries, tourVars
  <2>2. CASE RefuseCommit(r) \/ AbortDeadlock(r)
    BY <1>10, <2>2 DEF RefuseCommit, AbortDeadlock
  <2> QED
    BY <1>6, <1>8, <1>13, <2>1, <2>2, Zenon DEF Proceed
<1>14. ASSUME NEW r \in Reqs, Fail(r) PROVE SettingsStay
  BY <1>10, <1>14 DEF Fail
<1>15. ASSUME NEW t \in Tournaments, TimePasses(t) PROVE SettingsStay
  BY <1>2, <1>15 DEF TimePasses
<1> QED
  BY <1>3, <1>11, <1>12, <1>13, <1>14, <1>15 DEF Next

\* Where no client asks for an edit, nobody edits, and the settings stay.
LEMMA NobodyEditsKept ==
  ASSUME "update" \notin Workload, DeskInv, NobodyEdits, [Next]_vars
  PROVE  NobodyEdits' /\ [SettingsKept]_vars
<1>2. CASE UNCHANGED vars
  BY <1>2 DEF vars, NobodyEdits
<1>3. CASE Next
  <2>1. SettingsStay
    BY <1>3, SettingsStayByStep
  <2>2. SettingsKept
    BY <2>1 DEF SettingsStay, SettingsKept
  <2>3. NobodyEdits'
    <3>1. ASSUME NEW t \in Tournaments, CreateTournament(t) \/ TimePasses(t) PROVE NobodyEdits'
      BY <3>1 DEF CreateTournament, TimePasses, NobodyEdits
    <3> QED
      BY <1>3, <3>1, NoEditArrives, NoEditByStep DEF Next
  <2> QED
    BY <2>2, <2>3
<1> QED
  BY <1>2, <1>3

-----------------------------------------------------------------------------
(* The seats.                                                              *)

\* The room of a tournament, and who of its entries has a seat there: everyone alive, and
\* besides them only those who were paid while they sat.
SeatsOf(t) ==
  /\ tours[t].status = "NONE" => rooms[t] = EmptyRoom
  /\ tours[t].status # "NONE" => RoomOk(rooms[t], Entries, Setting(t).capacity)
  /\ AliveIn(t) \subseteq SeatedIn(rooms[t])
  /\ \A e \in SeatedIn(rooms[t]) \ AliveIn(t) :
       entries[e].tour = t /\ entries[e].status = "PAID"

SeatInv == DOMAIN rooms = Tournaments /\ \A t \in Tournaments : SeatsOf(t)

\* A step that neither seats an entry in the tournament nor takes it out.
Unmoved(t, e) ==
  \/ entries'[e].tour = entries[e].tour /\ entries'[e].status \in {entries[e].status, "PAID"}
  \/ entries[e].tour # t /\ entries'[e].tour # t

\* A tournament that stays open keeps its setting.
TourStays(t) ==
  tours[t].status # "NONE" => tours'[t].status # "NONE" /\ tours'[t].setting = tours[t].setting

\* An empty room is as it should be.
LEMMA EmptyRoomOk ==
  ASSUME NEW c
  PROVE  /\ RoomOk(EmptyRoom, Entries, c) /\ SeatedIn(EmptyRoom) = {}
         /\ DOMAIN EmptyRoom.at = Entries
<1>1. /\ EmptyRoom.tables = <<>> /\ EmptyRoom.clash = FALSE
      /\ EmptyRoom.at = [e \in Entries |-> NoSeat] /\ DOMAIN EmptyRoom.tables = {}
  BY DEF EmptyRoom
<1>2. EmptyRoom \in Rooms(Entries)
  <2>1. NoSeat \in [table : Nat, seat : Nat]
    BY DEF NoSeat, Place
  <2>2. <<>> \in Seq([status : {"OPEN", "CLOSED"}, capacity : Nat])
    OBVIOUS
  <2> QED
    BY <2>1, <2>2 DEF EmptyRoom, Rooms
<1>3. OpenTables(EmptyRoom) = {} /\ \A e \in Entries : EmptyRoom.at[e] = NoSeat
  BY <1>1 DEF OpenTables
<1>4. SeatedIn(EmptyRoom) = {}
  BY <1>1, <1>3 DEF SeatedIn
<1>5. Sound(EmptyRoom, Entries)
  BY <1>1, <1>2, <1>3 DEF Sound
<1>6. Tidy(EmptyRoom) /\ Alike(EmptyRoom, c)
  BY <1>1, <1>3 DEF Tidy, Alike
<1> QED
  BY <1>1, <1>4, <1>5, <1>6 DEF RoomOk

\* Who has a seat in the room of a tournament is an entry.
LEMMA SeatedEntries ==
  ASSUME NEW t, SeatsOf(t)
  PROVE  DOMAIN rooms[t].at = Entries /\ SeatedIn(rooms[t]) \subseteq Entries
<1>1. CASE tours[t].status = "NONE"
  <2>1. rooms[t] = EmptyRoom
    BY <1>1 DEF SeatsOf
  <2> QED
    BY <2>1, EmptyRoomOk
<1>2. CASE tours[t].status # "NONE"
  <2>1. rooms[t] \in Rooms(Entries)
    BY <1>2 DEF SeatsOf, RoomOk, Sound
  <2>2. DOMAIN rooms[t].at = Entries
    BY <2>1 DEF Rooms
  <2> QED
    BY <2>2 DEF SeatedIn
<1> QED
  BY <1>1, <1>2

\* Steps that leave the room of a tournament alone.
LEMMA RoomStays ==
  ASSUME NEW t \in Tournaments, SeatsOf(t), rooms'[t] = rooms[t], TourStays(t),
         \A e \in Entries : Unmoved(t, e)
  PROVE  SeatsOf(t)'
<1>1. PICK room : room = rooms[t]
  OBVIOUS
<1>2. /\ tours[t].status = "NONE" => room = EmptyRoom
      /\ tours[t].status # "NONE" => RoomOk(room, Entries, Setting(t).capacity)
      /\ AliveIn(t) \subseteq SeatedIn(room) /\ SeatedIn(room) \subseteq Entries
      /\ \A e \in SeatedIn(room) \ AliveIn(t) : entries[e].tour = t /\ entries[e].status = "PAID"
  BY <1>1, SeatedEntries DEF SeatsOf
<1>3. AliveIn(t)' \subseteq AliveIn(t)
  BY DEF Unmoved, AliveIn, EntriesOf, Alive
<1>4. \A e \in SeatedIn(room) \ AliveIn(t)' : entries'[e].tour = t /\ entries'[e].status = "PAID"
  <2> SUFFICES ASSUME NEW e \in SeatedIn(room), e \notin AliveIn(t)'
               PROVE  entries'[e].tour = t /\ entries'[e].status = "PAID"
    OBVIOUS
  <2>1. e \in Entries /\ Unmoved(t, e)
    BY <1>2
  <2>2. CASE e \in AliveIn(t)
    <3>1. entries[e].tour = t /\ entries[e].status = "REGISTERED"
      BY <2>2 DEF AliveIn, EntriesOf, Alive
    <3>2. entries'[e].tour = t /\ entries'[e].status \in {"REGISTERED", "PAID"}
      BY <2>1, <3>1 DEF Unmoved
    <3>3. ~(entries'[e].tour = t /\ entries'[e].status = "REGISTERED")
      BY <2>1 DEF AliveIn, EntriesOf, Alive
    <3> QED
      BY <3>2, <3>3
  <2>3. CASE e \notin AliveIn(t)
    <3>1. entries[e].tour = t /\ entries[e].status = "PAID"
      BY <1>2, <2>3
    <3> QED
      BY <2>1, <3>1 DEF Unmoved
  <2> QED
    BY <2>2, <2>3
<1>5. tours'[t].status = "NONE" => room = EmptyRoom
  BY <1>2 DEF TourStays
<1>6. tours'[t].status # "NONE" => RoomOk(room, Entries, Setting(t).capacity')
  <2>1. CASE tours[t].status = "NONE"
    BY <1>2, <2>1, EmptyRoomOk
  <2>2. CASE tours[t].status # "NONE"
    <3>1. Setting(t)' = Setting(t)
      BY <2>2 DEF TourStays, Setting
    <3> QED
      BY <1>2, <2>2, <3>1
  <2> QED
    BY <2>1, <2>2
<1>7. AliveIn(t)' \subseteq SeatedIn(room)
  BY <1>2, <1>3
<1>8. rooms'[t] = room
  BY <1>1
<1> HIDE DEF SeatedIn, RoomOk
<1> QED
  BY <1>4, <1>5, <1>6, <1>7, <1>8 DEF SeatsOf

\* Steps that leave all rooms alone.
LEMMA RoomsStay ==
  ASSUME SeatInv, rooms' = rooms, \A t \in Tournaments : TourStays(t),
         \A t \in Tournaments, e \in Entries : Unmoved(t, e)
  PROVE  SeatInv'
<1>1. ASSUME NEW t \in Tournaments PROVE SeatsOf(t)'
  <2>1. SeatsOf(t) /\ TourStays(t) /\ rooms'[t] = rooms[t] /\ \A e \in Entries : Unmoved(t, e)
    BY DEF SeatInv
  <2> QED
    BY <2>1, RoomStays
<1> QED
  BY <1>1 DEF SeatInv

\* One room changes to another that is as it should be.
LEMMA RoomChanges ==
  ASSUME SeatInv, NEW t \in Tournaments, NEW room, rooms' = [rooms EXCEPT ![t] = room],
         \A z \in Tournaments : TourStays(z),
         \A z \in Tournaments \ {t}, e \in Entries : Unmoved(z, e),
         tours[t].status # "NONE", RoomOk(room, Entries, Setting(t).capacity),
         AliveIn(t)' \subseteq SeatedIn(room),
         \A e \in SeatedIn(room) : e \notin AliveIn(t)' =>
           entries'[e].tour = t /\ entries'[e].status = "PAID"
  PROVE  SeatInv'
<1>1. DOMAIN rooms' = Tournaments /\ rooms'[t] = room
      /\ \A z \in Tournaments \ {t} : rooms'[z] = rooms[z]
  BY DEF SeatInv
<1>2. ASSUME NEW z \in Tournaments \ {t} PROVE SeatsOf(z)'
  <2>1. /\ SeatsOf(z) /\ TourStays(z) /\ rooms'[z] = rooms[z] /\ z \in Tournaments
        /\ \A e \in Entries : Unmoved(z, e)
    BY <1>1 DEF SeatInv
  <2> QED
    BY <2>1, RoomStays
<1>3. SeatsOf(t)'
  <2>1. tours'[t].status # "NONE" /\ Setting(t)' = Setting(t)
    BY DEF TourStays, Setting
  <2>2. RoomOk(room, Entries, Setting(t).capacity')
    BY <2>1
  <2> HIDE DEF SeatedIn, RoomOk
  <2> QED
    BY <1>1, <2>1, <2>2 DEF SeatsOf
<1> QED
  BY <1>1, <1>2, <1>3 DEF SeatInv

\* The setting of an open tournament seats somebody at its tables.
LEMMA TableSeats ==
  ASSUME DeskInv, NEW t, Open(t)
  PROVE  Setting(t).capacity \in Nat \ {0}
<1>1. tours[t].setting \in DOMAIN Settings
  BY DEF DeskInv, Books, TourSound, Open
<1> QED
  BY <1>1, SettingConstants DEF Setting

\* A registration seats the entry it writes.
LEMMA NewcomerIsSeated ==
  ASSUME DeskInv, SeatInv, NEW q, NEW u, NEW e \in Unused, Open(q.tour), CreateEntry(q, u, e),
         \A z \in Tournaments : TourStays(z)
  PROVE  SeatInv'
<1>1. PICK t, row : /\ t = q.tour
                    /\ row = [NoEntry EXCEPT !.status = "REGISTERED", !.tour = q.tour, !.user = u,
                                             !.bonus = q.bonus]
  BY Zenon
<1>2. PICK c, old, room : c = Setting(t).capacity /\ old = rooms[t] /\ room = SeatEntry(old, e, c)
  BY Zenon
<1>3. row.status = "REGISTERED" /\ row.tour = t
  BY <1>1 DEF NoEntry
<1>4. /\ entries' = [entries EXCEPT ![e] = row]
      /\ rooms' = [rooms EXCEPT ![t] = SeatEntry(@, e, c)]
  BY <1>1, <1>2 DEF CreateEntry
<1>5. /\ entries \in [Entries -> EntryRows] /\ t \in Tournaments /\ e \in Entries
      /\ tours[t].status # "NONE" /\ c \in Nat \ {0} /\ IsFiniteSet(Entries)
      /\ entries[e].status = "NONE" /\ entries[e].tour = None
  BY <1>1, <1>2, TableSeats, EntriesFinite
     DEF DeskInv, Books, RowsTyped, Open, Unused, EntrySound
<1>6. /\ SeatsOf(t) /\ RoomOk(old, Entries, c) /\ DOMAIN rooms = Tournaments
      /\ DOMAIN old.at = Entries
  BY <1>2, <1>5, SeatedEntries DEF SeatInv, SeatsOf
<1>7. rooms' = [rooms EXCEPT ![t] = room]
  BY <1>2, <1>4, <1>5, <1>6
<1>8. t # None /\ \A z \in Tournaments : z # None
  BY <1>5, TournamentConstants
<1>9. old.at[e] = NoSeat
  <2>1. e \notin SeatedIn(old)
    BY <1>2, <1>5, <1>6, <1>8 DEF SeatsOf, AliveIn, EntriesOf
  <2> QED
    BY <1>5, <1>6, <2>1 DEF SeatedIn
<1>10. RoomOk(room, Entries, c) /\ SeatedIn(room) = SeatedIn(old) \cup {e}
  <2>1. /\ RoomOk(SeatEntry(old, e, c), Entries, c)
        /\ SeatedIn(SeatEntry(old, e, c)) = SeatedIn(old) \cup {e}
    BY <1>5, <1>6, <1>9, SeatEntryOk
  <2> QED
    BY <1>2, <2>1, Zenon
<1>11. entries'[e] = row /\ \A f \in Entries \ {e} : entries'[f] = entries[f]
  BY <1>4, <1>5
<1>12. AliveIn(t)' = AliveIn(t) \cup {e}
  BY <1>3, <1>5, <1>11 DEF AliveIn, EntriesOf, Alive
<1>13. \A z \in Tournaments \ {t}, f \in Entries : Unmoved(z, f)
  <2> SUFFICES ASSUME NEW z \in Tournaments \ {t}, NEW f \in Entries PROVE Unmoved(z, f)
    OBVIOUS
  <2>1. CASE f = e
    BY <1>3, <1>5, <1>8, <1>11, <2>1 DEF Unmoved
  <2>2. CASE f # e
    BY <1>11, <2>2 DEF Unmoved
  <2> QED
    BY <2>1, <2>2
<1>14. AliveIn(t) \subseteq SeatedIn(old)
  BY <1>2, <1>6 DEF SeatsOf
<1>15. AliveIn(t)' \subseteq SeatedIn(room)
  BY <1>10, <1>12, <1>14
<1>16. \A f \in SeatedIn(room) : f \notin AliveIn(t)' =>
         entries'[f].tour = t /\ entries'[f].status = "PAID"
  <2> SUFFICES ASSUME NEW f \in SeatedIn(room), f \notin AliveIn(t)'
               PROVE  entries'[f].tour = t /\ entries'[f].status = "PAID"
    OBVIOUS
  <2>1. f # e /\ f \in SeatedIn(old) /\ f \notin AliveIn(t)
    BY <1>10, <1>12
  <2>2. f \in Entries /\ entries[f].tour = t /\ entries[f].status = "PAID"
    BY <1>2, <1>6, <2>1, SeatedEntries DEF SeatsOf
  <2> QED
    BY <1>11, <2>1, <2>2
<1>17. RoomOk(room, Entries, Setting(t).capacity)
  BY <1>2, <1>10
<1> QED
  BY <1>5, <1>7, <1>13, <1>15, <1>16, <1>17, RoomChanges

\* An elimination or a cancellation takes the seat of the entry.
LEMMA LeaverStandsUp ==
  ASSUME DeskInv, SeatInv, NEW t, NEW e, Open(t), EntryIn(e, t), NEW s, s \notin {"REGISTERED"},
         entries'[e].tour = t, entries'[e].status = s,
         \A f \in Entries \ {e} : entries'[f] = entries[f],
         rooms' = [rooms EXCEPT ![t] = Vacate(@, e)],
         \A z \in Tournaments : TourStays(z)
  PROVE  SeatInv'
<1>1. PICK c, old, room : c = Setting(t).capacity /\ old = rooms[t] /\ room = Vacate(old, e)
  BY Zenon
<1>2. /\ t \in Tournaments /\ e \in Entries /\ tours[t].status # "NONE" /\ entries[e].tour = t
      /\ IsFiniteSet(Entries)
  BY EntriesFinite DEF Open, EntryIn
<1>3. SeatsOf(t) /\ RoomOk(old, Entries, c) /\ DOMAIN rooms = Tournaments
  BY <1>1, <1>2 DEF SeatInv, SeatsOf
<1>4. rooms' = [rooms EXCEPT ![t] = room]
  BY <1>1, <1>2, <1>3
<1>5. RoomOk(room, Entries, c) /\ SeatedIn(room) = SeatedIn(old) \ {e}
  <2>1. /\ RoomOk(Vacate(old, e), Entries, c)
        /\ SeatedIn(Vacate(old, e)) = SeatedIn(old) \ {e}
    BY <1>2, <1>3, VacateOk
  <2> QED
    BY <1>1, <2>1, Zenon
<1>6. AliveIn(t)' = AliveIn(t) \ {e}
  BY <1>2 DEF AliveIn, EntriesOf, Alive
<1>7. \A z \in Tournaments \ {t}, f \in Entries : Unmoved(z, f)
  <2> SUFFICES ASSUME NEW z \in Tournaments \ {t}, NEW f \in Entries PROVE Unmoved(z, f)
    OBVIOUS
  <2>1. CASE f = e
    BY <1>2, <2>1 DEF Unmoved
  <2>2. CASE f # e
    BY <2>2 DEF Unmoved
  <2> QED
    BY <2>1, <2>2
<1>8. AliveIn(t) \subseteq SeatedIn(old)
  BY <1>1, <1>3 DEF SeatsOf
<1>9. AliveIn(t)' \subseteq SeatedIn(room)
  BY <1>5, <1>6, <1>8
<1>10. \A f \in SeatedIn(room) : f \notin AliveIn(t)' =>
         entries'[f].tour = t /\ entries'[f].status = "PAID"
  <2> SUFFICES ASSUME NEW f \in SeatedIn(room), f \notin AliveIn(t)'
               PROVE  entries'[f].tour = t /\ entries'[f].status = "PAID"
    OBVIOUS
  <2>1. f # e /\ f \in SeatedIn(old) /\ f \notin AliveIn(t)
    BY <1>5, <1>6
  <2>2. f \in Entries /\ entries[f].tour = t /\ entries[f].status = "PAID"
    BY <1>1, <1>3, <2>1, SeatedEntries DEF SeatsOf
  <2> QED
    BY <2>1, <2>2
<1>11. RoomOk(room, Entries, Setting(t).capacity)
  BY <1>1, <1>5
<1> QED
  BY <1>2, <1>4, <1>7, <1>9, <1>10, <1>11, RoomChanges

\* The orders that a finite set can be drawn in name each member once.
LEMMA SetsInOrder ==
  ASSUME NEW S, IsFiniteSet(S), NEW order \in SetToSeqs(S)
  PROVE  /\ order \in [1 .. Cardinality(S) -> S]
         /\ \A i, j \in DOMAIN order : order[i] = order[j] => i = j
         /\ {order[i] : i \in DOMAIN order} = S
<1>1. Cardinality(S) \in Nat
  BY FS_CardinalityType
<1>2. PICK D : D = 1 .. Cardinality(S)
  OBVIOUS
<1>3. order \in [D -> S] /\ \A i, j \in D : order[i] = order[j] => i = j
  BY <1>2 DEF SetToSeqs
<1>4. order \in Injection(D, S)
  BY <1>3 DEF Injection, IsInjective
<1>5. Cardinality(D) = Cardinality(S)
  BY <1>1, <1>2, FS_Interval
<1>6. order \in Surjection(D, S)
  BY ONLY <1>4, <1>5, IsFiniteSet(S), FS_Injection
<1> QED
  BY <1>2, <1>3, <1>6 DEF Surjection

\* A draw seats everyone alive, and nobody else.
LEMMA EveryoneIsDrawn ==
  ASSUME DeskInv, SeatInv, NEW t, Open(t), AliveIn(t) # {}, NEW order,
         order \in SetToSeqs(AliveIn(t)), UNCHANGED <<entries, tours>>,
         rooms' = [rooms EXCEPT ![t] = Redraw(@, order, Setting(t).capacity)]
  PROVE  SeatInv'
<1>1. PICK c, old, room : c = Setting(t).capacity /\ old = rooms[t] /\ room = Redraw(old, order, c)
  BY Zenon
<1>2. /\ t \in Tournaments /\ tours[t].status # "NONE" /\ c \in Nat \ {0}
      /\ IsFiniteSet(Entries) /\ AliveIn(t) \subseteq Entries
  BY <1>1, EntriesFinite, TableSeats DEF Open, AliveIn, EntriesOf
<1>3. SeatsOf(t) /\ RoomOk(old, Entries, c) /\ DOMAIN rooms = Tournaments
  BY <1>1, <1>2 DEF SeatInv, SeatsOf
<1>4. rooms' = [rooms EXCEPT ![t] = room]
  BY <1>1, <1>2, <1>3
<1>5. /\ order \in [1 .. Cardinality(AliveIn(t)) -> AliveIn(t)]
      /\ {order[i] : i \in DOMAIN order} = AliveIn(t)
      /\ \A i, j \in DOMAIN order : order[i] = order[j] => i = j
  BY <1>2, EntriesFinite, SetsInOrder
<1>6. Draws(order, Entries)
  <2>1. Cardinality(AliveIn(t)) \in Nat
    BY <1>2, EntriesFinite
  <2>2. DOMAIN order # {}
    BY <1>5
  <2>3. order \in Seq(Entries) /\ order # <<>>
    BY <1>2, <1>5, <2>1, <2>2
  <2> QED
    BY <1>5, <2>3 DEF Draws
<1>7. RoomOk(room, Entries, c) /\ SeatedIn(room) = AliveIn(t)
  <2>1. /\ RoomOk(Redraw(old, order, c), Entries, c)
        /\ SeatedIn(Redraw(old, order, c)) = {order[i] : i \in DOMAIN order}
    BY <1>2, <1>3, <1>6, RedrawOk
  <2> QED
    BY <1>1, <1>5, <2>1, Zenon
<1>8. AliveIn(t)' = AliveIn(t)
  BY DEF AliveIn, EntriesOf
<1>9. \A z \in Tournaments \ {t}, f \in Entries : Unmoved(z, f)
  BY DEF Unmoved
<1>10. \A z \in Tournaments : TourStays(z)
  BY DEF TourStays
<1>11. /\ RoomOk(room, Entries, Setting(t).capacity) /\ AliveIn(t)' \subseteq SeatedIn(room)
       /\ \A f \in SeatedIn(room) : f \notin AliveIn(t)' =>
            entries'[f].tour = t /\ entries'[f].status = "PAID"
  BY <1>1, <1>7, <1>8
<1> QED
  BY <1>2, <1>4, <1>9, <1>10, <1>11, RoomChanges

\* Money and progress change neither the setting of a tournament nor that it is there.
LEMMA ToursStay ==
  ASSUME NEW t, NEW n, NEW s \in {"REGISTERING", "RUNNING", "FINISHED"}, RowsTyped,
         \/ tours' = tours
         \/ tours' = [tours EXCEPT ![t].pool = n]
         \/ tours' = [tours EXCEPT ![t].status = s]
         \/ t \in Tournaments /\ tours[t].status = "NONE" /\ tours' = [tours EXCEPT ![t] = n]
  PROVE  \A z \in Tournaments : TourStays(z)
<1> SUFFICES ASSUME NEW z \in Tournaments, tours[z].status # "NONE"
             PROVE  tours'[z].status # "NONE" /\ tours'[z].setting = tours[z].setting
  BY DEF TourStays
<1>1. PICK was : was = tours[z]
  OBVIOUS
<1>2. was \in TourRows /\ tours \in [Tournaments -> TourRows]
  BY <1>1 DEF RowsTyped
<1>3. \/ tours'[z] = was \/ tours'[z] = [was EXCEPT !.pool = n]
      \/ tours'[z] = [was EXCEPT !.status = s]
  BY <1>1, <1>2
<1> QED
  BY <1>1, <1>2, <1>3 DEF TourRows

\* A registration.
LEMMA RegistrationSeats ==
  ASSUME DeskInv, SeatInv, NEW r \in Reqs, CommitRegister(r) \/ CommitRegisterGuest(r)
  PROVE  SeatInv'
<1>1. PICK q, e : q = req[r] /\ e = Min(Unused)
  OBVIOUS
<1>2. q.pc = "commit" /\ Unused # {} /\ RowsTyped
  BY <1>1 DEF CommitRegister, CommitRegisterGuest, DeskInv, Books
<1>3. Open(q.tour) /\ e \in Unused
  BY <1>1, <1>2, AtCommit, NextRowUnused
<1>4. \E u : CreateEntry(q, u, e)
  BY <1>1, Zenon DEF CommitRegister, CommitRegisterGuest
<1>5. PICK u : CreateEntry(q, u, e)
  BY <1>4
<1>6. \A z \in Tournaments : TourStays(z)
  <2>1. PICK t, n : t = q.tour /\ n = tours[t].pool + PoolShare(t)
    OBVIOUS
  <2>2. tours' = [tours EXCEPT ![t].pool = n]
    BY <1>3, <1>5, <2>1 DEF CreateEntry, Open
  <2> QED
    BY <1>2, <2>2, ToursStay
<1> QED
  BY <1>3, <1>5, <1>6, NewcomerIsSeated

\* A cancellation.
LEMMA CancellationVacates ==
  ASSUME DeskInv, SeatInv, NEW r \in Reqs, CommitUnregister(r)
  PROVE  SeatInv'
<1>1. PICK t, e, n : t = req[r].tour /\ e = req[r].entry /\ n = tours[t].pool - PoolShare(t)
  OBVIOUS
<1>2. req[r].pc = "commit" /\ req[r].op = "unregister" /\ RowsTyped
  BY DEF CommitUnregister, DeskInv, Books
<1>3. Open(t) /\ Granted("unregister", t, req[r].user, e) /\ t \in Tournaments
  BY <1>1, <1>2, AtCommit
<1>4. e \in AliveIn(t) /\ EntryIn(e, t)
  BY <1>3 DEF Granted, AliveIn, EntriesOf, Alive, EntryIn
<1>5. /\ entries' = [entries EXCEPT ![e].status = "REFUNDED"]
      /\ tours' = [tours EXCEPT ![t].pool = @ - PoolShare(t)]
      /\ rooms' = [rooms EXCEPT ![t] = Vacate(@, e)]
  BY <1>1, Zenon DEF CommitUnregister
<1>6. entries \in [Entries -> EntryRows] /\ e \in Entries /\ entries[e].tour = t
  BY <1>2, <1>4 DEF RowsTyped, EntryIn
<1>7. PICK old, row : old = entries[e] /\ row = [old EXCEPT !.status = "REFUNDED"]
  OBVIOUS
<1>8. /\ entries'[e] = row /\ row.tour = t /\ row.status = "REFUNDED"
      /\ \A f \in Entries \ {e} : entries'[f] = entries[f]
  <2>1. entries' = [entries EXCEPT ![e] = row]
    BY <1>5, <1>6, <1>7
  <2>2. row.tour = t /\ row.status = "REFUNDED"
    BY <1>6, <1>7 DEF EntryRows
  <2> QED
    BY <1>6, <2>1, <2>2
<1>9. \A z \in Tournaments : TourStays(z)
  <2>1. tours' = [tours EXCEPT ![t].pool = n]
    BY <1>1, <1>3, <1>5
  <2> QED
    BY <1>2, <2>1, ToursStay
<1> QED
  BY <1>3, <1>4, <1>5, <1>8, <1>9, LeaverStandsUp

\* An elimination.
LEMMA EliminationVacates ==
  ASSUME DeskInv, SeatInv, NEW r \in Reqs, CommitEliminate(r)
  PROVE  SeatInv'
<1>1. PICK t, e : t = req[r].tour /\ e = req[r].entry
  OBVIOUS
<1>2. PICK place : place = IF req[r].position > 0 THEN req[r].position ELSE AutomaticPosition(t, e)
  OBVIOUS
<1>3. /\ req[r].pc = "lock" /\ req[r].op = "eliminate" /\ RowsTyped
      /\ entries' = [entries EXCEPT ![e].status = "ELIMINATED", ![e].position = place]
      /\ tours' = [tours EXCEPT ![t].status = IF @ = "REGISTERING" THEN "RUNNING" ELSE @]
      /\ rooms' = [rooms EXCEPT ![t] = Vacate(@, e)]
  BY <1>1, <1>2 DEF CommitEliminate, DeskInv, Books
<1>4. Open(t) /\ EntryIn(e, t)
  BY <1>1, <1>3, OwnShape DEF ShapeOf
<1>5. /\ entries \in [Entries -> EntryRows] /\ e \in Entries /\ entries[e].tour = t
      /\ tours \in [Tournaments -> TourRows] /\ t \in Tournaments
  BY <1>3, <1>4 DEF RowsTyped, EntryIn, Open
<1>6. PICK old, row :
        old = entries[e] /\ row = [old EXCEPT !.status = "ELIMINATED", !.position = place]
  OBVIOUS
<1>7. /\ entries'[e] = row /\ row.tour = t /\ row.status = "ELIMINATED"
      /\ \A f \in Entries \ {e} : entries'[f] = entries[f]
  <2>1. entries' = [entries EXCEPT ![e] = row]
    BY <1>3, <1>5, <1>6
  <2>2. row.tour = t /\ row.status = "ELIMINATED"
    BY <1>5, <1>6 DEF EntryRows
  <2> QED
    BY <1>5, <2>1, <2>2
<1>8. \A z \in Tournaments : TourStays(z)
  <2>1. PICK s : s = IF tours[t].status = "REGISTERING" THEN "RUNNING" ELSE tours[t].status
    OBVIOUS
  <2>2. tours' = [tours EXCEPT ![t].status = s]
    BY <1>3, <1>5, <2>1
  <2>3. s \in {"REGISTERING", "RUNNING", "FINISHED"}
    BY <1>4, <1>5, <2>1 DEF Open, TourRows
  <2> QED
    BY <1>3, <2>2, <2>3, ToursStay
<1> QED
  BY <1>3, <1>4, <1>7, <1>8, LeaverStandsUp

\* A draw.
LEMMA RedrawSeats ==
  ASSUME DeskInv, SeatInv, NEW r \in Reqs, CommitRedraw(r)
  PROVE  SeatInv'
<1>1. PICK t : t = req[r].tour
  OBVIOUS
<1>2. /\ req[r].pc = "lock" /\ req[r].op = "redraw" /\ UNCHANGED <<entries, tours>>
      /\ IF AliveIn(t) = {} THEN UNCHANGED rooms
         ELSE \E order \in SetToSeqs(AliveIn(t)) :
                rooms' = [rooms EXCEPT ![t] = Redraw(@, order, Setting(t).capacity)]
  BY <1>1 DEF CommitRedraw
<1>3. Open(t)
  BY <1>1, <1>2, OwnShape DEF ShapeOf
<1>4. CASE AliveIn(t) = {}
  <2>1. \A z \in Tournaments : TourStays(z)
    BY <1>2 DEF TourStays
  <2>2. \A z \in Tournaments, f \in Entries : Unmoved(z, f)
    BY <1>2 DEF Unmoved
  <2> QED
    BY <1>2, <1>4, <2>1, <2>2, RoomsStay
<1>5. CASE AliveIn(t) # {}
  <2>1. \E order \in SetToSeqs(AliveIn(t)) :
          rooms' = [rooms EXCEPT ![t] = Redraw(@, order, Setting(t).capacity)]
    BY <1>2, <1>5
  <2>2. PICK order \in SetToSeqs(AliveIn(t)) :
          rooms' = [rooms EXCEPT ![t] = Redraw(@, order, Setting(t).capacity)]
    BY <2>1
  <2> QED
    BY <1>2, <1>3, <1>5, <2>2, EveryoneIsDrawn
<1> QED
  BY <1>4, <1>5

\* Payouts leave the rooms alone.
LEMMA FinishSeats ==
  ASSUME DeskInv, SeatInv, NEW r \in Reqs, CommitFinish(r)
  PROVE  SeatInv'
<1>1. PICK q, t, payouts : q = req[r] /\ t = q.tour /\ payouts = q.payouts
  BY Zenon
<1> DEFINE paidAt(e) == {i \in DOMAIN payouts : payouts[i].entry = e}
           row(e) == IF paidAt(e) # {}
                     THEN [entries[e] EXCEPT !.status = "PAID", !.paid = TRUE,
                             !.prize = payouts[Min(paidAt(e))].amount,
                             !.position = payouts[Min(paidAt(e))].position]
                     ELSE IF e = q.winner THEN [entries[e] EXCEPT !.position = 1] ELSE entries[e]
<1>2. /\ entries' = [e \in Entries |-> row(e)] /\ rooms' = rooms
      /\ tours' = [tours EXCEPT ![t].status = "FINISHED"]
  BY <1>1, Zenon DEF CommitFinish
<1>3. RowsTyped
  BY DEF DeskInv, Books
<1>4. ASSUME NEW e \in Entries
      PROVE  row(e).tour = entries[e].tour /\ row(e).status \in {entries[e].status, "PAID"}
  <2>1. PICK old, prize, place : /\ old = entries[e]
                                 /\ prize = payouts[Min(paidAt(e))].amount
                                 /\ place = payouts[Min(paidAt(e))].position
    OBVIOUS
  <2>2. old \in EntryRows
    BY <1>3, <2>1 DEF RowsTyped
  <2> HIDE DEF paidAt
  <2>3. \/ row(e) = [old EXCEPT !.status = "PAID", !.paid = TRUE, !.prize = prize,
                                !.position = place]
        \/ row(e) = [old EXCEPT !.position = 1] \/ row(e) = old
    BY <2>1
  <2> HIDE DEF row
  <2>4. row(e).tour = old.tour /\ row(e).status \in {old.status, "PAID"}
    BY <2>2, <2>3 DEF EntryRows
  <2> QED
    BY <2>1, <2>4
<1> HIDE DEF row
<1>5. \A z \in Tournaments, e \in Entries : Unmoved(z, e)
  BY <1>2, <1>4 DEF Unmoved
<1>6. \A z \in Tournaments : TourStays(z)
  <2>1. "FINISHED" \in {"REGISTERING", "RUNNING", "FINISHED"}
    OBVIOUS
  <2> QED
    BY <1>2, <1>3, <2>1, ToursStay
<1> QED
  BY <1>2, <1>5, <1>6, RoomsStay

\* Where nobody edits, every step leaves the seats as they should be.
LEMMA SeatsKept ==
  ASSUME DeskInv, SeatInv, NobodyEdits, [Next]_vars
  PROVE  SeatInv'
<1>1. ASSUME UNCHANGED <<tours, entries, rooms>> PROVE SeatInv'
  <2>1. \A z \in Tournaments : TourStays(z)
    BY <1>1 DEF TourStays
  <2>2. \A z \in Tournaments, f \in Entries : Unmoved(z, f)
    BY <1>1 DEF Unmoved
  <2> QED
    BY <1>1, <2>1, <2>2, RoomsStay
<1>2. ASSUME NEW r \in Reqs, Rollback(r) PROVE SeatInv'
  BY <1>1, <1>2 DEF Rollback, tourVars
<1>3. ASSUME NEW r \in Reqs, Arrive(r) PROVE SeatInv'
  BY <1>1, <1>3, Zenon DEF Arrive, RegisterEntry, RegisterGuestEntry, UnregisterEntry,
     EliminateEntry, RedrawTables, UpdateTournament, FinishTournament, Begin, tourVars
<1>4. ASSUME NEW r \in Reqs, TakeLock(r) PROVE SeatInv'
  <2>1. CASE LockAndCheck(r) \/ TakeWalletLock(r) \/ RefuseEliminate(r) \/ FinishLock(r)
             \/ LockNextWinner(r)
    BY <1>1, <2>1 DEF LockAndCheck, TakeWalletLock, RefuseEliminate, FinishLock,
                      LockNextWinner, tourVars
  <2>2. CASE RefusePayout(r)
    BY <1>2, <2>2, Zenon DEF RefusePayout
  <2>3. ~ApplyUpdate(r)
    BY DEF ApplyUpdate, NobodyEdits, EditSteps
  <2> QED
    BY <1>4, <2>1, <2>2, <2>3, EliminationVacates, RedrawSeats DEF TakeLock
<1>5. ASSUME NEW r \in Reqs, Proceed(r) PROVE SeatInv'
  <2>1. CASE FindReplay(r) \/ StartUpdate(r) \/ FinishReadGrade(r) \/ FinishReadEntries(r)
    BY <1>1, <2>1 DEF FindReplay, StartUpdate, FinishReadGrade, FinishReadEntries, tourVars
  <2>2. CASE RefuseCommit(r) \/ AbortDeadlock(r)
    BY <1>2, <2>2, Zenon DEF RefuseCommit, AbortDeadlock
  <2> QED
    BY <1>5, <2>1, <2>2, RegistrationSeats, CancellationVacates, FinishSeats DEF Proceed
<1>6. ASSUME NEW t \in Tournaments, CreateTournament(t) PROVE SeatInv'
  <2>1. PICK n :
          tours' = [tours EXCEPT ![t] = [status |-> "REGISTERING", setting |-> n, pool |-> 0]]
    BY <1>6 DEF CreateTournament
  <2>2. PICK new : new = [status |-> "REGISTERING", setting |-> n, pool |-> 0]
    OBVIOUS
  <2>3. /\ tours' = [tours EXCEPT ![t] = new] /\ tours[t].status = "NONE" /\ RowsTyped
        /\ UNCHANGED <<entries, rooms>> /\ "RUNNING" \in {"REGISTERING", "RUNNING", "FINISHED"}
    BY <1>6, <2>1, <2>2 DEF CreateTournament, DeskInv, Books
  <2>4. \A z \in Tournaments : TourStays(z)
    BY <2>3, ToursStay
  <2>5. \A z \in Tournaments, f \in Entries : Unmoved(z, f)
    BY <2>3 DEF Unmoved
  <2> QED
    BY <2>3, <2>4, <2>5, RoomsStay
<1>7. ASSUME NEW t \in Tournaments, TimePasses(t) PROVE SeatInv'
  BY <1>1, <1>7 DEF TimePasses
<1>8. ASSUME NEW r \in Reqs, Fail(r) PROVE SeatInv'
  BY <1>2, <1>8 DEF Fail
<1>9. CASE UNCHANGED vars
  BY <1>1, <1>9 DEF vars, tourVars
<1> QED
  BY <1>3, <1>4, <1>5, <1>6, <1>7, <1>8, <1>9, Zenon DEF Next

\* Before the first tournament all rooms are empty.
LEMMA InitSeats ==
  ASSUME Init
  PROVE  SeatInv
<1>1. /\ rooms = [t \in Tournaments |-> EmptyRoom]
      /\ \A t \in Tournaments : tours[t].status = "NONE"
      /\ \A e \in Entries : entries[e].status = "NONE"
  BY DEF Init, NoTour, NoEntry
<1>2. ASSUME NEW t \in Tournaments PROVE SeatsOf(t)
  <2>1. AliveIn(t) = {} /\ rooms[t] = EmptyRoom /\ SeatedIn(EmptyRoom) = {}
    BY <1>1, EmptyRoomOk DEF AliveIn, EntriesOf, Alive
  <2> QED
    BY <1>1, <2>1 DEF SeatsOf
<1> QED
  BY <1>1, <1>2 DEF SeatInv

\* What the invariant says of the seats.
LEMMA SeatsFollow ==
  ASSUME SeatInv
  PROVE  SeatsFollowEntries
<1> SUFFICES ASSUME NEW t \in Tournaments
             PROVE  LET room == rooms[t]
                    IN  /\ \A e \in AliveIn(t) :
                             /\ room.at[e].table \in OpenTables(room)
                             /\ room.at[e].seat \in
                                  1 .. room.tables[room.at[e].table].capacity
                             /\ \A o \in Entries \ {e} : room.at[o] # room.at[e]
                        /\ \A e \in Entries \ AliveIn(t) :
                             room.at[e] # NoSeat =>
                               entries[e].tour = t /\ entries[e].status = "PAID"
                        /\ \A n \in OpenTables(room) : Occupants(room, n) # {}
  BY DEF SeatsFollowEntries
<1>1. PICK room : room = rooms[t]
  OBVIOUS
<1>2. /\ SeatsOf(t) /\ DOMAIN room.at = Entries /\ AliveIn(t) \subseteq SeatedIn(room)
      /\ \A e \in SeatedIn(room) \ AliveIn(t) : entries[e].tour = t /\ entries[e].status = "PAID"
  BY <1>1, SeatedEntries DEF SeatInv, SeatsOf
<1>3. \E c : RoomOk(room, Entries, c)
  BY <1>1, <1>2, EmptyRoomOk DEF SeatsOf
<1>4. Sound(room, Entries) /\ Tidy(room)
  BY <1>3 DEF RoomOk
<1>5. \A e \in Entries : room.at[e] # NoSeat => SeatIsSound(room, Entries, e)
  BY <1>4 DEF Sound
<1>6. \A e \in AliveIn(t) : e \in Entries /\ room.at[e] # NoSeat
  BY <1>2 DEF SeatedIn
<1>7. \A e \in AliveIn(t) : SeatIsSound(room, Entries, e)
  BY <1>5, <1>6
<1>8. \A e \in Entries \ AliveIn(t) : room.at[e] # NoSeat =>
        entries[e].tour = t /\ entries[e].status = "PAID"
  BY <1>2 DEF SeatedIn
<1> QED
  BY <1>1, <1>4, <1>7, <1>8 DEF SeatIsSound, Tidy

-----------------------------------------------------------------------------
(* The theorems.                                                           *)

\* As long as edits respect the entries, the rows keep their types, every entry is paid
\* for once and given back once, the prize pools are what was collected, and the vacancies
\* are sold once: whatever the requests' interleaving, failures and retries.
THEOREM DeskIsSound ==
  Spec /\ SettingLockedByEntries =>
    [](TypeOK /\ PaidForOnce /\ PoolIsWhatWasCollected /\ VacanciesRespected)
<1>1. Init => DeskInv
  BY InitDesk
<1>2. DeskInv /\ [Next]_vars /\ [SettingsKept]_vars => DeskInv'
  BY NextKeeps
<1>3. DeskInv => TypeOK /\ PaidForOnce /\ PoolIsWhatWasCollected /\ VacanciesRespected
  BY DeskTyped, DeskPaid, DeskPools
<1> QED
  BY <1>1, <1>2, <1>3, PTL DEF Spec, SettingLockedByEntries

\* They do where nobody asks for an edit: no other route touches the settings.
THEOREM SettingsLocked ==
  ASSUME "update" \notin Workload
  PROVE  Spec => SettingLockedByEntries
<1>1. Init => DeskInv /\ NobodyEdits
  <2>1. Init => NobodyEdits
    BY DEF Init, Idle, NobodyEdits, EditSteps
  <2> QED
    BY <2>1, InitDesk
<1>2. DeskInv /\ NobodyEdits /\ [Next]_vars => [SettingsKept]_vars /\ DeskInv' /\ NobodyEdits'
  BY NobodyEditsKept, NextKeeps
<1> QED
  BY <1>1, <1>2, PTL DEF Spec, SettingLockedByEntries

\* The rows and the requests keep their types.
THEOREM TypesKept ==
  ASSUME "update" \notin Workload
  PROVE  Spec => []TypeOK
BY DeskIsSound, SettingsLocked, PTL

\* Every entry is paid for exactly once by its own player, and a cancelled one gives back
\* what it cost.
THEOREM EntriesPaidForOnce ==
  ASSUME "update" \notin Workload
  PROVE  Spec => []PaidForOnce
BY DeskIsSound, SettingsLocked, PTL

\* The materialised prize pool is the sum of the buy-ins collected and not refunded.
THEOREM PoolsAreWhatWasCollected ==
  ASSUME "update" \notin Workload
  PROVE  Spec => []PoolIsWhatWasCollected
BY DeskIsSound, SettingsLocked, PTL

\* The last vacancy is sold once, a player has one entry alive, and re-enters no oftener
\* than the tournament allows.
THEOREM VacanciesSoldOnce ==
  ASSUME "update" \notin Workload
  PROVE  Spec => []VacanciesRespected
BY DeskIsSound, SettingsLocked, PTL

\* Everyone alive has an own seat of an open table, whoever left has none but those who
\* were paid where they sat, and nobody's table stays open: after every commit of a
\* registration, elimination, cancellation and draw, for rooms of any size.
THEOREM SeatsAreTheirs ==
  ASSUME "update" \notin Workload
  PROVE  Spec => []SeatsFollowEntries
<1>1. Init => DeskInv /\ NobodyEdits /\ SeatInv
  <2>1. Init => NobodyEdits
    BY DEF Init, Idle, NobodyEdits, EditSteps
  <2> QED
    BY <2>1, InitDesk, InitSeats
<1>2. DeskInv /\ NobodyEdits /\ SeatInv /\ [Next]_vars => DeskInv' /\ NobodyEdits' /\ SeatInv'
  BY NobodyEditsKept, NextKeeps, SeatsKept
<1>3. SeatInv => SeatsFollowEntries
  BY SeatsFollow
<1> QED
  BY <1>1, <1>2, <1>3, PTL DEF Spec
=============================================================================
