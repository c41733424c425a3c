---------------------------- MODULE SeatingProofs ----------------------------
(***************************************************************************)
(* What the planners of Seating compute, for any number of players and     *)
(* tables: whoever is seated keeps a seat of an open table that nobody     *)
(* else has, and no statement of a plan meets the unique index; and the    *)
(* tables stay balanced.  In balanced rooms one table alone lacks players  *)
(* when somebody leaves, and as long as that is so each turn of a          *)
(* rebalance moves a player there (Nearly), until all are level.           *)
(***************************************************************************)
EXTENDS Seating, SumLemmas

-----------------------------------------------------------------------------
(* The folds of the planners, turn by turn.                                *)

\* One turn: a player of the table that is broken moves, the tables are balanced, or a
\* move is carried out.
Turn(work, state, item) ==
  IF work.kind = "break"
  THEN Relocate(state, work.doomed,
         Emptiest(state.room, {t \in work.survivors : HasFreeSeat(state.room, t)}))
  ELSE IF work.kind = "balance" THEN BalanceOnce(state, work.open)
  ELSE TakePlace(Release(state, {item.entry}), item.entry, item.place)

\* What the fold says of a set of indices, given what it says of the smaller ones.
TurnStep(work, start, items, iter, T) ==
  IF T = {} THEN start ELSE Turn(work, iter[T \ {Max(T)}], items[Max(T)])

\* A table of the states of the fold.
Folding(work, start, items, iter) ==
  iter = [T \in SUBSET DOMAIN items |-> TurnStep(work, start, items, iter, T)]

\* A set of numbers that is bounded and not empty has a largest.
LEMMA LargestOf ==
  ASSUME NEW T \in SUBSET Nat, T # {}, NEW n \in Nat, \A x \in T : x <= n
  PROVE  /\ Max(T) \in T /\ \A x \in T : x <= Max(T)
<1> DEFINE Rest == {n - x : x \in T}
<1>1. Rest \in SUBSET Nat /\ Rest # {}
  OBVIOUS
<1>2. PICK m \in Rest : \A k \in Rest : m <= k
  <2> HIDE DEF Rest
  <2> QED BY <1>1, LeastNatural
<1>3. PICK y \in T : m = n - y
  BY <1>2
<1>4. \A x \in T : y >= x
  <2> SUFFICES ASSUME NEW x \in T PROVE y >= x
    OBVIOUS
  <2>1. n - y <= n - x
    BY <1>2, <1>3
  <2> QED
    BY <2>1
<1> HIDE DEF Rest
<1>5. Max(T) \in T /\ \A x \in T : Max(T) >= x
  <2>1. \E b \in T : \A x \in T : b >= x
    BY <1>4
  <2> QED
    BY <2>1, Zenon DEF Max
<1> QED
  BY <1>5

\* A set of numbers that is not empty has a smallest.
LEMMA SmallestOf ==
  ASSUME NEW T \in SUBSET Nat, T # {}
  PROVE  Min(T) \in T /\ \A x \in T : Min(T) <= x
<1>1. \E m \in T : \A k \in T : m <= k
  BY LeastNatural
<1> QED
  BY <1>1, Zenon DEF Min

\* Every fold over a finite sequence of items has a table of its states.
LEMMA FoldingExists ==
  ASSUME NEW work, NEW start, NEW items, NEW n \in Nat, DOMAIN items = 1 .. n
  PROVE  \E iter : Folding(work, start, items, iter)
<1> DEFINE S == 1 .. n
           Step(g, T) == TurnStep(work, start, items, g, T)
           D(m) == {T \in SUBSET S : Cardinality(T) <= m}
           N == {m \in Nat : \E g : g = [T \in D(m) |-> Step(g, T)]}
<1>0. IsFiniteSet(S) /\ Cardinality(S) = n
  BY FS_Interval, 1 \in Int, n \in Int
<1>1. \A T \in SUBSET S : IsFiniteSet(T) /\ Cardinality(T) \in Nat /\ Cardinality(T) <= n
  <2> HIDE DEF S
  <2> QED BY <1>0, FS_Subset, FS_CardinalityType
<1>2. \A T \in SUBSET S : T # {} =>
        /\ Max(T) \in T /\ Cardinality(T \ {Max(T)}) = Cardinality(T) - 1
        /\ T \ {Max(T)} \in SUBSET S
  <2> SUFFICES ASSUME NEW T \in SUBSET S, T # {}
               PROVE  /\ Max(T) \in T /\ Cardinality(T \ {Max(T)}) = Cardinality(T) - 1
                      /\ T \ {Max(T)} \in SUBSET S
    OBVIOUS
  <2>1. T \in SUBSET Nat /\ \A x \in T : x <= n
    OBVIOUS
  <2>2. Max(T) \in T
    BY <2>1, LargestOf
  <2>3. IsFiniteSet(T)
    BY <1>1
  <2>4. Cardinality(T \ {Max(T)}) = Cardinality(T) - 1
    BY <2>2, <2>3, FS_RemoveElement
  <2> QED
    BY <2>2, <2>4
<1>3. 0 \in N
  <2>1. D(0) = {{}}
    <3>1. \A T \in SUBSET S : Cardinality(T) <= 0 <=> T = {}
      <4> SUFFICES ASSUME NEW T \in SUBSET S PROVE Cardinality(T) <= 0 <=> T = {}
        OBVIOUS
      <4>1. IsFiniteSet(T) /\ Cardinality(T) \in Nat
        BY <1>1
      <4>2. Cardinality(T) = 0 <=> T = {}
        BY <4>1, FS_EmptySet
      <4> QED
        BY <4>1, <4>2
    <3> QED
      BY <3>1
  <2> DEFINE g == [T \in {{}} |-> start]
  <2>2. \A h : \A T \in {{}} : Step(h, T) = start
    BY DEF TurnStep
  <2>3. g = [T \in {{}} |-> Step(g, T)]
    <3> HIDE DEF Step
    <3> QED BY <2>2
  <2> HIDE DEF Step, g, D
  <2> QED
    BY <2>1, <2>3
<1>4. \A m \in Nat : m \in N => m + 1 \in N
  <2> SUFFICES ASSUME NEW m \in Nat, NEW g, g = [T \in D(m) |-> Step(g, T)]
               PROVE  \E h : h = [T \in D(m + 1) |-> Step(h, T)]
    <3> HIDE DEF D, Step
    <3> QED OBVIOUS
  <2> DEFINE h == [T \in D(m + 1) |-> Step(g, T)]
  <2>1. \A T \in D(m + 1) : T # {} => T \ {Max(T)} \in D(m)
    <3> SUFFICES ASSUME NEW T \in D(m + 1), T # {} PROVE T \ {Max(T)} \in D(m)
      OBVIOUS
    <3>1. Cardinality(T) \in Nat /\ Cardinality(T) <= m + 1
      BY <1>1
    <3> QED
      BY <3>1, <1>2
  <2>2. \A T \in D(m) : T \in D(m + 1) /\ h[T] = g[T]
    <3>1. D(m) \subseteq D(m + 1)
      BY <1>1
    <3> HIDE DEF D, Step
    <3> QED BY <3>1
  <2>3. \A T \in D(m + 1) : Step(g, T) = Step(h, T)
    <3> HIDE DEF D, h
    <3> QED BY <2>1, <2>2 DEF TurnStep
  <2>4. h = [T \in D(m + 1) |-> Step(h, T)]
    <3> DEFINE k == [T \in D(m + 1) |-> Step(h, T)]
    <3>1. h = k
      <4> HIDE DEF D, Step
      <4> QED BY <2>3
    <3> QED BY <3>1
  <2> QED
    BY <2>4
<1>5. n \in N
  <2> HIDE DEF N
  <2>1. Nat \subseteq N
    BY <1>3, <1>4, NatSetInduction
  <2> QED
    BY <2>1
<1>6. D(n) = SUBSET S
  BY <1>1
<1>7. \E g : g = [T \in SUBSET DOMAIN items |-> Step(g, T)]
  <2>1. PICK g : g = [T \in D(n) |-> Step(g, T)]
    <3> HIDE DEF D, Step
    <3> QED BY <1>5
  <2> HIDE DEF D, Step
  <2> QED BY <1>6, <2>1
<1> QED
  BY <1>7 DEF Folding

\* The states st of a fold, one after each turn.
Chain(work, start, items, n, st) ==
  /\ st[0] = start
  /\ \A k \in 1 .. n : st[k] = Turn(work, st[k - 1], items[k])

\* The table of a fold holds its chain.
LEMMA FoldingIsChain ==
  ASSUME NEW work, NEW start, NEW items, NEW n \in Nat, DOMAIN items = 1 .. n,
         NEW iter, Folding(work, start, items, iter)
  PROVE  \E st : Chain(work, start, items, n, st) /\ iter[DOMAIN items] = st[n]
<1> DEFINE st == [k \in 0 .. n |-> iter[1 .. k]]
<1>1. \A T \in SUBSET DOMAIN items : iter[T] = TurnStep(work, start, items, iter, T)
  BY DEF Folding
<1>2. st[0] = start
  <2>1. 1 .. 0 = {} /\ {} \in SUBSET DOMAIN items
    OBVIOUS
  <2>2. st[0] = iter[{}]
    BY <2>1
  <2> QED
    BY <1>1, <2>1, <2>2 DEF TurnStep
<1>3. ASSUME NEW k \in 1 .. n
      PROVE  st[k] = Turn(work, st[k - 1], items[k])
  <2>1. 1 .. k \in SUBSET DOMAIN items /\ 1 .. k # {} /\ 1 .. k \in SUBSET Nat
    <3>1. k \in 1 .. k
      OBVIOUS
    <3>2. \A x \in 1 .. k : x \in 1 .. n /\ x \in Nat
      OBVIOUS
    <3> QED
      BY <3>1, <3>2
  <2>2. Max(1 .. k) = k
    <3>1. \A x \in 1 .. k : x <= k
      OBVIOUS
    <3>2. Max(1 .. k) \in 1 .. k /\ \A x \in 1 .. k : x <= Max(1 .. k)
      <4> DEFINE T == 1 .. k
      <4>1. T \in SUBSET Nat /\ T # {} /\ k \in Nat /\ \A x \in T : x <= k
        BY <2>1, <3>1
      <4> HIDE DEF T
      <4>2. Max(T) \in T /\ \A x \in T : x <= Max(T)
        BY <4>1, LargestOf
      <4> QED
        BY <4>2 DEF T
    <3>3. k \in 1 .. k
      OBVIOUS
    <3> QED
      BY <3>2, <3>3
  <2>3. (1 .. k) \ {k} = 1 .. (k - 1)
    OBVIOUS
  <2>4. iter[1 .. k] = Turn(work, iter[1 .. (k - 1)], items[k])
    BY <1>1, <2>1, <2>2, <2>3 DEF TurnStep
  <2> QED
    BY <2>4
<1>4. iter[DOMAIN items] = st[n]
  OBVIOUS
<1> QED
  BY <1>2, <1>3, <1>4 DEF Chain

\* Carrying out a list of moves is a fold, move by move.
LEMMA ApplyMovesChain ==
  ASSUME NEW start, NEW items, NEW n \in Nat, DOMAIN items = 1 .. n
  PROVE  \E st : /\ Chain([kind |-> "apply"], start, items, n, st)
                 /\ ApplyMoves(start, items) = st[n]
<1> DEFINE work == [kind |-> "apply"]
           Fold(g) == [T \in SUBSET DOMAIN items |-> TurnStep(work, start, items, g, T)]
           iter == CHOOSE g : g = Fold(g)
<1>1. iter = Fold(iter)
  <2>1. \E g : g = Fold(g)
    BY FoldingExists DEF Folding
  <2> HIDE DEF Fold
  <2> QED BY <2>1
<1>2. ApplyMoves(start, items) = iter[DOMAIN items]
  BY Zenon DEF ApplyMoves, FoldLeft, MapThenFoldSet, TurnStep, Turn
<1> HIDE DEF iter
<1>3. Folding(work, start, items, iter)
  BY <1>1 DEF Folding
<1> QED
  BY <1>2, <1>3, FoldingIsChain

\* A fold's items decide its chain.
LEMMA ChainsAgree ==
  ASSUME NEW work, NEW start, NEW n \in Nat, NEW items, NEW more, NEW st, NEW sta,
         Chain(work, start, items, n, st), Chain(work, start, more, n, sta),
         \A k \in 1 .. n : items[k] = more[k]
  PROVE  st[n] = sta[n]
<1> DEFINE F == {k \in Nat : k <= n => st[k] = sta[k]}
<1>1. 0 \in F
  BY DEF Chain
<1>2. \A k \in Nat : k \in F => k + 1 \in F
  <2> SUFFICES ASSUME NEW k \in F, k + 1 <= n PROVE st[k + 1] = sta[k + 1]
    OBVIOUS
  <2>1. st[k] = sta[k]
    OBVIOUS
  <2>2. k + 1 \in 1 .. n /\ (k + 1) - 1 = k
    OBVIOUS
  <2> QED
    BY <2>1, <2>2 DEF Chain
<1> HIDE DEF F
<1>3. Nat \subseteq F
  BY <1>1, <1>2, NatSetInduction
<1> QED
  BY <1>3 DEF F

\* Carrying out no moves.
LEMMA ApplyNothing ==
  ASSUME NEW room
  PROVE  ApplyMoves(room, <<>>) = room
<1>1. DOMAIN <<>> = 1 .. 0
  OBVIOUS
<1>2. PICK st : Chain([kind |-> "apply"], room, <<>>, 0, st) /\ ApplyMoves(room, <<>>) = st[0]
  BY <1>1, ApplyMovesChain, 0 \in Nat
<1> QED
  BY <1>2 DEF Chain

\* The moves of a list are carried out one after the other.
LEMMA ApplyOneMore ==
  ASSUME NEW room, NEW M, NEW moves \in Seq(M), NEW m \in M
  PROVE  ApplyMoves(room, Append(moves, m))
           = TakePlace(Release(ApplyMoves(room, moves), {m.entry}), m.entry, m.place)
<1> DEFINE n == Len(moves)
           more == Append(moves, m)
           work == [kind |-> "apply"]
<1>1. /\ n \in Nat /\ n + 1 \in Nat
      /\ DOMAIN moves = 1 .. n /\ DOMAIN more = 1 .. n + 1
      /\ \A k \in 1 .. n : moves[k] = more[k]
      /\ more[n + 1] = m
  OBVIOUS
<1> HIDE DEF n, more
<1>2. PICK st : Chain(work, room, moves, n, st) /\ ApplyMoves(room, moves) = st[n]
  BY <1>1, ApplyMovesChain
<1>3. PICK sta : Chain(work, room, more, n + 1, sta) /\ ApplyMoves(room, more) = sta[n + 1]
  BY <1>1, ApplyMovesChain
<1>4. Chain(work, room, more, n, sta)
  <2>1. \A k \in 1 .. n : k \in 1 .. n + 1
    BY <1>1
  <2> QED
    BY <1>3, <2>1 DEF Chain
<1> HIDE DEF work
<1>5. st[n] = sta[n]
  BY <1>1, <1>2, <1>4, ChainsAgree
<1>6. sta[n + 1] = Turn(work, sta[n], more[n + 1])
  <2>1. n + 1 \in 1 .. n + 1 /\ (n + 1) - 1 = n
    BY <1>1
  <2> QED
    BY <1>3, <2>1 DEF Chain
<1> QED
  BY <1>1, <1>2, <1>3, <1>5, <1>6 DEF Turn, more, work

\* The states of a break, n turns long, from a plan to a plan.
BreakStates(plan, doomed, survivors, n, st, end) ==
  /\ st[0] = plan
  /\ \A k \in 1 .. n :
       st[k] = Relocate(st[k - 1], doomed,
                 Emptiest(st[k - 1].room, {t \in survivors : HasFreeSeat(st[k - 1].room, t)}))
  /\ end = st[n]

\* Breaking a table is a fold, one player of it per turn.
LEMMA BreakTableChain ==
  ASSUME NEW plan, NEW doomed, NEW survivors, Occupancy(plan.room, doomed) \in Nat
  PROVE  \E st : BreakStates(plan, doomed, survivors, Occupancy(plan.room, doomed), st,
                            BreakTable(plan, doomed, survivors))
<1> DEFINE n == Occupancy(plan.room, doomed)
           items == [i \in 1 .. n |-> i]
           work == [kind |-> "break", doomed |-> doomed, survivors |-> survivors]
           Fold(g) == [T \in SUBSET DOMAIN items |-> TurnStep(work, plan, items, g, T)]
           iter == CHOOSE g : g = Fold(g)
<1>0. DOMAIN items = 1 .. n
  OBVIOUS
<1>1. iter = Fold(iter)
  <2>1. \E g : g = Fold(g)
    <3> HIDE DEF items, work
    <3>1. \E g : Folding(work, plan, items, g)
      BY <1>0, FoldingExists
    <3> QED BY <3>1 DEF Folding
  <2> HIDE DEF Fold
  <2> QED BY <2>1
<1>2. BreakTable(plan, doomed, survivors) = iter[DOMAIN items]
  BY ZenonT(60) DEF BreakTable, Repeat, FoldLeft, MapThenFoldSet, TurnStep, Turn
<1> HIDE DEF iter
<1>3. Folding(work, plan, items, iter)
  BY <1>1 DEF Folding
<1>4. PICK st : Chain(work, plan, items, n, st) /\ iter[DOMAIN items] = st[n]
  <2> HIDE DEF items, work
  <2> QED BY <1>0, <1>3, FoldingIsChain
<1> HIDE DEF n
<1>5. \A k \in 1 .. n :
        st[k] = Relocate(st[k - 1], doomed,
                  Emptiest(st[k - 1].room,
                           {t \in survivors : HasFreeSeat(st[k - 1].room, t)}))
  BY <1>4, Zenon DEF Chain, Turn
<1>6. st[0] = plan
  BY <1>4 DEF Chain
<1> QED
  BY <1>2, <1>4, <1>5, <1>6 DEF n, BreakStates

\* Balancing the tables is a fold, one player per turn or nobody.
LEMMA BalanceChain ==
  ASSUME NEW plan, NEW open, Cardinality(DOMAIN plan.room.at) \in Nat
  PROVE  \E st :
           /\ st[0] = plan
           /\ \A k \in 1 .. Cardinality(DOMAIN plan.room.at) :
                st[k] = BalanceOnce(st[k - 1], open)
           /\ Balance(plan, open) = st[Cardinality(DOMAIN plan.room.at)]
<1> DEFINE n == Cardinality(DOMAIN plan.room.at)
           items == [i \in 1 .. n |-> i]
           work == [kind |-> "balance", open |-> open]
           Fold(g) == [T \in SUBSET DOMAIN items |-> TurnStep(work, plan, items, g, T)]
           iter == CHOOSE g : g = Fold(g)
<1>0. DOMAIN items = 1 .. n
  OBVIOUS
<1>1. iter = Fold(iter)
  <2>1. \E g : g = Fold(g)
    <3> HIDE DEF items, work
    <3>1. \E g : Folding(work, plan, items, g)
      BY <1>0, FoldingExists
    <3> QED BY <3>1 DEF Folding
  <2> HIDE DEF Fold
  <2> QED BY <2>1
<1>2. Balance(plan, open) = iter[DOMAIN items]
  BY ZenonT(60) DEF Balance, Repeat, FoldLeft, MapThenFoldSet, TurnStep, Turn
<1> HIDE DEF iter
<1>3. Folding(work, plan, items, iter)
  BY <1>1 DEF Folding
<1>4. PICK st : Chain(work, plan, items, n, st) /\ iter[DOMAIN items] = st[n]
  <2> HIDE DEF items, work
  <2> QED BY <1>0, <1>3, FoldingIsChain
<1> HIDE DEF n
<1>5. \A k \in 1 .. n : st[k] = BalanceOnce(st[k - 1], open)
  BY <1>4, Zenon DEF Chain, Turn
<1>6. st[0] = plan
  BY <1>4 DEF Chain
<1> QED
  BY <1>2, <1>4, <1>5, <1>6 DEF n

-----------------------------------------------------------------------------
(* Rooms.                                                                  *)

\* The rooms of the entries D.
Rooms(D) ==
  [tables : Seq([status : {"OPEN", "CLOSED"}, capacity : Nat]),
   at : [D -> [table : Nat, seat : Nat]], clash : BOOLEAN]

\* Whoever is seated has a seat of an open table that nobody else has.
SeatIsSound(room, D, e) ==
  /\ room.at[e].table \in OpenTables(room)
  /\ room.at[e].seat \in 1 .. room.tables[room.at[e].table].capacity
  /\ \A o \in D \ {e} : room.at[o] # room.at[e]

Sound(room, D) ==
  /\ room \in Rooms(D)
  /\ room.clash = FALSE
  /\ \A e \in D : room.at[e] # NoSeat => SeatIsSound(room, D, e)

\* Somebody sits at each open table.
Tidy(room) == \A t \in OpenTables(room) : Occupants(room, t) # {}

\* All tables are of one size.
Alike(room, c) == \A t \in DOMAIN room.tables : room.tables[t].capacity = c

\* Who has a seat.
SeatedIn(room) == {e \in DOMAIN room.at : room.at[e] # NoSeat}

\* The entries are rows of a table.
LEMMA RoomTypes ==
  ASSUME NEW D, IsFiniteSet(D), NEW room \in Rooms(D)
  PROVE  /\ DOMAIN room.at = D
         /\ \A t : /\ Occupants(room, t) \in SUBSET D
                   /\ IsFiniteSet(Occupants(room, t))
                   /\ Occupancy(room, t) \in Nat
                   /\ Occupancy(room, t) <= Cardinality(D)
         /\ DOMAIN room.tables = 1 .. Len(room.tables) /\ Len(room.tables) \in Nat
         /\ OpenTables(room) \in SUBSET (1 .. Len(room.tables))
         /\ IsFiniteSet(OpenTables(room))
         /\ \A t \in DOMAIN room.tables : /\ room.tables[t].capacity \in Nat
                                          /\ room.tables[t].status \in {"OPEN", "CLOSED"}
<1>1. DOMAIN room.at = D
  BY DEF Rooms
<1>2. \A t : Occupants(room, t) \in SUBSET D
  BY <1>1 DEF Occupants
<1>3. \A t : /\ IsFiniteSet(Occupants(room, t)) /\ Occupancy(room, t) \in Nat
             /\ Occupancy(room, t) <= Cardinality(D)
  BY <1>2, FS_Subset, FS_CardinalityType DEF Occupancy
<1>4. DOMAIN room.tables = 1 .. Len(room.tables) /\ Len(room.tables) \in Nat
  BY DEF Rooms
<1>5. OpenTables(room) \in SUBSET (1 .. Len(room.tables))
  BY <1>4 DEF OpenTables
<1>6. IsFiniteSet(OpenTables(room))
  <2>1. IsFiniteSet(1 .. Len(room.tables))
    BY <1>4, FS_Interval, 1 \in Int, Len(room.tables) \in Int
  <2> QED
    BY <1>5, <2>1, FS_Subset
<1>7. \A t \in DOMAIN room.tables :
        room.tables[t] \in [status : {"OPEN", "CLOSED"}, capacity : Nat]
  <2> DEFINE X == [status : {"OPEN", "CLOSED"}, capacity : Nat]
             rows == room.tables
  <2>1. rows \in Seq(X)
    BY DEF Rooms
  <2> HIDE DEF X, rows
  <2>2. \A t \in DOMAIN rows : rows[t] \in X
    BY <2>1
  <2> QED
    BY <2>2 DEF X, rows
<1> QED
  BY <1>1, <1>2, <1>3, <1>4, <1>5, <1>6, <1>7

\* The emptiest table of a set is one of them, and of those as empty the last.
LEMMA EmptiestOf ==
  ASSUME NEW room, NEW n \in Nat, NEW S \in SUBSET (1 .. n), S # {},
         \A t \in S : Occupancy(room, t) \in Nat
  PROVE  /\ Emptiest(room, S) \in S
         /\ \A o \in S \ {Emptiest(room, S)} :
              \/ Occupancy(room, o) > Occupancy(room, Emptiest(room, S))
              \/ /\ Occupancy(room, o) = Occupancy(room, Emptiest(room, S))
                 /\ o < Emptiest(room, S)
<1> DEFINE Counts == {Occupancy(room, t) : t \in S}
<1>1. PICK m \in Counts : \A k \in Counts : m <= k
  <2>1. Counts \in SUBSET Nat /\ Counts # {}
    OBVIOUS
  <2> HIDE DEF Counts
  <2> QED BY <2>1, LeastNatural
<1> DEFINE T == {t \in S : Occupancy(room, t) = m}
<1>2. T \in SUBSET Nat /\ T # {} /\ \A x \in T : x <= n
  OBVIOUS
<1>3. Max(T) \in T /\ \A x \in T : x <= Max(T)
  <2> HIDE DEF T
  <2> QED BY <1>2, LargestOf
<1>4. \A o \in S \ {Max(T)} :
        \/ Occupancy(room, o) > Occupancy(room, Max(T))
        \/ Occupancy(room, o) = Occupancy(room, Max(T)) /\ o < Max(T)
  <2> SUFFICES ASSUME NEW o \in S \ {Max(T)}
               PROVE  \/ Occupancy(room, o) > Occupancy(room, Max(T))
                      \/ Occupancy(room, o) = Occupancy(room, Max(T)) /\ o < Max(T)
    OBVIOUS
  <2>1. Occupancy(room, Max(T)) = m /\ m <= Occupancy(room, o)
    BY <1>1, <1>3
  <2>2. CASE Occupancy(room, o) = m
    <3>1. o \in T
      BY <2>2
    <3>2. o \in Nat /\ Max(T) \in Nat /\ o <= Max(T) /\ o # Max(T)
      BY <1>2, <1>3, <3>1
    <3> HIDE DEF T
    <3> QED
      BY <2>1, <2>2, <3>2
  <2>3. CASE Occupancy(room, o) # m
    <3> HIDE DEF T
    <3>1. m \in Nat /\ Occupancy(room, o) \in Nat
      BY <1>1
    <3> QED
      BY <2>1, <2>3, <3>1
  <2> QED
    BY <2>2, <2>3
<1> HIDE DEF T
<1>5. Max(T) \in S
  BY <1>3 DEF T
<1> QED
  BY <1>4, <1>5, Zenon DEF Emptiest

\* The fullest table of a set is one of them, and of those as full the last.
LEMMA FullestOf ==
  ASSUME NEW room, NEW n \in Nat, NEW b \in Nat, NEW S \in SUBSET (1 .. n), S # {},
         \A t \in S : Occupancy(room, t) \in Nat /\ Occupancy(room, t) <= b
  PROVE  /\ Fullest(room, S) \in S
         /\ \A o \in S \ {Fullest(room, S)} :
              \/ Occupancy(room, o) < Occupancy(room, Fullest(room, S))
              \/ /\ Occupancy(room, o) = Occupancy(room, Fullest(room, S))
                 /\ o < Fullest(room, S)
<1> DEFINE Counts == {Occupancy(room, t) : t \in S}
           m == Max(Counts)
<1>1. m \in Counts /\ \A k \in Counts : k <= m
  <2>1. Counts \in SUBSET Nat /\ Counts # {} /\ \A x \in Counts : x <= b
    OBVIOUS
  <2> HIDE DEF Counts
  <2> QED BY <2>1, LargestOf
<1> HIDE DEF m
<1> DEFINE T == {t \in S : Occupancy(room, t) = m}
<1>2. T \in SUBSET Nat /\ T # {} /\ \A x \in T : x <= n
  BY <1>1
<1>3. Max(T) \in T /\ \A x \in T : x <= Max(T)
  <2> HIDE DEF T
  <2> QED BY <1>2, LargestOf
<1>4. \A o \in S \ {Max(T)} :
        \/ Occupancy(room, o) < Occupancy(room, Max(T))
        \/ Occupancy(room, o) = Occupancy(room, Max(T)) /\ o < Max(T)
  <2> SUFFICES ASSUME NEW o \in S \ {Max(T)}
               PROVE  \/ Occupancy(room, o) < Occupancy(room, Max(T))
                      \/ Occupancy(room, o) = Occupancy(room, Max(T)) /\ o < Max(T)
    OBVIOUS
  <2>1. Occupancy(room, Max(T)) = m /\ Occupancy(room, o) <= m
    BY <1>1, <1>3
  <2>2. CASE Occupancy(room, o) = m
    <3>1. o \in T
      BY <2>2
    <3>2. o \in Nat /\ Max(T) \in Nat /\ o <= Max(T) /\ o # Max(T)
      BY <1>2, <1>3, <3>1
    <3> HIDE DEF T
    <3> QED
      BY <2>1, <2>2, <3>2
  <2>3. CASE Occupancy(room, o) # m
    <3> HIDE DEF T
    <3>1. m \in Nat /\ Occupancy(room, o) \in Nat
      BY <1>1
    <3> QED
      BY <2>1, <2>3, <3>1
  <2> QED
    BY <2>2, <2>3
<1> HIDE DEF T
<1>5. Max(T) \in S
  BY <1>3 DEF T
<1> QED
  BY <1>4, <1>5, Zenon DEF Fullest

\* The first free seat of a table that has one is within its capacity and free.
LEMMA FreeSeat ==
  ASSUME NEW D, IsFiniteSet(D), NEW room, Sound(room, D),
         NEW t \in OpenTables(room), HasFreeSeat(room, t)
  PROVE  /\ FirstFreeSeat(room, t) \in 1 .. room.tables[t].capacity
         /\ \A o \in D : room.at[o] # Place(t, FirstFreeSeat(room, t))
<1> DEFINE sitting == Occupants(room, t)
           taken == {room.at[e].seat : e \in sitting}
           k == Cardinality(taken)
           free == (1 .. k + 1) \ taken
<1>1. room \in Rooms(D)
  BY DEF Sound
<1>2. IsFiniteSet(taken) /\ k \in Nat /\ k <= Occupancy(room, t)
  <2>1. IsFiniteSet(sitting) /\ Occupancy(room, t) = Cardinality(sitting)
    BY <1>1, RoomTypes DEF Occupancy
  <2> DEFINE f == [e \in sitting |-> room.at[e].seat]
  <2>2. f \in Surjection(sitting, taken)
    BY DEF Surjection
  <2> HIDE DEF f, taken, sitting
  <2> QED
    BY <2>1, <2>2, FS_Surjection, FS_CardinalityType
<1>3. Occupancy(room, t) \in Nat /\ room.tables[t].capacity \in Nat
  BY <1>1, RoomTypes DEF OpenTables
<1>4. k + 1 <= room.tables[t].capacity
  BY <1>2, <1>3 DEF HasFreeSeat
<1> HIDE DEF taken
<1>5. free # {}
  <2> SUFFICES ASSUME 1 .. k + 1 \subseteq taken PROVE FALSE
    OBVIOUS
  <2>1. k + 1 \in Int /\ 1 \in Int
    BY <1>2
  <2>2. Cardinality(1 .. k + 1) = k + 1
    BY <2>1, <1>2, FS_Interval
  <2>3. Cardinality(1 .. k + 1) <= k
    BY <1>2, FS_Subset
  <2> QED
    BY <2>2, <2>3, <1>2
<1>6. free \in SUBSET Nat
  BY <1>2
<1>7. Min(free) \in free
  <2> HIDE DEF free
  <2> QED BY <1>5, <1>6, SmallestOf
<1>8. FirstFreeSeat(room, t) = Min(free)
  BY DEF FirstFreeSeat, taken
<1> HIDE DEF k
<1>9. /\ FirstFreeSeat(room, t) \in 1 .. room.tables[t].capacity
      /\ FirstFreeSeat(room, t) \notin taken
  BY <1>2, <1>3, <1>4, <1>7, <1>8
<1>10. \A o \in D : room.at[o] # Place(t, FirstFreeSeat(room, t))
  <2> SUFFICES ASSUME NEW o \in D, room.at[o] = Place(t, FirstFreeSeat(room, t))
               PROVE  FALSE
    OBVIOUS
  <2>1. room.at[o].table = t /\ room.at[o].seat = FirstFreeSeat(room, t)
    BY DEF Place
  <2>2. o \in sitting
    BY <1>1, <2>1, RoomTypes DEF Occupants
  <2> QED
    BY <1>9, <2>1, <2>2 DEF taken
<1> QED
  BY <1>9, <1>10

\* Whoever takes a free seat of an open table leaves the room as sound.
LEMMA TakeFreeSeat ==
  ASSUME NEW D, NEW room, Sound(room, D), NEW e \in D,
         NEW t \in OpenTables(room), NEW s \in 1 .. room.tables[t].capacity,
         \A o \in D : room.at[o] # Place(t, s)
  PROVE  /\ Sound(TakePlace(room, e, Place(t, s)), D)
         /\ TakePlace(room, e, Place(t, s)).tables = room.tables
         /\ TakePlace(room, e, Place(t, s)).at = [room.at EXCEPT ![e] = Place(t, s)]
<1> DEFINE place == Place(t, s)
           r == TakePlace(room, e, place)
<1>1. room \in Rooms(D) /\ room.clash = FALSE /\ DOMAIN room.at = D
  BY DEF Sound, Rooms
<1>2. r = [tables |-> room.tables, at |-> [room.at EXCEPT ![e] = place], clash |-> FALSE]
  <2> DEFINE at == [room.at EXCEPT ![e] = place]
             clash == room.clash \/ \E o \in DOMAIN room.at : room.at[o] = place
  <2>1. clash = FALSE
    BY <1>1
  <2>2. r = [room EXCEPT !.at = at, !.clash = clash]
    BY DEF TakePlace
  <2> HIDE DEF at, clash
  <2>3. r = [tables |-> room.tables, at |-> at, clash |-> clash]
    BY <1>1, <2>2 DEF Rooms
  <2> QED
    BY <2>1, <2>3 DEF at
<1>3. place \in [table : Nat, seat : Nat] /\ place.table = t /\ place.seat = s
  BY <1>1 DEF Place, OpenTables, Rooms
<1>4. r \in Rooms(D)
  BY <1>1, <1>2, <1>3 DEF Rooms
<1>5. OpenTables(r) = OpenTables(room)
  BY <1>2 DEF OpenTables
<1>6. \A d \in D : r.at[d] = IF d = e THEN place ELSE room.at[d]
  BY <1>1, <1>2
<1>7. ASSUME NEW d \in D, r.at[d] # NoSeat
      PROVE  SeatIsSound(r, D, d)
  <2>1. CASE d = e
    BY <1>2, <1>3, <1>5, <1>6, <2>1 DEF SeatIsSound
  <2>2. CASE d # e
    <3>1. SeatIsSound(room, D, d)
      BY <1>6, <1>7, <2>2 DEF Sound
    <3> QED
      BY <1>2, <1>5, <1>6, <2>2, <3>1 DEF SeatIsSound
  <2> QED
    BY <2>1, <2>2
<1>8. Sound(r, D)
  <2>1. r.clash = FALSE
    BY <1>2
  <2> HIDE DEF r
  <2> QED
    BY <1>4, <1>7, <2>1 DEF Sound
<1> QED
  BY <1>2, <1>8

\* Whoever stands up leaves the room as sound.
LEMMA ReleaseSeats ==
  ASSUME NEW D, NEW room, Sound(room, D), NEW S
  PROVE  /\ Sound(Release(room, S), D)
         /\ Release(room, S).tables = room.tables
         /\ Release(room, S).at = [d \in D |-> IF d \in S THEN NoSeat ELSE room.at[d]]
<1> DEFINE r == Release(room, S)
<1>1. room \in Rooms(D) /\ room.clash = FALSE /\ DOMAIN room.at = D
  BY DEF Sound, Rooms
<1>2. r = [tables |-> room.tables,
           at |-> [d \in D |-> IF d \in S THEN NoSeat ELSE room.at[d]], clash |-> FALSE]
  <2> DEFINE at == [d \in D |-> IF d \in S THEN NoSeat ELSE room.at[d]]
  <2>1. r = [room EXCEPT !.at = at]
    BY <1>1, Zenon DEF Release
  <2> HIDE DEF at
  <2>2. r = [tables |-> room.tables, at |-> at, clash |-> room.clash]
    BY <1>1, <2>1 DEF Rooms
  <2> QED
    BY <1>1, <2>2 DEF at
<1>3. r \in Rooms(D)
  BY <1>1, <1>2 DEF Rooms, NoSeat, Place
<1>4. OpenTables(r) = OpenTables(room)
  BY <1>2 DEF OpenTables
<1>5. ASSUME NEW d \in D, r.at[d] # NoSeat
      PROVE  SeatIsSound(r, D, d)
  <2>1. d \notin S /\ r.at[d] = room.at[d]
    BY <1>2, <1>5
  <2>2. SeatIsSound(room, D, d)
    BY <1>5, <2>1 DEF Sound
  <2>3. \A o \in D \ {d} : r.at[o] # r.at[d]
    BY <1>2, <1>5, <2>1, <2>2 DEF SeatIsSound
  <2> QED
    BY <1>2, <1>4, <2>1, <2>2, <2>3 DEF SeatIsSound
<1>6. Sound(r, D)
  BY <1>2, <1>3, <1>5 DEF Sound
<1> QED
  BY <1>2, <1>6

-----------------------------------------------------------------------------
(* Plans.                                                                  *)

\* What the moves of a plan made so far do to the room it was started for.
PlanOk(plan, start, D) ==
  /\ Sound(plan.room, D)
  /\ plan.moves \in Seq([entry : D, place : [table : Nat, seat : Nat]])
  /\ ApplyMoves(start, plan.moves) = plan.room
  /\ plan.room.tables = start.tables
  /\ SeatedIn(plan.room) = SeatedIn(start)

\* One player of one table goes to another.
OneRelocated(before, after, from, to) ==
  \E e \in Occupants(before, from) :
    /\ Occupants(after, from) = Occupants(before, from) \ {e}
    /\ Occupants(after, to) = Occupants(before, to) \cup {e}
    /\ \A t : t # from /\ t # to => Occupants(after, t) = Occupants(before, t)

\* The plan says who left the table.
MoveIsWritten(plan, next, from) ==
  \E e \in Occupants(plan.room, from), place \in [table : Nat, seat : Nat] :
    /\ next.moves = Append(plan.moves, [entry |-> e, place |-> place])
    /\ Occupants(next.room, from) = Occupants(plan.room, from) \ {e}

\* A relocation keeps the plan and moves one player.
LEMMA RelocateOk ==
  ASSUME NEW D, IsFiniteSet(D), NEW plan, NEW start, PlanOk(plan, start, D),
         NEW from, NEW to \in OpenTables(plan.room), HasFreeSeat(plan.room, to),
         from # to, from # 0, Occupants(plan.room, from) # {}
  PROVE  /\ PlanOk(Relocate(plan, from, to), start, D)
         /\ OneRelocated(plan.room, Relocate(plan, from, to).room, from, to)
         /\ MoveIsWritten(plan, Relocate(plan, from, to), from)
<1> DEFINE room == plan.room
           next == Relocate(plan, from, to)
           sitting == Occupants(room, from)
           Highest(e) == \A o \in sitting : room.at[o].seat <= room.at[e].seat
           player == CHOOSE e \in sitting : Highest(e)
           seat == FirstFreeSeat(room, to)
           place == Place(to, seat)
           move == [entry |-> player, place |-> place]
<1>1. /\ room \in Rooms(D) /\ Sound(room, D) /\ room.clash = FALSE /\ DOMAIN room.at = D
      /\ room.at \in [D -> [table : Nat, seat : Nat]]
  BY DEF PlanOk, Sound, Rooms
<1>2. \A e \in sitting : /\ e \in D /\ room.at[e] # NoSeat /\ from \in OpenTables(room)
                         /\ room.at[e].seat \in 1 .. room.tables[from].capacity
  <2> SUFFICES ASSUME NEW e \in sitting
               PROVE  /\ e \in D /\ room.at[e] # NoSeat /\ from \in OpenTables(room)
                      /\ room.at[e].seat \in 1 .. room.tables[from].capacity
    OBVIOUS
  <2>1. e \in D /\ room.at[e].table = from
    BY <1>1 DEF Occupants
  <2>2. room.at[e] # NoSeat
    BY <2>1 DEF NoSeat, Place
  <2>3. SeatIsSound(room, D, e)
    BY <1>1, <2>1, <2>2 DEF Sound
  <2> QED
    BY <2>1, <2>2, <2>3 DEF SeatIsSound
<1>3. player \in sitting
  <2> DEFINE Taken == {room.at[e].seat : e \in sitting}
             c == room.tables[from].capacity
  <2>1. c \in Nat
    <3>1. from \in OpenTables(room)
      BY <1>2
    <3> QED
      BY <1>1, <3>1, RoomTypes DEF OpenTables
  <2> HIDE DEF c
  <2>2. Taken \in SUBSET Nat /\ Taken # {} /\ \A x \in Taken : x <= c
    BY <1>2, <2>1 DEF c
  <2>3. Max(Taken) \in Taken /\ \A x \in Taken : x <= Max(Taken)
    <3> HIDE DEF Taken
    <3> QED BY <2>1, <2>2, LargestOf
  <2>4. PICK e \in sitting : room.at[e].seat = Max(Taken)
    BY <2>3
  <2>5. Highest(e)
    BY <2>3, <2>4
  <2> HIDE DEF Highest
  <2> QED
    BY <2>4, <2>5
<1>4. seat \in 1 .. room.tables[to].capacity /\ \A o \in D : room.at[o] # place
  BY <1>1, FreeSeat
<1>5. /\ next.room = Moved(room, player, place)
      /\ next.moves = Append(plan.moves, move)
  BY Zenon DEF Relocate
<1> HIDE DEF player, seat, place
<1>6. player \in D
  BY <1>2, <1>3
<1> DEFINE released == Release(room, {player})
           after == TakePlace(released, player, place)
<1>7. /\ Sound(released, D) /\ released.tables = room.tables
      /\ released.at = [d \in D |-> IF d \in {player} THEN NoSeat ELSE room.at[d]]
  BY <1>1, ReleaseSeats
<1>8. /\ to \in OpenTables(released) /\ to \in Nat /\ to # 0
      /\ room.tables[to].capacity \in Nat
  <2>1. /\ OpenTables(room) \in SUBSET (1 .. Len(room.tables)) /\ Len(room.tables) \in Nat
        /\ DOMAIN room.tables = 1 .. Len(room.tables)
        /\ \A t \in DOMAIN room.tables : room.tables[t].capacity \in Nat
    BY <1>1, RoomTypes
  <2>2. OpenTables(released) = OpenTables(room)
    BY <1>7 DEF OpenTables
  <2> QED
    BY <2>1, <2>2
<1>9. \A o \in D : released.at[o] # place
  BY <1>4, <1>7, <1>8 DEF place, NoSeat, Place
<1>10. /\ Sound(after, D) /\ after.tables = released.tables
       /\ after.at = [released.at EXCEPT ![player] = place]
  <2> HIDE DEF released, after
  <2>1. seat \in 1 .. released.tables[to].capacity
    BY <1>4, <1>7
  <2>2. \A o \in D : released.at[o] # Place(to, seat)
    BY <1>9 DEF place
  <2> QED
    BY <1>6, <1>7, <1>8, <2>1, <2>2, TakeFreeSeat DEF place, after
<1> HIDE DEF released, after
<1>11. after.at = [room.at EXCEPT ![player] = place]
  BY <1>1, <1>6, <1>7, <1>10
<1>12. after = next.room
  <2>1. after \in Rooms(D) /\ after.clash = FALSE
    BY <1>10 DEF Sound
  <2>2. after = [tables |-> after.tables, at |-> after.at, clash |-> after.clash]
    BY <2>1 DEF Rooms
  <2>3. next.room = [room EXCEPT !.at = [room.at EXCEPT ![player] = place]]
    BY <1>5 DEF Moved
  <2>4. room = [tables |-> room.tables, at |-> room.at, clash |-> room.clash]
    BY <1>1 DEF Rooms
  <2> HIDE DEF room, next
  <2> QED
    BY <1>1, <1>7, <1>10, <1>11, <2>1, <2>2, <2>3, <2>4
<1>13. move \in [entry : D, place : [table : Nat, seat : Nat]]
  <2>1. seat \in Nat
    BY <1>4, <1>8
  <2> QED
    BY <1>6, <1>8, <2>1 DEF place, Place
<1>14. ApplyMoves(start, next.moves) = next.room
  <2>1. ApplyMoves(start, Append(plan.moves, move))
          = TakePlace(Release(ApplyMoves(start, plan.moves), {move.entry}), move.entry, move.place)
    <3> DEFINE X == [entry : D, place : [table : Nat, seat : Nat]]
    <3>1. plan.moves \in Seq(X) /\ move \in X
      BY <1>13 DEF PlanOk
    <3> HIDE DEF X, move
    <3> QED
      BY <3>1, ApplyOneMore
  <2>2. ApplyMoves(start, plan.moves) = room /\ move.entry = player /\ move.place = place
    BY DEF PlanOk
  <2>3. ApplyMoves(start, next.moves) = after
    BY <1>5, <2>1, <2>2, Zenon DEF after, released
  <2> QED
    BY <1>12, <2>3
<1> HIDE DEF move
<1>15. SeatedIn(next.room) = SeatedIn(start)
  <2>1. SeatedIn(after) = SeatedIn(room)
    <3>1. room.at[player] # NoSeat /\ place # NoSeat
      BY <1>2, <1>3, <1>8 DEF place, NoSeat, Place
    <3> HIDE DEF room
    <3> QED
      BY <1>1, <1>6, <1>11, <3>1 DEF SeatedIn
  <2> QED
    BY <1>12, <2>1 DEF PlanOk
<1>16. PlanOk(next, start, D)
  <2>1. next.room.tables = start.tables
    BY <1>7, <1>10, <1>12 DEF PlanOk
  <2>2. next.moves \in Seq([entry : D, place : [table : Nat, seat : Nat]])
    <3> DEFINE X == [entry : D, place : [table : Nat, seat : Nat]]
    <3>1. plan.moves \in Seq(X) /\ move \in X
      BY <1>13 DEF PlanOk
    <3> HIDE DEF X, next
    <3>2. next.moves \in Seq(X)
      BY <1>5, <3>1
    <3> QED
      BY <3>2 DEF X
  <2>3. Sound(next.room, D)
    BY <1>10, <1>12
  <2> HIDE DEF next
  <2> QED
    BY <1>14, <1>15, <2>1, <2>2, <2>3 DEF PlanOk
<1>17. OneRelocated(room, next.room, from, to) /\ MoveIsWritten(plan, next, from)
  <2>1. \A d \in D : next.room.at[d] = IF d = player THEN place ELSE room.at[d]
    BY <1>1, <1>11, <1>12
  <2>2. DOMAIN next.room.at = D /\ place.table = to
    BY <1>1, <1>11, <1>12 DEF place, Place
  <2>3. room.at[player].table = from
    BY <1>3 DEF Occupants
  <2> HIDE DEF next, room, sitting
  <2>4. \A t : Occupants(next.room, t)
                 = {d \in D : IF d = player THEN t = to ELSE room.at[d].table = t}
    BY <2>1, <2>2 DEF Occupants
  <2>5. \A t : Occupants(room, t) = {d \in D : room.at[d].table = t}
    BY <1>1 DEF Occupants
  <2>6. player \in Occupants(room, from)
    BY <1>3 DEF sitting
  <2>7. /\ Occupants(next.room, from) = Occupants(room, from) \ {player}
        /\ Occupants(next.room, to) = Occupants(room, to) \cup {player}
    BY <1>6, <2>3, <2>4, <2>5
  <2>8. \A t : t # from /\ t # to => Occupants(next.room, t) = Occupants(room, t)
    BY <1>6, <2>3, <2>4, <2>5, ZenonT(60)
  <2>9. OneRelocated(room, next.room, from, to)
    BY <2>6, <2>7, <2>8 DEF OneRelocated
  <2>10. /\ next.moves = Append(plan.moves, [entry |-> player, place |-> place])
         /\ place \in [table : Nat, seat : Nat]
    BY <1>5, <1>13 DEF move
  <2>11. MoveIsWritten(plan, next, from)
    BY <2>6, <2>7, <2>10 DEF MoveIsWritten, room
  <2> QED
    BY <2>9, <2>11
<1> QED
  BY <1>16, <1>17

\* A turn of the balance keeps the plan, and empties no table.
LEMMA BalanceOnceOk ==
  ASSUME NEW D, IsFiniteSet(D), NEW plan, NEW start, PlanOk(plan, start, D),
         NEW open \in SUBSET OpenTables(start), open # {}
  PROVE  /\ PlanOk(BalanceOnce(plan, open), start, D)
         /\ Tidy(plan.room) => Tidy(BalanceOnce(plan, open).room)
<1> DEFINE room == plan.room
           source == Fullest(room, open)
           targets == {t \in open \ {source} : HasFreeSeat(room, t)}
           target == Emptiest(room, targets)
           level == \/ targets = {}
                    \/ Occupancy(room, source) - Occupancy(room, target) <= MaxOccupancyGap
           next == Relocate(plan, source, target)
<1>1. BalanceOnce(plan, open) = IF level THEN plan ELSE next
  BY Zenon DEF BalanceOnce
<1>2. /\ room \in Rooms(D) /\ open \in SUBSET OpenTables(room)
      /\ OpenTables(room) = OpenTables(start)
  BY DEF PlanOk, Sound, OpenTables
<1>3. /\ open \in SUBSET (1 .. Len(room.tables)) /\ Len(room.tables) \in Nat
      /\ Cardinality(D) \in Nat
      /\ \A t : Occupancy(room, t) \in Nat /\ Occupancy(room, t) <= Cardinality(D)
  BY <1>2, RoomTypes, FS_CardinalityType
<1>4. source \in open
  <2> HIDE DEF room
  <2> QED BY <1>3, FullestOf
<1>5. CASE level
  BY <1>1, <1>5
<1>6. CASE ~level
  <2>1. targets \in SUBSET (1 .. Len(room.tables)) /\ targets # {}
    BY <1>3, <1>6
  <2>2. target \in targets
    <3> HIDE DEF targets, room
    <3> QED BY <1>3, <2>1, EmptiestOf
  <2> HIDE DEF source, target
  <2>3. /\ target \in OpenTables(room) /\ HasFreeSeat(room, target) /\ source # target
        /\ source # 0
    BY <1>2, <1>3, <1>4, <2>2
  <2>4. Occupancy(room, source) > 1
    <3>1. Occupancy(room, source) - Occupancy(room, target) > 1
      BY <1>3, <1>6 DEF MaxOccupancyGap
    <3>2. Occupancy(room, source) \in Nat /\ Occupancy(room, target) \in Nat
      BY <1>3
    <3> QED
      BY <3>1, <3>2
  <2>5. IsFiniteSet(Occupants(room, source))
    BY <1>2, RoomTypes
  <2>6. Occupants(room, source) # {}
    BY <2>4, <2>5, FS_EmptySet DEF Occupancy
  <2>7. PlanOk(next, start, D) /\ OneRelocated(room, next.room, source, target)
    BY <2>3, <2>6, RelocateOk
  <2>8. ASSUME Tidy(room)
        PROVE  Tidy(next.room)
    <3>1. OpenTables(next.room) = OpenTables(room)
      BY <2>7, <1>2 DEF PlanOk, OpenTables
    <3>2. PICK e \in Occupants(room, source) :
            /\ Occupants(next.room, source) = Occupants(room, source) \ {e}
            /\ Occupants(next.room, target) = Occupants(room, target) \cup {e}
            /\ \A t : t # source /\ t # target => Occupants(next.room, t) = Occupants(room, t)
      BY <2>7 DEF OneRelocated
    <3>3. Occupants(room, source) # {e}
      <4>1. Cardinality({e}) = 1
        BY FS_Singleton
      <4> QED
        BY <2>4, <4>1 DEF Occupancy
    <3> HIDE DEF room, next
    <3> QED
      BY <2>8, <3>1, <3>2, <3>3 DEF Tidy
  <2> HIDE DEF next
  <2> QED
    BY <1>1, <1>6, <2>7, <2>8
<1> QED
  BY <1>5, <1>6

\* A balance keeps the plan, and empties no table.
LEMMA BalanceOk ==
  ASSUME NEW D, IsFiniteSet(D), NEW plan, NEW start, PlanOk(plan, start, D),
         NEW open \in SUBSET OpenTables(start), open # {}
  PROVE  /\ PlanOk(Balance(plan, open), start, D)
         /\ Tidy(plan.room) => Tidy(Balance(plan, open).room)
<1> DEFINE n == Cardinality(DOMAIN plan.room.at)
<1>1. n \in Nat
  <2>1. DOMAIN plan.room.at = D
    BY DEF PlanOk, Sound, Rooms
  <2> QED
    BY <2>1, FS_CardinalityType
<1>2. PICK st : /\ st[0] = plan
                /\ \A k \in 1 .. n : st[k] = BalanceOnce(st[k - 1], open)
                /\ Balance(plan, open) = st[n]
  BY <1>1, BalanceChain
<1> HIDE DEF n
<1> DEFINE Good(p) == PlanOk(p, start, D) /\ (Tidy(plan.room) => Tidy(p.room))
           F == {k \in Nat : k <= n => Good(st[k])}
<1>3. 0 \in F
  BY <1>2
<1>4. \A k \in Nat : k \in F => k + 1 \in F
  <2> SUFFICES ASSUME NEW k \in F, k + 1 <= n PROVE Good(st[k + 1])
    OBVIOUS
  <2>1. Good(st[k]) /\ k \in Nat
    BY <1>1
  <2>2. st[k + 1] = BalanceOnce(st[k], open)
    <3>1. k + 1 \in 1 .. n /\ (k + 1) - 1 = k
      BY <1>1
    <3> QED
      BY <1>2, <3>1
  <2>3. /\ PlanOk(BalanceOnce(st[k], open), start, D)
        /\ Tidy(st[k].room) => Tidy(BalanceOnce(st[k], open).room)
    BY <2>1, BalanceOnceOk
  <2> HIDE DEF F
  <2> QED
    BY <2>1, <2>2, <2>3
<1> HIDE DEF F, Good
<1>5. Nat \subseteq F
  BY <1>3, <1>4, NatSetInduction
<1>6. Good(st[n])
  BY <1>1, <1>5 DEF F
<1> QED
  BY <1>2, <1>6 DEF Good

-----------------------------------------------------------------------------
(* Breaking a table.                                                       *)

\* The capacity of a set of tables is a sum over it.
LEMMA CapacityIsSum ==
  ASSUME NEW room, NEW S
  PROVE  Capacity(room, S) = SumFunctionOnSet([t \in S |-> room.tables[t].capacity], S)
<1> DEFINE f == [t \in S |-> room.tables[t].capacity]
           One(g, T) == IF T = {} THEN 0
                        ELSE room.tables[FoldPick(T)].capacity + g[T \ {FoldPick(T)}]
           Fold1(g) == [T \in SUBSET S |-> One(g, T)]
           Fold2(g) == [T \in SUBSET S |-> SumStep(f, g, T)]
<1>1. \A g : \A T \in SUBSET S : One(g, T) = SumStep(f, g, T)
  <2>1. \A T \in SUBSET S : T # {} => FoldPick(T) \in S
    BY DEF FoldPick
  <2> QED
    BY <2>1 DEF SumStep
<1>2. \A g : Fold1(g) = Fold2(g)
  <2> HIDE DEF One, f
  <2> QED BY <1>1
<1>3. (CHOOSE g : g = Fold1(g)) = (CHOOSE g : g = Fold2(g))
  <2> HIDE DEF Fold1, Fold2
  <2> QED BY <1>2, Zenon
<1>4. Capacity(room, S) = (CHOOSE g : g = Fold1(g))[S]
  BY Zenon DEF Capacity, MapThenSumSet, MapThenFoldSet, FoldPick
<1>5. SumFunctionOnSet(f, S) = (CHOOSE g : g = Fold2(g))[S]
  BY Zenon DEF SumFunctionOnSet, FoldFunctionOnSet, MapThenFoldSet, SumStep, FoldPick
<1> HIDE DEF Fold1, Fold2, f
<1> QED
  BY <1>3, <1>4, <1>5 DEF f

\* The players at a set of tables.
PlayersAt(room, S) == UNION {Occupants(room, t) : t \in S}

\* Tables that are all full hold as many players as they have seats.
LEMMA FullTables ==
  ASSUME NEW D, IsFiniteSet(D), NEW room \in Rooms(D),
         NEW S \in SUBSET (DOMAIN room.tables), \A t \in S : ~HasFreeSeat(room, t)
  PROVE  /\ Capacity(room, S) \in Int
         /\ IsFiniteSet(PlayersAt(room, S))
         /\ Cardinality(PlayersAt(room, S)) >= Capacity(room, S)
<1> DEFINE f == [t \in S |-> room.tables[t].capacity]
           Players(T) == PlayersAt(room, T)
           F == {T \in SUBSET S : Cardinality(Players(T)) >= SumFunctionOnSet(f, T)}
<1>1. IsFiniteSet(S) /\ \A t \in S : f[t] \in Nat /\ f[t] <= Occupancy(room, t)
  <2>1. IsFiniteSet(DOMAIN room.tables)
    <3>1. DOMAIN room.tables = 1 .. Len(room.tables) /\ Len(room.tables) \in Nat
      BY RoomTypes
    <3> QED
      BY <3>1, FS_Interval, 1 \in Int, Len(room.tables) \in Int
  <2>2. IsFiniteSet(S)
    BY <2>1, FS_Subset
  <2>3. ASSUME NEW t \in S
        PROVE  f[t] \in Nat /\ f[t] <= Occupancy(room, t)
    <3>1. room.tables[t].capacity \in Nat /\ Occupancy(room, t) \in Nat
      BY RoomTypes
    <3> QED
      BY <3>1 DEF HasFreeSeat
  <2> QED
    BY <2>2, <2>3
<1> HIDE DEF f
<1>2. \A T \in SUBSET S : /\ IsFiniteSet(T) /\ SumFunctionOnSet(f, T) \in Int
                          /\ Players(T) \in SUBSET D /\ IsFiniteSet(Players(T))
                          /\ Cardinality(Players(T)) \in Nat
  <2> SUFFICES ASSUME NEW T \in SUBSET S
               PROVE  /\ IsFiniteSet(T) /\ SumFunctionOnSet(f, T) \in Int
                      /\ Players(T) \in SUBSET D /\ IsFiniteSet(Players(T))
                      /\ Cardinality(Players(T)) \in Nat
    OBVIOUS
  <2>1. IsFiniteSet(T)
    BY <1>1, FS_Subset
  <2>2. \A t \in T : f[t] \in Int
    BY <1>1
  <2>3. SumFunctionOnSet(f, T) \in Int
    BY <2>1, <2>2, SumType
  <2>4. Players(T) \in SUBSET D
    BY RoomTypes DEF PlayersAt
  <2> QED
    BY <2>1, <2>3, <2>4, FS_Subset, FS_CardinalityType
<1>3. {} \in F
  <2>1. SumFunctionOnSet(f, {}) = 0
    BY SumEmpty
  <2> HIDE DEF Players
  <2> QED
    BY <1>2, <2>1
<1>4. \A T \in SUBSET S : \A x \in S \ T : T \in F => T \cup {x} \in F
  <2> SUFFICES ASSUME NEW T \in SUBSET S, NEW x \in S \ T, T \in F
               PROVE  T \cup {x} \in F
    OBVIOUS
  <2>1. SumFunctionOnSet(f, T \cup {x}) = SumFunctionOnSet(f, T) + f[x]
    <3>1. \A t \in T : f[t] \in Int
      BY <1>1
    <3>2. f[x] \in Int /\ IsFiniteSet(T) /\ x \notin T
      BY <1>1, <1>2
    <3> QED
      BY <3>1, <3>2, SumAdd
  <2>2. Players(T \cup {x}) = Players(T) \cup Occupants(room, x)
    BY DEF PlayersAt
  <2>3. Players(T) \cap Occupants(room, x) = {}
    BY DEF PlayersAt, Occupants
  <2>4. IsFiniteSet(Occupants(room, x)) /\ Cardinality(Occupants(room, x)) \in Nat
    BY RoomTypes DEF Occupancy
  <2>5. Cardinality(Players(T \cup {x}))
          = Cardinality(Players(T)) + Cardinality(Occupants(room, x))
    <3>1. Cardinality(Players(T) \cup Occupants(room, x))
            = Cardinality(Players(T)) + Cardinality(Occupants(room, x))
              - Cardinality(Players(T) \cap Occupants(room, x))
      <4> HIDE DEF Players
      <4> QED BY <1>2, <2>4, FS_Union
    <3>2. Cardinality(Players(T) \cap Occupants(room, x)) = 0
      BY <2>3, FS_EmptySet
    <3>3. Cardinality(Players(T \cup {x})) = Cardinality(Players(T) \cup Occupants(room, x))
      BY <2>2
    <3>4. Cardinality(Players(T)) \in Nat
      BY <1>2
    <3> HIDE DEF Players
    <3> QED
      BY <2>4, <3>1, <3>2, <3>3, <3>4
  <2>6. f[x] \in Nat /\ f[x] <= Cardinality(Occupants(room, x))
    BY <1>1 DEF Occupancy
  <2>7. Cardinality(Players(T)) >= SumFunctionOnSet(f, T)
    OBVIOUS
  <2> HIDE DEF Players
  <2> QED
    BY <1>2, <2>1, <2>4, <2>5, <2>6, <2>7
<1>5. S \in F
  <2> HIDE DEF F
  <2> QED BY <1>1, <1>3, <1>4, SubsetInduction
<1>6. Capacity(room, S) = SumFunctionOnSet(f, S)
  BY CapacityIsSum DEF f
<1> QED
  BY <1>2, <1>5, <1>6

\* The players at the open tables are those who have a seat.
LEMMA PlayersAreSeated ==
  ASSUME NEW D, IsFiniteSet(D), NEW room, Sound(room, D)
  PROVE  PlayersAt(room, OpenTables(room)) = SeatedIn(room)
<1>1. DOMAIN room.at = D /\ room \in Rooms(D)
  BY DEF Sound, Rooms
<1>2. 0 \notin OpenTables(room)
  <2>1. OpenTables(room) \in SUBSET (1 .. Len(room.tables)) /\ Len(room.tables) \in Nat
    BY <1>1, RoomTypes
  <2> QED
    BY <2>1
<1>3. \A e \in D : room.at[e] # NoSeat => room.at[e].table \in OpenTables(room)
  BY DEF Sound, SeatIsSound
<1>4. \A e \in D : room.at[e].table \in OpenTables(room) => room.at[e] # NoSeat
  BY <1>2 DEF NoSeat, Place
<1> QED
  BY <1>1, <1>3, <1>4 DEF PlayersAt, Occupants, SeatedIn

\* While players are left at the table that is broken, another has a seat for them.
LEMMA SurvivorHasSeat ==
  ASSUME NEW D, IsFiniteSet(D), NEW room, Sound(room, D), NEW now, Sound(now, D),
         now.tables = room.tables, SeatedIn(now) = SeatedIn(room),
         NEW doomed \in OpenTables(room), Occupants(now, doomed) # {},
         Breaks(room, OpenTables(room) \ {doomed})
  PROVE  \E t \in OpenTables(room) \ {doomed} : HasFreeSeat(now, t)
<1> DEFINE survivors == OpenTables(room) \ {doomed}
<1> SUFFICES ASSUME \A t \in survivors : ~HasFreeSeat(now, t) PROVE FALSE
  OBVIOUS
<1>1. now \in Rooms(D) /\ room \in Rooms(D) /\ DOMAIN now.at = D
  BY DEF Sound, Rooms
<1>2. OpenTables(now) = OpenTables(room)
  BY DEF OpenTables
<1>3. survivors \in SUBSET DOMAIN now.tables
  BY <1>2 DEF OpenTables
<1>4. /\ Capacity(now, survivors) \in Int
      /\ IsFiniteSet(PlayersAt(now, survivors))
      /\ Cardinality(PlayersAt(now, survivors)) >= Capacity(now, survivors)
  <2> HIDE DEF survivors
  <2> QED BY <1>1, <1>3, FullTables
<1>5. Capacity(now, survivors) = Capacity(room, survivors)
  <2> HIDE DEF survivors
  <2> QED BY CapacityIsSum
<1>6. PICK e : e \in Occupants(now, doomed)
  OBVIOUS
<1>7. e \in SeatedIn(now) /\ SeatedIn(now) \in SUBSET D
  <2>1. PlayersAt(now, OpenTables(now)) = SeatedIn(now)
    BY PlayersAreSeated
  <2> QED
    BY <1>1, <1>2, <1>6, <2>1 DEF PlayersAt, SeatedIn
<1>8. PlayersAt(now, survivors) \subseteq SeatedIn(now) \ {e}
  <2>1. PlayersAt(now, OpenTables(now)) = SeatedIn(now)
    BY PlayersAreSeated
  <2>2. e \notin PlayersAt(now, survivors)
    BY <1>6 DEF PlayersAt, Occupants
  <2> QED
    BY <1>2, <2>1, <2>2 DEF PlayersAt
<1>9. IsFiniteSet(SeatedIn(now)) /\ Cardinality(SeatedIn(now)) \in Nat
  BY <1>7, FS_Subset, FS_CardinalityType
<1>10. IsFiniteSet(SeatedIn(now) \ {e})
       /\ Cardinality(SeatedIn(now) \ {e}) = Cardinality(SeatedIn(now)) - 1
  BY <1>7, <1>9, FS_RemoveElement
<1>11. Cardinality(PlayersAt(now, survivors)) <= Cardinality(SeatedIn(now) \ {e})
  <2> HIDE DEF survivors
  <2> QED BY <1>8, <1>10, FS_Subset
<1>12. Cardinality(SeatedIn(room)) <= Capacity(room, survivors)
  <2>1. PlayersAt(room, OpenTables(room)) = SeatedIn(room)
    BY PlayersAreSeated
  <2>2. Cardinality(PlayersAt(room, OpenTables(room))) <= Capacity(room, survivors)
    BY DEF Breaks, PlayersAt
  <2> HIDE DEF survivors
  <2> QED
    BY <2>1, <2>2
<1>13. Cardinality(PlayersAt(now, survivors)) \in Nat
  <2> HIDE DEF survivors
  <2> QED BY <1>4, FS_CardinalityType
<1> HIDE DEF survivors
<1>14. SeatedIn(now) = SeatedIn(room)
  OBVIOUS
<1> QED
  BY <1>4, <1>5, <1>9, <1>10, <1>11, <1>12, <1>13, <1>14

\* A turn of the break finds a seat for a player of the table.
LEMMA BreakTurn ==
  ASSUME NEW D, IsFiniteSet(D), NEW room, Sound(room, D), NEW plan, PlanOk(plan, room, D),
         NEW doomed \in OpenTables(room), Breaks(room, OpenTables(room) \ {doomed}),
         Occupants(plan.room, doomed) # {}, NEW free,
         free = {t \in OpenTables(room) \ {doomed} : HasFreeSeat(plan.room, t)}
  PROVE  /\ free # {} /\ Emptiest(plan.room, free) \in free
         /\ PlanOk(Relocate(plan, doomed, Emptiest(plan.room, free)), room, D)
         /\ OneRelocated(plan.room, Relocate(plan, doomed, Emptiest(plan.room, free)).room,
                         doomed, Emptiest(plan.room, free))
         /\ MoveIsWritten(plan, Relocate(plan, doomed, Emptiest(plan.room, free)), doomed)
<1> DEFINE now == plan.room
           to == Emptiest(now, free)
<1>1. OpenTables(room) \in SUBSET (1 .. Len(room.tables)) /\ Len(room.tables) \in Nat
  <2>1. room \in Rooms(D)
    BY DEF Sound
  <2> QED
    BY <2>1, RoomTypes
<1>2. /\ Sound(now, D) /\ now.tables = room.tables /\ SeatedIn(now) = SeatedIn(room)
      /\ now \in Rooms(D)
  BY DEF PlanOk, Sound
<1>3. \A t : Occupancy(now, t) \in Nat
  BY <1>2, RoomTypes
<1>4. free # {}
  BY <1>2, SurvivorHasSeat
<1>5. to \in free
  <2>1. free \in SUBSET (1 .. Len(room.tables))
    BY <1>1
  <2> HIDE DEF now
  <2> QED BY <1>1, <1>3, <1>4, <2>1, EmptiestOf
<1> HIDE DEF to
<1>6. to \in OpenTables(now) /\ HasFreeSeat(now, to) /\ doomed # to /\ doomed # 0
  <2>1. OpenTables(now) = OpenTables(room)
    BY <1>2 DEF OpenTables
  <2>2. doomed # 0
    BY <1>1
  <2> QED
    BY <1>5, <2>1, <2>2
<1>7. /\ PlanOk(Relocate(plan, doomed, to), room, D)
      /\ OneRelocated(now, Relocate(plan, doomed, to).room, doomed, to)
      /\ MoveIsWritten(plan, Relocate(plan, doomed, to), doomed)
  BY <1>6, RelocateOk
<1> QED
  BY <1>4, <1>5, <1>7 DEF to

\* The break of a table keeps the plan, and leaves nobody there.
LEMMA BreakTableOk ==
  ASSUME NEW D, IsFiniteSet(D), NEW room, Sound(room, D),
         NEW plan, PlanOk(plan, room, D), plan.room = room,
         NEW doomed \in OpenTables(room), Breaks(room, OpenTables(room) \ {doomed})
  PROVE  /\ PlanOk(BreakTable(plan, doomed, OpenTables(room) \ {doomed}), room, D)
         /\ Occupants(BreakTable(plan, doomed, OpenTables(room) \ {doomed}).room, doomed) = {}
<1> DEFINE survivors == OpenTables(room) \ {doomed}
           n == Occupancy(room, doomed)
           free(r) == {t \in survivors : HasFreeSeat(r, t)}
<1>1. n \in Nat
  <2>1. room \in Rooms(D)
    BY DEF Sound
  <2> QED
    BY <2>1, RoomTypes
<1>2. PICK st : BreakStates(plan, doomed, survivors, n, st, BreakTable(plan, doomed, survivors))
  <2> HIDE DEF survivors
  <2>1. Occupancy(plan.room, doomed) = n
    OBVIOUS
  <2> QED
    BY <1>1, <2>1, BreakTableChain
<1> HIDE DEF n
<1> DEFINE Good(k) == PlanOk(st[k], room, D) /\ Occupancy(st[k].room, doomed) = n - k
           F == {k \in Nat : k <= n => Good(k)}
<1>3. 0 \in F
  BY <1>1, <1>2 DEF n, BreakStates
<1>4. \A k \in Nat : k \in F => k + 1 \in F
  <2> SUFFICES ASSUME NEW k \in F, k + 1 <= n PROVE Good(k + 1)
    OBVIOUS
  <2> DEFINE p == st[k]
             now == p.room
             to == Emptiest(now, free(now))
  <2>1. PlanOk(p, room, D) /\ Occupancy(now, doomed) = n - k /\ k \in Nat
    BY <1>1
  <2>2. st[k + 1] = Relocate(p, doomed, to)
    <3>1. k + 1 \in 1 .. n /\ (k + 1) - 1 = k
      BY <1>1
    <3> QED
      BY <1>2, <3>1 DEF BreakStates
  <2> HIDE DEF F, p
  <2>3. IsFiniteSet(Occupants(now, doomed)) /\ \A t : Occupancy(now, t) \in Nat
    <3>1. now \in Rooms(D)
      BY <2>1 DEF PlanOk, Sound
    <3> QED
      BY <3>1, RoomTypes
  <2>4. Occupants(now, doomed) # {}
    BY <1>1, <2>1, <2>3, FS_EmptySet DEF Occupancy
  <2>5. /\ PlanOk(Relocate(p, doomed, to), room, D)
        /\ OneRelocated(now, Relocate(p, doomed, to).room, doomed, to)
    BY <2>1, <2>4, BreakTurn
  <2> HIDE DEF to
  <2>6. Occupancy(st[k + 1].room, doomed) = n - (k + 1)
    <3>1. PICK e \in Occupants(now, doomed) :
            Occupants(st[k + 1].room, doomed) = Occupants(now, doomed) \ {e}
      BY <2>2, <2>5 DEF OneRelocated
    <3>2. Cardinality(Occupants(now, doomed) \ {e}) = Cardinality(Occupants(now, doomed)) - 1
      BY <2>3, FS_RemoveElement
    <3>3. Occupancy(st[k + 1].room, doomed) = Occupancy(now, doomed) - 1
      BY <3>1, <3>2 DEF Occupancy
    <3> HIDE DEF now
    <3> QED
      BY <1>1, <2>1, <3>3
  <2> QED
    BY <2>2, <2>5, <2>6
<1> HIDE DEF F, Good
<1>5. Nat \subseteq F
  BY <1>3, <1>4, NatSetInduction
<1>6. PlanOk(st[n], room, D) /\ Occupancy(st[n].room, doomed) = 0
  <2>1. Good(n)
    BY <1>1, <1>5 DEF F
  <2> QED
    BY <1>1, <2>1 DEF Good
<1>7. Occupants(st[n].room, doomed) = {}
  <2>1. st[n].room \in Rooms(D)
    BY <1>6 DEF PlanOk, Sound
  <2>2. IsFiniteSet(Occupants(st[n].room, doomed))
    BY <2>1, RoomTypes
  <2> QED
    BY <1>6, <2>2, FS_EmptySet DEF Occupancy
<1> QED
  BY <1>2, <1>6, <1>7 DEF BreakStates

\* A rebalance moves people from seat to seat; unless it breaks a table, it empties none.
LEMMA RebalanceOk ==
  ASSUME NEW D, IsFiniteSet(D), NEW room, Sound(room, D)
  PROVE  LET after == ApplyMoves(room, PlanRebalance(room))
             open == OpenTables(room)
         IN  /\ Sound(after, D)
             /\ after.tables = room.tables
             /\ SeatedIn(after) = SeatedIn(room)
             /\ Tidy(room) /\ ~Breaks(room, open \ {Emptiest(room, open)}) => Tidy(after)
<1> DEFINE open == OpenTables(room)
           doomed == Emptiest(room, open)
           survivors == open \ {doomed}
           start == [room |-> room, moves |-> <<>>]
           broken == BreakTable(start, doomed, survivors)
           Good(moves) ==
             /\ Sound(ApplyMoves(room, moves), D)
             /\ ApplyMoves(room, moves).tables = room.tables
             /\ SeatedIn(ApplyMoves(room, moves)) = SeatedIn(room)
<1>1. PlanRebalance(room) =
        IF Cardinality(open) < 2 THEN <<>>
        ELSE IF Breaks(room, survivors) THEN Balance(broken, survivors).moves
        ELSE Balance(start, open).moves
  BY Zenon DEF PlanRebalance
<1>2. PlanOk(start, room, D) /\ start.room = room
  <2>1. ApplyMoves(room, <<>>) = room
    BY ApplyNothing
  <2> QED
    BY <2>1 DEF PlanOk
<1>3. /\ room \in Rooms(D) /\ IsFiniteSet(open) /\ open \in SUBSET (1 .. Len(room.tables))
      /\ Len(room.tables) \in Nat /\ \A t : Occupancy(room, t) \in Nat
  <2>1. room \in Rooms(D)
    BY DEF Sound
  <2> QED
    BY <2>1, RoomTypes
<1> HIDE DEF start, broken
<1>4. \A plan : PlanOk(plan, room, D) =>
        Good(plan.moves) /\ ApplyMoves(room, plan.moves) = plan.room
  BY DEF PlanOk
<1>5. CASE Cardinality(open) < 2
  <2>1. PlanRebalance(room) = <<>>
    BY <1>1, <1>5
  <2>2. ApplyMoves(room, <<>>) = room
    BY ApplyNothing
  <2> QED
    BY <2>1, <2>2
<1>6. CASE ~(Cardinality(open) < 2)
  <2>1. open # {} /\ Cardinality(open) \in Nat
    BY <1>3, <1>6, FS_EmptySet, FS_CardinalityType
  <2>2. doomed \in open
    <3> HIDE DEF open
    <3> QED BY <1>3, <2>1, EmptiestOf
  <2>3. survivors # {}
    <3>1. Cardinality(survivors) = Cardinality(open) - 1
      <4> HIDE DEF open, doomed
      <4> QED BY <1>3, <2>2, FS_RemoveElement
    <3>2. Cardinality(survivors) # 0
      BY <1>6, <2>1, <3>1
    <3> QED
      BY <3>2, FS_EmptySet
  <2>4. CASE Breaks(room, survivors)
    <3>1. PlanOk(broken, room, D)
      <4> HIDE DEF doomed
      <4> QED BY <1>2, <2>2, <2>4, BreakTableOk DEF broken
    <3>2. PlanOk(Balance(broken, survivors), room, D)
      <4>1. survivors \in SUBSET OpenTables(room)
        OBVIOUS
      <4> HIDE DEF survivors
      <4> QED BY <2>3, <3>1, <4>1, BalanceOk
    <3>3. PlanRebalance(room) = Balance(broken, survivors).moves
      BY <1>1, <1>6, <2>4
    <3> HIDE DEF survivors, open
    <3> QED
      BY <1>4, <2>4, <3>2, <3>3 DEF survivors, open
  <2>5. CASE ~Breaks(room, survivors)
    <3>1. PlanOk(Balance(start, open), room, D) /\ (Tidy(room) => Tidy(Balance(start, open).room))
      BY <1>2, <2>1, BalanceOk
    <3>2. PlanRebalance(room) = Balance(start, open).moves
      BY <1>1, <1>6, <2>5
    <3>3. /\ Good(PlanRebalance(room))
          /\ ApplyMoves(room, PlanRebalance(room)) = Balance(start, open).room
      BY <1>4, <3>1, <3>2
    <3> QED
      BY <2>5, <3>1, <3>3
  <2> QED
    BY <2>4, <2>5
<1> QED
  BY <1>5, <1>6

-----------------------------------------------------------------------------
(* Balance.                                                                *)

\* The occupancies of a set of tables differ by one at most.
Level(room, S) == \A m, n \in S : Occupancy(room, m) <= Occupancy(room, n) + 1

\* So do those of all but one of them, which is as empty as any.
Nearly(room, S, x) ==
  /\ x \in S
  /\ \A m, n \in S \ {x} : Occupancy(room, m) <= Occupancy(room, n) + 1
  /\ \A t \in S : Occupancy(room, x) <= Occupancy(room, t)

\* There are no more tables than the players need.
Snug(room, c) ==
  Cardinality(OpenTables(room)) > 1 =>
    (Cardinality(OpenTables(room)) - 1) * c < Cardinality(SeatedIn(room))

Balanced(room, c) == Level(room, OpenTables(room)) /\ Snug(room, c)

\* No more players sit at a table than it has seats.
LEMMA OccupancyWithin ==
  ASSUME NEW D, IsFiniteSet(D), NEW room, Sound(room, D), NEW c \in Nat, Alike(room, c),
         NEW t \in OpenTables(room)
  PROVE  Occupancy(room, t) <= c
<1> DEFINE S == Occupants(room, t)
           seat == [e \in S |-> room.at[e].seat]
<1>1. /\ room \in Rooms(D) /\ DOMAIN room.at = D /\ t # 0 /\ t \in DOMAIN room.tables
      /\ room.at \in [D -> [table : Nat, seat : Nat]]
  <2>1. room \in Rooms(D)
    BY DEF Sound
  <2>2. 0 \notin DOMAIN room.tables
    BY <2>1, RoomTypes
  <2> QED
    BY <2>1, <2>2 DEF OpenTables, Rooms
<1>2. \A e \in S : /\ e \in D /\ room.at[e].table = t /\ SeatIsSound(room, D, e)
                   /\ room.at[e].seat \in 1 .. c
  <2> SUFFICES ASSUME NEW e \in S
               PROVE  /\ e \in D /\ room.at[e].table = t /\ SeatIsSound(room, D, e)
                      /\ room.at[e].seat \in 1 .. c
    OBVIOUS
  <2>1. e \in D /\ room.at[e].table = t
    BY <1>1 DEF Occupants
  <2>2. room.at[e] # NoSeat
    BY <1>1, <2>1 DEF NoSeat, Place
  <2>3. SeatIsSound(room, D, e)
    BY <2>1, <2>2 DEF Sound
  <2>4. room.tables[t].capacity = c
    BY <1>1 DEF Alike
  <2> QED
    BY <2>1, <2>3, <2>4 DEF SeatIsSound
<1>3. \A e, o \in S : room.at[e].seat = room.at[o].seat => e = o
  <2> SUFFICES ASSUME NEW e \in S, NEW o \in S, room.at[e].seat = room.at[o].seat, e # o
               PROVE  FALSE
    OBVIOUS
  <2>1. room.at[e] \in [table : Nat, seat : Nat] /\ room.at[o] \in [table : Nat, seat : Nat]
    BY <1>1, <1>2
  <2>2. room.at[e] = room.at[o]
    BY <1>2, <2>1
  <2> QED
    BY <1>2, <2>2 DEF SeatIsSound
<1>4. seat \in Injection(S, 1 .. c)
  <2> HIDE DEF S
  <2> QED BY <1>2, <1>3 DEF Injection, IsInjective
<1>5. IsFiniteSet(1 .. c) /\ Cardinality(1 .. c) = c
  BY FS_Interval, 1 \in Int, c \in Int
<1>6. Cardinality(S) <= c
  <2> HIDE DEF S, seat
  <2>1. Cardinality(S) <= Cardinality(1 .. c)
    BY <1>4, <1>5, FS_Injection
  <2> QED BY <1>5, <2>1
<1> QED
  BY <1>6 DEF Occupancy

\* One table more adds its players.
LEMMA PlayersOfOneMore ==
  ASSUME NEW D, IsFiniteSet(D), NEW room \in Rooms(D), NEW T, NEW x, x \notin T
  PROVE  /\ PlayersAt(room, T) \in SUBSET D /\ IsFiniteSet(PlayersAt(room, T))
         /\ Cardinality(PlayersAt(room, T)) \in Nat
         /\ Cardinality(PlayersAt(room, T \cup {x}))
              = Cardinality(PlayersAt(room, T)) + Occupancy(room, x)
<1> DEFINE P == PlayersAt(room, T)
           O == Occupants(room, x)
<1>1. P \in SUBSET D
  BY RoomTypes DEF PlayersAt
<1>2. O \in SUBSET D
  BY RoomTypes
<1>3. PlayersAt(room, T \cup {x}) = P \cup O
  BY DEF PlayersAt
<1>4. P \cap O = {}
  BY DEF PlayersAt, Occupants
<1> HIDE DEF P, O
<1>5. IsFiniteSet(P) /\ IsFiniteSet(O)
  BY <1>1, <1>2, FS_Subset
<1>6. Cardinality(P) \in Nat /\ Cardinality(O) \in Nat
  BY <1>5, FS_CardinalityType
<1>7. Cardinality(P \cup O) = Cardinality(P) + Cardinality(O) - Cardinality(P \cap O)
  BY <1>5, FS_Union
<1>8. Cardinality(P \cap O) = 0
  BY <1>4, FS_EmptySet
<1>9. Cardinality(P \cup O) = Cardinality(P) + Cardinality(O)
  BY <1>6, <1>7, <1>8
<1> QED
  BY <1>1, <1>3, <1>5, <1>6, <1>9 DEF P, O, Occupancy

\* As many products as tables.
LEMMA OneTimesMore ==
  ASSUME NEW k \in Nat, NEW b \in Nat
  PROVE  (k + 1) * b = k * b + b /\ k * b \in Nat
OBVIOUS

\* Tables of at most b players each.
LEMMA PlayersBounded ==
  ASSUME NEW D, IsFiniteSet(D), NEW room \in Rooms(D), NEW S, IsFiniteSet(S), NEW b \in Nat,
         \A t \in S : Occupancy(room, t) <= b
  PROVE  Cardinality(PlayersAt(room, S)) <= Cardinality(S) * b
<1> DEFINE F == {T \in SUBSET S : Cardinality(PlayersAt(room, T)) <= Cardinality(T) * b}
<1>1. {} \in F
  <2>1. PlayersAt(room, {}) = {}
    BY DEF PlayersAt
  <2>2. Cardinality({}) = 0
    BY FS_EmptySet
  <2>3. 0 <= 0 * b
    OBVIOUS
  <2> QED
    BY <2>1, <2>2, <2>3
<1>2. \A T \in SUBSET S : \A x \in S \ T : T \in F => T \cup {x} \in F
  <2> SUFFICES ASSUME NEW T \in SUBSET S, NEW x \in S \ T, T \in F
               PROVE  Cardinality(PlayersAt(room, T \cup {x})) <= Cardinality(T \cup {x}) * b
    OBVIOUS
  <2>1. IsFiniteSet(T) /\ x \notin T
    BY FS_Subset
  <2>2. Cardinality(T) \in Nat /\ Cardinality(T \cup {x}) = Cardinality(T) + 1
    BY <2>1, FS_AddElement, FS_CardinalityType
  <2>3. /\ Cardinality(PlayersAt(room, T)) \in Nat
        /\ Cardinality(PlayersAt(room, T \cup {x}))
              = Cardinality(PlayersAt(room, T)) + Occupancy(room, x)
    BY <2>1, PlayersOfOneMore
  <2>4. Occupancy(room, x) \in Nat /\ Occupancy(room, x) <= b
    BY RoomTypes
  <2>5. Cardinality(PlayersAt(room, T)) <= Cardinality(T) * b
    OBVIOUS
  <2> DEFINE k == Cardinality(T)
             prod == k * b
  <2>6. (k + 1) * b = prod + b /\ prod \in Nat
    BY <2>2, OneTimesMore
  <2>7. Cardinality(PlayersAt(room, T \cup {x})) <= prod + b
    <3>1. Cardinality(PlayersAt(room, T)) <= prod
      BY <2>5
    <3> HIDE DEF prod
    <3> QED
      BY ONLY <2>3, <2>4, <2>6, <3>1, b \in Nat
  <2>8. Cardinality(T \cup {x}) * b = prod + b
    <3> HIDE DEF prod
    <3> QED BY <2>2, <2>6
  <2> HIDE DEF prod, F
  <2> QED
    BY <2>7, <2>8
<1>3. S \in F
  <2> HIDE DEF F
  <2> QED BY <1>1, <1>2, SubsetInduction
<1> QED
  BY <1>3

\* The capacity of tables of one size.
LEMMA CapacityOfAlike ==
  ASSUME NEW room, NEW c \in Nat, Alike(room, c), NEW S \in SUBSET DOMAIN room.tables,
         IsFiniteSet(S)
  PROVE  Capacity(room, S) = Cardinality(S) * c
<1> DEFINE f == [t \in S |-> room.tables[t].capacity]
           F == {T \in SUBSET S : SumFunctionOnSet(f, T) = Cardinality(T) * c}
<1>1. \A t \in S : f[t] = c
  BY DEF Alike
<1> HIDE DEF f
<1>2. {} \in F
  <2>1. SumFunctionOnSet(f, {}) = 0 /\ Cardinality({}) = 0 /\ 0 * c = 0
    BY SumEmpty, FS_EmptySet
  <2> QED
    BY <2>1
<1>3. \A T \in SUBSET S : \A x \in S \ T : T \in F => T \cup {x} \in F
  <2> SUFFICES ASSUME NEW T \in SUBSET S, NEW x \in S \ T, T \in F
               PROVE  SumFunctionOnSet(f, T \cup {x}) = Cardinality(T \cup {x}) * c
    OBVIOUS
  <2>1. IsFiniteSet(T) /\ x \notin T
    BY FS_Subset
  <2>2. Cardinality(T) \in Nat /\ Cardinality(T \cup {x}) = Cardinality(T) + 1
    BY <2>1, FS_AddElement, FS_CardinalityType
  <2>3. SumFunctionOnSet(f, T \cup {x}) = SumFunctionOnSet(f, T) + f[x]
    <3>1. /\ \A z \in T : f[z] \in Int
          /\ f[x] \in Int
      BY <1>1
    <3> QED
      BY <2>1, <3>1, SumAdd
  <2>4. (Cardinality(T) + 1) * c = Cardinality(T) * c + c
    BY <2>2, OneTimesMore
  <2>5. SumFunctionOnSet(f, T) = Cardinality(T) * c /\ f[x] = c
    BY <1>1
  <2> QED
    BY <2>2, <2>3, <2>4, <2>5
<1>4. S \in F
  <2> HIDE DEF F
  <2> QED BY <1>2, <1>3, SubsetInduction
<1>5. Capacity(room, S) = SumFunctionOnSet(f, S)
  BY CapacityIsSum DEF f
<1> QED
  BY <1>4, <1>5

\* The emptiest of the tables with a free seat is as empty as any table.
LEMMA EmptiestWithSeat ==
  ASSUME NEW D, IsFiniteSet(D), NEW room, Sound(room, D), NEW c \in Nat, Alike(room, c),
         NEW S \in SUBSET OpenTables(room), NEW T, T = {t \in S : HasFreeSeat(room, t)}, T # {}
  PROVE  /\ Emptiest(room, T) \in T
         /\ \A o \in S : Occupancy(room, Emptiest(room, T)) <= Occupancy(room, o)
<1> DEFINE n == Len(room.tables)
           to == Emptiest(room, T)
<1>1. /\ room \in Rooms(D) /\ n \in Nat /\ OpenTables(room) \in SUBSET (1 .. n)
      /\ \A t : Occupancy(room, t) \in Nat
      /\ \A t \in OpenTables(room) : room.tables[t].capacity = c
  <2>1. room \in Rooms(D)
    BY DEF Sound
  <2>2. \A t \in OpenTables(room) : t \in DOMAIN room.tables
    BY DEF OpenTables
  <2> QED
    BY <2>1, <2>2, RoomTypes DEF Alike
<1>2. T \in SUBSET (1 .. n)
  BY <1>1
<1> HIDE DEF n
<1>3. /\ to \in T
      /\ \A o \in T \ {to} : \/ Occupancy(room, o) > Occupancy(room, to)
                             \/ Occupancy(room, o) = Occupancy(room, to) /\ o < to
  BY <1>1, <1>2, EmptiestOf
<1> HIDE DEF to
<1>4. ASSUME NEW o \in S
      PROVE  Occupancy(room, to) <= Occupancy(room, o)
  <2>1. Occupancy(room, o) \in Nat /\ Occupancy(room, to) \in Nat
    BY <1>1
  <2>2. CASE o \in T
    <3>1. \/ o = to
          \/ Occupancy(room, o) > Occupancy(room, to)
          \/ Occupancy(room, o) = Occupancy(room, to)
      BY <1>3, <2>2
    <3> QED
      BY <2>1, <3>1
  <2>3. CASE o \notin T
    <3>1. ~(Occupancy(room, o) < c) /\ Occupancy(room, to) < c
      BY <1>1, <1>3, <2>3 DEF HasFreeSeat
    <3> QED
      BY <2>1, <3>1
  <2> QED
    BY <2>2, <2>3
<1> QED
  BY <1>3, <1>4 DEF to

\* A player who goes from one table to another is one less here and one more there.
LEMMA OneRelocatedCounts ==
  ASSUME NEW D, IsFiniteSet(D), NEW before \in Rooms(D), NEW after \in Rooms(D),
         NEW from, NEW to, from # to, OneRelocated(before, after, from, to)
  PROVE  /\ Occupancy(after, from) + 1 = Occupancy(before, from)
         /\ Occupancy(after, to) = Occupancy(before, to) + 1
         /\ \A t : t # from /\ t # to => Occupancy(after, t) = Occupancy(before, t)
<1>1. PICK e \in Occupants(before, from) :
        /\ Occupants(after, from) = Occupants(before, from) \ {e}
        /\ Occupants(after, to) = Occupants(before, to) \cup {e}
        /\ \A t : t # from /\ t # to => Occupants(after, t) = Occupants(before, t)
  BY DEF OneRelocated
<1>2. e \notin Occupants(before, to)
  BY <1>1 DEF Occupants
<1>3. /\ IsFiniteSet(Occupants(before, from)) /\ IsFiniteSet(Occupants(before, to))
      /\ Occupancy(before, from) \in Nat
  BY RoomTypes
<1>4. Cardinality(Occupants(before, from) \ {e}) = Cardinality(Occupants(before, from)) - 1
  BY <1>1, <1>3, FS_RemoveElement
<1>5. Cardinality(Occupants(before, to) \cup {e}) = Cardinality(Occupants(before, to)) + 1
  BY <1>2, <1>3, FS_AddElement
<1> QED
  BY <1>1, <1>3, <1>4, <1>5 DEF Occupancy

\* One more at a table that is as empty as any leaves tables level.
LEMMA LevelStays ==
  ASSUME NEW before, NEW after, NEW S, NEW to \in S, Level(before, S),
         \A t \in S : Occupancy(before, t) \in Nat /\ Occupancy(before, to) <= Occupancy(before, t),
         Occupancy(after, to) = Occupancy(before, to) + 1,
         \A t \in S \ {to} : Occupancy(after, t) = Occupancy(before, t)
  PROVE  Level(after, S)
<1> SUFFICES ASSUME NEW m \in S, NEW n \in S PROVE Occupancy(after, m) <= Occupancy(after, n) + 1
  BY DEF Level
<1>1. Occupancy(before, m) <= Occupancy(before, to) + 1
  BY DEF Level
<1>2. Occupancy(before, m) <= Occupancy(before, n) + 1
  BY DEF Level
<1>3. CASE m = to
  BY <1>3
<1>4. CASE m # to
  BY <1>1, <1>2, <1>4
<1> QED
  BY <1>3, <1>4

\* Tables that are level are left alone.
LEMMA LevelIsLeft ==
  ASSUME NEW D, IsFiniteSet(D), NEW plan, NEW start, PlanOk(plan, start, D),
         NEW open \in SUBSET OpenTables(start), open # {}, Level(plan.room, open)
  PROVE  BalanceOnce(plan, open) = plan
<1> DEFINE room == plan.room
           source == Fullest(room, open)
           targets == {t \in open \ {source} : HasFreeSeat(room, t)}
           target == Emptiest(room, targets)
           level == \/ targets = {}
                    \/ Occupancy(room, source) - Occupancy(room, target) <= MaxOccupancyGap
           next == Relocate(plan, source, target)
<1>1. BalanceOnce(plan, open) = IF level THEN plan ELSE next
  BY Zenon DEF BalanceOnce
<1>2. room \in Rooms(D) /\ OpenTables(room) = OpenTables(start)
  BY DEF PlanOk, Sound, OpenTables
<1>3. /\ open \in SUBSET (1 .. Len(room.tables)) /\ Len(room.tables) \in Nat
      /\ Cardinality(D) \in Nat
      /\ \A t : Occupancy(room, t) \in Nat /\ Occupancy(room, t) <= Cardinality(D)
  BY <1>2, RoomTypes, FS_CardinalityType
<1>4. source \in open
  <2> HIDE DEF room
  <2> QED BY <1>3, FullestOf
<1>5. CASE targets = {}
  BY <1>1, <1>5
<1>6. CASE targets # {}
  <2>1. targets \in SUBSET (1 .. Len(room.tables)) /\ targets \in SUBSET open
    BY <1>3
  <2>2. target \in targets
    <3> HIDE DEF targets, room
    <3> QED BY <1>3, <1>6, <2>1, EmptiestOf
  <2> HIDE DEF source, target
  <2>3. Occupancy(room, source) <= Occupancy(room, target) + 1
    BY <1>4, <2>1, <2>2 DEF Level
  <2>4. Occupancy(room, source) - Occupancy(room, target) <= MaxOccupancyGap
    <3>1. Occupancy(room, source) \in Nat /\ Occupancy(room, target) \in Nat
      BY <1>3
    <3> QED
      BY <2>3, <3>1 DEF MaxOccupancyGap
  <2> HIDE DEF room, next
  <2> QED
    BY <1>1, <2>4
<1> QED
  BY <1>5, <1>6

\* If another table is as empty as the one that gains players, the tables are level.
LEMMA NearlyTwice ==
  ASSUME NEW room, NEW S, NEW x, Nearly(room, S, x), \A t \in S : Occupancy(room, t) \in Nat,
         NEW y \in S \ {x}, Occupancy(room, y) <= Occupancy(room, x)
  PROVE  Level(room, S)
<1> SUFFICES ASSUME NEW m \in S, NEW n \in S PROVE Occupancy(room, m) <= Occupancy(room, n) + 1
  BY DEF Level
<1>1. Occupancy(room, x) <= Occupancy(room, n) /\ Occupancy(room, x) \in Nat
  BY DEF Nearly
<1>2. CASE m = x
  BY <1>1, <1>2
<1>3. CASE m # x
  <2>1. Occupancy(room, m) <= Occupancy(room, y) + 1
    BY <1>3 DEF Nearly
  <2>2. Occupancy(room, y) \in Nat
    OBVIOUS
  <2> QED
    BY <1>1, <2>1, <2>2
<1> QED
  BY <1>2, <1>3

\* So they are if none has more than one player more.
LEMMA NearlyThere ==
  ASSUME NEW room, NEW S, NEW x, Nearly(room, S, x),
         \A t \in S : Occupancy(room, t) \in Nat /\ Occupancy(room, t) <= Occupancy(room, x) + 1
  PROVE  Level(room, S)
<1> SUFFICES ASSUME NEW m \in S, NEW n \in S PROVE Occupancy(room, m) <= Occupancy(room, n) + 1
  BY DEF Level
<1>1. Occupancy(room, x) <= Occupancy(room, n) /\ Occupancy(room, x) \in Nat
  BY DEF Nearly
<1>2. Occupancy(room, m) <= Occupancy(room, x) + 1 /\ Occupancy(room, n) \in Nat
  OBVIOUS
<1> QED
  BY <1>1, <1>2

\* A player of the fullest table goes where two or more are missing.
LEMMA NearlyMoved ==
  ASSUME NEW before, NEW after, NEW S, NEW x, Nearly(before, S, x), NEW top \in S \ {x},
         \A t \in S : Occupancy(before, t) \in Nat /\ Occupancy(before, t) <= Occupancy(before, top),
         Occupancy(before, x) + 2 <= Occupancy(before, top),
         Occupancy(after, top) + 1 = Occupancy(before, top),
         Occupancy(after, x) = Occupancy(before, x) + 1,
         \A t \in S \ {x, top} : Occupancy(after, t) = Occupancy(before, t),
         \A t \in S : Occupancy(after, t) \in Nat
  PROVE  /\ Nearly(after, S, x)
         /\ Occupancy(before, top) <= Occupancy(before, x) + 2 => Level(after, S)
<1>1. x \in S /\ \A t \in S \ {x} : Occupancy(before, top) <= Occupancy(before, t) + 1
  BY DEF Nearly
<1>2. \A t \in S \ {x} : /\ Occupancy(after, t) <= Occupancy(before, t)
                         /\ Occupancy(before, top) <= Occupancy(after, t) + 1
  <2> SUFFICES ASSUME NEW t \in S \ {x}
               PROVE  /\ Occupancy(after, t) <= Occupancy(before, t)
                      /\ Occupancy(before, top) <= Occupancy(after, t) + 1
    OBVIOUS
  <2>1. CASE t = top
    BY <2>1
  <2>2. CASE t # top
    BY <1>1, <2>2
  <2> QED
    BY <2>1, <2>2
<1>3. \A m, n \in S \ {x} : Occupancy(after, m) <= Occupancy(after, n) + 1
  <2> SUFFICES ASSUME NEW m \in S \ {x}, NEW n \in S \ {x}
               PROVE  Occupancy(after, m) <= Occupancy(after, n) + 1
    OBVIOUS
  <2>1. /\ Occupancy(after, m) <= Occupancy(before, m)
        /\ Occupancy(before, m) <= Occupancy(before, top)
        /\ Occupancy(before, top) <= Occupancy(after, n) + 1
    BY <1>2
  <2> QED
    BY <2>1
<1>4. \A t \in S : Occupancy(after, x) <= Occupancy(after, t)
  <2> SUFFICES ASSUME NEW t \in S PROVE Occupancy(after, x) <= Occupancy(after, t)
    OBVIOUS
  <2>1. CASE t = x
    BY <1>1, <2>1
  <2>2. CASE t # x
    <3>1. Occupancy(before, top) <= Occupancy(after, t) + 1
      BY <1>2, <2>2
    <3> QED
      BY <1>1, <3>1
  <2> QED
    BY <2>1, <2>2
<1>5. Nearly(after, S, x)
  BY <1>1, <1>3, <1>4 DEF Nearly
<1>6. ASSUME Occupancy(before, top) <= Occupancy(before, x) + 2
      PROVE  Level(after, S)
  <2>1. \A t \in S : Occupancy(after, t) <= Occupancy(after, x) + 1
    <3> SUFFICES ASSUME NEW t \in S PROVE Occupancy(after, t) <= Occupancy(after, x) + 1
      OBVIOUS
    <3>1. CASE t = x
      BY <1>1, <3>1
    <3>2. CASE t # x
      <4>1. /\ Occupancy(after, t) <= Occupancy(before, t)
            /\ Occupancy(before, t) <= Occupancy(before, top)
        BY <1>2, <3>2
      <4> QED
        BY <1>1, <1>6, <4>1
    <3> QED
      BY <3>1, <3>2
  <2> QED
    BY <1>5, <2>1, NearlyThere
<1> QED
  BY <1>5, <1>6

\* A turn of the balance, when one table alone lacks players: they are level, or another
\* player goes there.
NearlyNext(plan, next, open, x) ==
  \/ next = plan /\ Level(plan.room, open)
  \/ /\ \E from : next = Relocate(plan, from, x)
     /\ Nearly(next.room, open, x)
     /\ Occupancy(next.room, x) = Occupancy(plan.room, x) + 1
     /\ (\A t \in open : Occupancy(plan.room, t) <= Occupancy(plan.room, x) + 2)
          => Level(next.room, open)

LEMMA NearlyTurn ==
  ASSUME NEW D, IsFiniteSet(D), NEW plan, NEW start, PlanOk(plan, start, D),
         NEW c \in Nat, Alike(start, c),
         NEW open \in SUBSET OpenTables(start), NEW x, Nearly(plan.room, open, x)
  PROVE  NearlyNext(plan, BalanceOnce(plan, open), open, x)
<1> DEFINE room == plan.room
           source == Fullest(room, open)
           targets == {t \in open \ {source} : HasFreeSeat(room, t)}
           target == Emptiest(room, targets)
           level == \/ targets = {}
                    \/ Occupancy(room, source) - Occupancy(room, target) <= MaxOccupancyGap
           next == Relocate(plan, source, target)
<1>1. BalanceOnce(plan, open) = IF level THEN plan ELSE next
  BY Zenon DEF BalanceOnce
<1>2. /\ room \in Rooms(D) /\ OpenTables(room) = OpenTables(start) /\ Sound(room, D)
      /\ Alike(room, c) /\ x \in open
  BY DEF PlanOk, Sound, OpenTables, Alike, Nearly
<1>3. /\ open \in SUBSET (1 .. Len(room.tables)) /\ Len(room.tables) \in Nat
      /\ Cardinality(D) \in Nat
      /\ \A t : Occupancy(room, t) \in Nat /\ Occupancy(room, t) <= Cardinality(D)
  BY <1>2, RoomTypes, FS_CardinalityType
<1>4. source \in open /\ \A t \in open : Occupancy(room, t) <= Occupancy(room, source)
  <2> HIDE DEF room, source
  <2>1. /\ source \in open
        /\ \A o \in open \ {source} : \/ Occupancy(room, o) < Occupancy(room, source)
                                      \/ /\ Occupancy(room, o) = Occupancy(room, source)
                                         /\ o < source
    <3>1. open # {}
      BY <1>2
    <3> QED
      BY <1>3, <3>1, FullestOf DEF source
  <2> QED
    BY <1>3, <2>1
<1> HIDE DEF source
<1>5. CASE source = x
  <2>1. \A t \in open : Occupancy(room, t) \in Nat /\ Occupancy(room, t) <= Occupancy(room, x) + 1
    <3> SUFFICES ASSUME NEW t \in open
                 PROVE  Occupancy(room, t) \in Nat /\ Occupancy(room, t) <= Occupancy(room, x) + 1
      OBVIOUS
    <3>1. /\ Occupancy(room, t) <= Occupancy(room, x)
          /\ Occupancy(room, t) \in Nat /\ Occupancy(room, x) \in Nat
      BY <1>3, <1>4, <1>5
    <3> HIDE DEF room
    <3> QED
      BY <3>1
  <2>2. Level(room, open)
    <3> HIDE DEF room
    <3> QED BY <2>1, NearlyThere DEF room
  <2>3. BalanceOnce(plan, open) = plan
    BY <1>2, <2>2, LevelIsLeft
  <2> QED
    BY <2>2, <2>3 DEF NearlyNext
<1>6. CASE source # x /\ level
  <2>1. BalanceOnce(plan, open) = plan
    BY <1>1, <1>6
  <2>2. Level(room, open)
    <3>1. CASE ~HasFreeSeat(room, x)
      <4>1. ~(Occupancy(room, x) < c)
        BY <1>2, <1>3, <3>1 DEF HasFreeSeat, OpenTables, Alike
      <4>2. Occupancy(room, source) <= c
        BY <1>2, <1>4, OccupancyWithin
      <4>3. Occupancy(room, source) <= Occupancy(room, x)
        <5>1. Occupancy(room, source) \in Nat /\ Occupancy(room, x) \in Nat
          BY <1>3
        <5> HIDE DEF room
        <5> QED BY <4>1, <4>2, <5>1
      <4> HIDE DEF room
      <4> QED
        BY <1>3, <1>4, <1>6, <4>3, NearlyTwice DEF room
    <3>2. CASE HasFreeSeat(room, x)
      <4>1. x \in targets
        BY <1>2, <1>6, <3>2
      <4>2. /\ target \in targets
            /\ \A o \in open \ {source} : Occupancy(room, target) <= Occupancy(room, o)
        <5>1. open \ {source} \in SUBSET OpenTables(room)
          BY <1>2
        <5>2. targets # {}
          BY <4>1
        <5> HIDE DEF room
        <5> QED BY <1>2, <5>1, <5>2, EmptiestWithSeat
      <4>3. Occupancy(room, source) - Occupancy(room, target) <= 1
        BY <1>6, <4>1 DEF MaxOccupancyGap
      <4> HIDE DEF target, targets
      <4>4. \A t \in open : Occupancy(room, t) \in Nat /\ Occupancy(room, t) <= Occupancy(room, x) + 1
        <5> SUFFICES ASSUME NEW t \in open
                     PROVE  /\ Occupancy(room, t) \in Nat
                            /\ Occupancy(room, t) <= Occupancy(room, x) + 1
          OBVIOUS
        <5>1. /\ Occupancy(room, t) \in Nat /\ Occupancy(room, x) \in Nat
              /\ Occupancy(room, source) \in Nat /\ Occupancy(room, target) \in Nat
              /\ Occupancy(room, t) <= Occupancy(room, source)
              /\ Occupancy(room, target) <= Occupancy(room, x)
          BY <1>2, <1>3, <1>4, <1>6, <4>2
        <5> HIDE DEF room
        <5> QED BY <4>3, <5>1
      <4> HIDE DEF room
      <4> QED
        BY <4>4, NearlyThere DEF room
    <3> QED
      BY <3>1, <3>2
  <2> QED
    BY <2>1, <2>2 DEF NearlyNext
<1>7. CASE source # x /\ ~level
  <2>1. /\ target \in targets
        /\ \A o \in open \ {source} : Occupancy(room, target) <= Occupancy(room, o)
    <3>1. open \ {source} \in SUBSET OpenTables(room)
      BY <1>2
    <3>2. targets # {}
      BY <1>7
    <3> HIDE DEF room
    <3> QED BY <1>2, <3>1, <3>2, EmptiestWithSeat
  <2>2. Occupancy(room, source) - Occupancy(room, target) > 1
    BY <1>3, <1>7 DEF MaxOccupancyGap
  <2>3. targets \in SUBSET open /\ HasFreeSeat(room, target)
    BY <2>1
  <2>4. BalanceOnce(plan, open) = next
    BY <1>1, <1>7
  <2> HIDE DEF target, targets
  <2>5. target = x
    <3> SUFFICES ASSUME target # x PROVE FALSE
      OBVIOUS
    <3>1. /\ Occupancy(room, target) <= Occupancy(room, x) /\ target \in open \ {x}
      BY <1>2, <1>7, <2>1, <2>3
    <3>2. Level(room, open)
      <4> HIDE DEF room
      <4> QED BY <1>3, <3>1, NearlyTwice DEF room
    <3>3. Occupancy(room, source) <= Occupancy(room, target) + 1
      BY <1>4, <3>1, <3>2 DEF Level
    <3>4. Occupancy(room, source) \in Nat /\ Occupancy(room, target) \in Nat
      BY <1>3
    <3> HIDE DEF room
    <3> QED BY <2>2, <3>3, <3>4
  <2>6. Occupancy(room, x) + 2 <= Occupancy(room, source)
    <3>1. Occupancy(room, source) \in Nat /\ Occupancy(room, x) \in Nat
      BY <1>3
    <3> HIDE DEF room
    <3> QED BY <2>2, <2>5, <3>1
  <2>7. Occupants(room, source) # {} /\ source # 0
    <3>1. Occupancy(room, source) # 0
      BY <1>3, <2>6
    <3> QED
      BY <1>3, <1>4, <3>1, FS_EmptySet DEF Occupancy
  <2>8. PlanOk(next, start, D) /\ OneRelocated(room, next.room, source, x)
    <3>1. x \in OpenTables(plan.room) /\ HasFreeSeat(plan.room, x) /\ source # x
      BY <1>2, <1>7, <2>3, <2>5
    <3>2. source # 0 /\ Occupants(plan.room, source) # {}
      BY <2>7
    <3>3. next = Relocate(plan, source, x)
      BY <2>5
    <3> HIDE DEF next
    <3> QED
      BY <3>1, <3>2, <3>3, RelocateOk
  <2>9. \E from : next = Relocate(plan, from, x)
    BY <2>5
  <2> DEFINE after == next.room
  <2> HIDE DEF next
  <2>10. after \in Rooms(D)
    BY <2>8 DEF PlanOk, Sound
  <2>11. \A t \in open : Occupancy(after, t) \in Nat
    BY <2>10, RoomTypes
  <2>12. /\ Occupancy(after, source) + 1 = Occupancy(room, source)
         /\ Occupancy(after, x) = Occupancy(room, x) + 1
         /\ \A t : t # source /\ t # x => Occupancy(after, t) = Occupancy(room, t)
    <3> HIDE DEF after, room
    <3> QED BY <1>2, <1>7, <2>8, <2>10, OneRelocatedCounts DEF after
  <2>13. /\ Nearly(after, open, x)
         /\ Occupancy(room, source) <= Occupancy(room, x) + 2 => Level(after, open)
    <3>1. source \in open \ {x} /\ \A t \in open \ {x, source} : Occupancy(after, t) = Occupancy(room, t)
      BY <1>4, <1>7, <2>12
    <3>2. \A t \in open : Occupancy(room, t) \in Nat /\ Occupancy(room, t) <= Occupancy(room, source)
      BY <1>3, <1>4
    <3>3. Nearly(room, open, x)
      OBVIOUS
    <3> HIDE DEF after, room
    <3> QED
      BY ONLY <3>1, <3>2, <3>3, <2>6, <2>11, <2>12, NearlyMoved
  <2>14. (\A t \in open : Occupancy(room, t) <= Occupancy(room, x) + 2) => Level(after, open)
    BY <1>4, <2>13
  <2> QED
    BY <2>4, <2>9, <2>12, <2>13, <2>14 DEF NearlyNext
<1> QED
  BY <1>5, <1>6, <1>7

\* A balance leaves tables that are level alone.
LEMMA BalanceLeaves ==
  ASSUME NEW D, IsFiniteSet(D), NEW plan, NEW start, PlanOk(plan, start, D),
         NEW open \in SUBSET OpenTables(start), open # {}, Level(plan.room, open)
  PROVE  Balance(plan, open) = plan
<1> DEFINE n == Cardinality(DOMAIN plan.room.at)
<1>1. n \in Nat
  <2>1. DOMAIN plan.room.at = D
    BY DEF PlanOk, Sound, Rooms
  <2> QED
    BY <2>1, FS_CardinalityType
<1>2. PICK st : /\ st[0] = plan
                /\ \A k \in 1 .. n : st[k] = BalanceOnce(st[k - 1], open)
                /\ Balance(plan, open) = st[n]
  BY <1>1, BalanceChain
<1> HIDE DEF n
<1> DEFINE F == {k \in Nat : k <= n => st[k] = plan}
<1>3. 0 \in F
  BY <1>2
<1>4. \A k \in Nat : k \in F => k + 1 \in F
  <2> SUFFICES ASSUME NEW k \in F, k + 1 <= n PROVE st[k + 1] = plan
    OBVIOUS
  <2>1. st[k] = plan /\ k + 1 \in 1 .. n /\ (k + 1) - 1 = k
    BY <1>1
  <2>2. st[k + 1] = BalanceOnce(plan, open)
    BY <1>2, <2>1
  <2> QED
    BY <2>2, LevelIsLeft
<1> HIDE DEF F
<1>5. Nat \subseteq F
  BY <1>3, <1>4, NatSetInduction
<1> QED
  BY <1>1, <1>2, <1>5 DEF F

\* When one table alone lacks players a balance levels them, and if it lacks two at most
\* a single player moves.
LEMMA BalanceLevels ==
  ASSUME NEW D, IsFiniteSet(D), NEW plan, NEW start, PlanOk(plan, start, D),
         NEW c \in Nat, Alike(start, c),
         NEW open \in SUBSET OpenTables(start), NEW x, Nearly(plan.room, open, x)
  PROVE  /\ Level(Balance(plan, open).room, open)
         /\ plan.moves = <<>> /\ (\A t \in open : Occupancy(plan.room, t)
                                                   <= Occupancy(plan.room, x) + 2)
              => Len(Balance(plan, open).moves) <= 1
<1> DEFINE n == Cardinality(DOMAIN plan.room.at)
           Little == /\ plan.moves = <<>>
                     /\ \A t \in open : Occupancy(plan.room, t) <= Occupancy(plan.room, x) + 2
<1>1. n \in Nat /\ n = Cardinality(D) /\ open # {} /\ x \in open
  <2>1. DOMAIN plan.room.at = D
    BY DEF PlanOk, Sound, Rooms
  <2> QED
    BY <2>1, FS_CardinalityType DEF Nearly
<1>2. PICK st : /\ st[0] = plan
                /\ \A k \in 1 .. n : st[k] = BalanceOnce(st[k - 1], open)
                /\ Balance(plan, open) = st[n]
  BY <1>1, BalanceChain
<1> HIDE DEF n
<1> DEFINE Fills(p, k) == Nearly(p.room, open, x) /\ k <= Occupancy(p.room, x)
           Short(p) == Level(p.room, open) /\ Len(p.moves) <= 1
           Good(k) == /\ PlanOk(st[k], start, D)
                      /\ Level(st[k].room, open) \/ Fills(st[k], k)
                      /\ Little => st[k] = plan \/ Short(st[k])
           F == {k \in Nat : k <= n => Good(k)}
<1>3. 0 \in F
  <2>1. Occupancy(plan.room, x) \in Nat
    <3>1. plan.room \in Rooms(D)
      BY DEF PlanOk, Sound
    <3> QED
      BY <3>1, RoomTypes
  <2>2. Fills(plan, 0)
    BY <2>1
  <2> HIDE DEF Fills, Short, Little
  <2> QED
    BY <1>2, <2>2
<1>4. \A k \in Nat : k \in F => k + 1 \in F
  <2> SUFFICES ASSUME NEW k \in F, k + 1 <= n PROVE Good(k + 1)
    OBVIOUS
  <2> DEFINE p == st[k]
             next == st[k + 1]
  <2>1. /\ PlanOk(p, start, D) /\ k \in Nat
        /\ Level(p.room, open) \/ Fills(p, k)
        /\ Little => p = plan \/ Short(p)
    BY <1>1
  <2>2. next = BalanceOnce(p, open)
    <3>1. k + 1 \in 1 .. n /\ (k + 1) - 1 = k
      BY <1>1
    <3> QED
      BY <1>2, <3>1
  <2> HIDE DEF F, p, next, Little
  <2>3. PlanOk(next, start, D)
    BY <1>1, <2>1, <2>2, BalanceOnceOk
  <2>4. CASE Level(p.room, open)
    <3>1. next = p
      BY <1>1, <2>1, <2>2, <2>4, LevelIsLeft
    <3>2. Little => Short(p)
      <4>1. ASSUME Little, p = plan
            PROVE  Len(p.moves) <= 1
        <5>1. Len(<<>>) = 0
          OBVIOUS
        <5>2. p.moves = <<>>
          BY <4>1 DEF Little
        <5> QED
          BY <5>1, <5>2
      <4> QED
        BY <2>1, <2>4, <4>1
    <3> HIDE DEF Short
    <3> QED
      BY <2>3, <2>4, <3>1, <3>2 DEF next
  <2>5. CASE ~Level(p.room, open)
    <3>1. Fills(p, k)
      BY <2>1, <2>5
    <3>2. NearlyNext(p, next, open, x)
      BY <2>1, <2>2, <3>1, NearlyTurn
    <3>3. /\ \E from : next = Relocate(p, from, x)
          /\ Nearly(next.room, open, x)
          /\ Occupancy(next.room, x) = Occupancy(p.room, x) + 1
          /\ (\A t \in open : Occupancy(p.room, t) <= Occupancy(p.room, x) + 2)
                => Level(next.room, open)
      BY <2>5, <3>2 DEF NearlyNext
    <3>4. Fills(next, k + 1)
      <4>1. Occupancy(p.room, x) \in Nat
        <5>1. p.room \in Rooms(D)
          BY <2>1 DEF PlanOk, Sound
        <5> QED
          BY <5>1, RoomTypes
      <4> QED
        BY <2>1, <3>1, <3>3, <4>1
    <3>5. ASSUME Little
          PROVE  Short(next)
      <4>1. p = plan
        BY <2>1, <2>5, <3>5
      <4>2. Level(next.room, open)
        BY <3>3, <3>5, <4>1 DEF Little
      <4>3. Len(next.moves) <= 1
        <5>1. PICK from : next = Relocate(p, from, x)
          BY <3>3
        <5>2. \E m : next.moves = Append(p.moves, m)
          BY <5>1 DEF Relocate
        <5>3. PICK m : next.moves = Append(p.moves, m)
          BY <5>2
        <5>4. p.moves = <<>>
          BY <3>5, <4>1 DEF Little
        <5>5. Len(Append(<<>>, m)) = 1
          OBVIOUS
        <5> QED
          BY <5>3, <5>4, <5>5
      <4> QED
        BY <4>2, <4>3
    <3> HIDE DEF Short, Fills
    <3> QED
      BY <2>3, <3>4, <3>5 DEF next
  <2> QED
    BY <2>4, <2>5
<1> HIDE DEF F, Good
<1>5. Nat \subseteq F
  BY <1>3, <1>4, NatSetInduction
<1>6. Good(n)
  BY <1>1, <1>5 DEF F
<1>7. Level(st[n].room, open)
  <2> SUFFICES ASSUME Fills(st[n], n) PROVE Level(st[n].room, open)
    BY <1>6 DEF Good
  <2> DEFINE room == st[n].room
  <2>1. room \in Rooms(D)
    BY <1>6 DEF Good, PlanOk, Sound
  <2>2. \A t : Occupancy(room, t) \in Nat /\ Occupancy(room, t) <= n
    BY <1>1, <2>1, RoomTypes
  <2> HIDE DEF room
  <2>3. Nearly(room, open, x) /\ n <= Occupancy(room, x)
    BY DEF room
  <2>4. \A t \in open : Occupancy(room, t) \in Nat /\ Occupancy(room, t) <= Occupancy(room, x) + 1
    <3> SUFFICES ASSUME NEW t \in open
                 PROVE  Occupancy(room, t) \in Nat /\ Occupancy(room, t) <= Occupancy(room, x) + 1
      OBVIOUS
    <3>1. Occupancy(room, t) \in Nat /\ Occupancy(room, t) <= n /\ Occupancy(room, x) \in Nat
      BY <2>2
    <3> QED
      BY <1>1, <2>3, <3>1
  <2> QED
    BY <2>3, <2>4, NearlyThere DEF room
<1>8. Little => Len(st[n].moves) <= 1
  <2> HIDE DEF Little
  <2>1. Len(<<>>) <= 1
    OBVIOUS
  <2>2. Little => plan.moves = <<>>
    BY DEF Little
  <2> QED
    BY <1>6, <2>1, <2>2 DEF Good
<1> QED
  BY <1>2, <1>7, <1>8

\* No move of a list is of an entry that another is of.
NoneTwice(moves) == \A i, j \in DOMAIN moves : moves[i].entry = moves[j].entry => i = j

\* A move of somebody new can be added to such a list.
LEMMA OnceMore ==
  ASSUME NEW X, NEW moves \in Seq(X), NEW m \in X, NoneTwice(moves),
         \A i \in DOMAIN moves : moves[i].entry # m.entry
  PROVE  /\ NoneTwice(Append(moves, m)) /\ Len(Append(moves, m)) = Len(moves) + 1
         /\ \A i \in DOMAIN Append(moves, m) :
              Append(moves, m)[i] = m \/ \E j \in DOMAIN moves : Append(moves, m)[i] = moves[j]
<1> DEFINE n == Len(moves)
           more == Append(moves, m)
<1>1. /\ n \in Nat /\ DOMAIN moves = 1 .. n /\ DOMAIN more = 1 .. n + 1 /\ Len(more) = n + 1
      /\ \A k \in 1 .. n : more[k] = moves[k]
      /\ more[n + 1] = m
  OBVIOUS
<1> HIDE DEF n, more
<1>2. \A i \in 1 .. n + 1 : i = n + 1 \/ i \in 1 .. n
  BY <1>1
<1>3. NoneTwice(more)
  <2> SUFFICES ASSUME NEW i \in 1 .. n + 1, NEW j \in 1 .. n + 1, more[i].entry = more[j].entry
               PROVE  i = j
    BY <1>1 DEF NoneTwice
  <2>1. CASE i \in 1 .. n /\ j \in 1 .. n
    BY <1>1, <2>1 DEF NoneTwice
  <2>2. CASE i = n + 1 /\ j \in 1 .. n
    BY <1>1, <2>2
  <2>3. CASE i \in 1 .. n /\ j = n + 1
    BY <1>1, <2>3
  <2> QED
    BY <1>2, <2>1, <2>2, <2>3
<1> QED
  BY <1>1, <1>2, <1>3 DEF n, more

\* The players of a table that is broken keep the others level, and each moves once.
LEMMA BreakLevels ==
  ASSUME NEW D, IsFiniteSet(D), NEW room, Sound(room, D), NEW c \in Nat, Alike(room, c),
         NEW plan, PlanOk(plan, room, D), plan.room = room, plan.moves = <<>>,
         NEW doomed \in OpenTables(room), Breaks(room, OpenTables(room) \ {doomed}),
         Level(room, OpenTables(room) \ {doomed})
  PROVE  LET broken == BreakTable(plan, doomed, OpenTables(room) \ {doomed})
         IN  /\ Level(broken.room, OpenTables(room) \ {doomed})
             /\ NoneTwice(broken.moves) /\ Len(broken.moves) <= Occupancy(room, doomed)
<1> DEFINE survivors == OpenTables(room) \ {doomed}
           n == Occupancy(room, doomed)
           free(r) == {t \in survivors : HasFreeSeat(r, t)}
           X == [entry : D, place : [table : Nat, seat : Nat]]
<1>1. n \in Nat
  <2>1. room \in Rooms(D)
    BY DEF Sound
  <2> QED
    BY <2>1, RoomTypes
<1>2. PICK st : BreakStates(plan, doomed, survivors, n, st, BreakTable(plan, doomed, survivors))
  <2> HIDE DEF survivors
  <2>1. Occupancy(plan.room, doomed) = n
    OBVIOUS
  <2> QED
    BY <1>1, <2>1, BreakTableChain
<1> HIDE DEF n
<1> DEFINE Fresh(p) == \A i \in DOMAIN p.moves : p.moves[i].entry \notin Occupants(p.room, doomed)
           Good(k) == /\ PlanOk(st[k], room, D) /\ Occupancy(st[k].room, doomed) = n - k
                      /\ Level(st[k].room, survivors)
                      /\ NoneTwice(st[k].moves) /\ Len(st[k].moves) = k /\ Fresh(st[k])
           F == {k \in Nat : k <= n => Good(k)}
<1>3. 0 \in F
  <2>1. plan.moves = <<>> /\ Len(<<>>) = 0 /\ DOMAIN <<>> = {}
    OBVIOUS
  <2>2. NoneTwice(plan.moves) /\ Len(plan.moves) = 0 /\ Fresh(plan)
    BY <2>1 DEF NoneTwice
  <2>3. st[0] = plan
    BY <1>2 DEF BreakStates
  <2>4. Occupancy(plan.room, doomed) = n - 0 /\ Level(plan.room, survivors)
    BY <1>1 DEF n
  <2> HIDE DEF Fresh, survivors
  <2>5. Good(0)
    BY <2>2, <2>3, <2>4
  <2>6. 0 \in Nat /\ (0 <= n => Good(0))
    BY <2>5
  <2> HIDE DEF Good
  <2> QED
    BY <2>6
<1>4. \A k \in Nat : k \in F => k + 1 \in F
  <2> SUFFICES ASSUME NEW k \in F, k + 1 <= n PROVE Good(k + 1)
    <3> HIDE DEF Good
    <3> QED OBVIOUS
  <2> DEFINE p == st[k]
             now == p.room
             to == Emptiest(now, free(now))
             next == Relocate(p, doomed, to)
  <2>1. /\ PlanOk(p, room, D) /\ Occupancy(now, doomed) = n - k /\ k \in Nat
        /\ Level(now, survivors) /\ NoneTwice(p.moves) /\ Len(p.moves) = k /\ Fresh(p)
    BY <1>1
  <2>2. st[k + 1] = next
    <3>1. k + 1 \in 1 .. n /\ (k + 1) - 1 = k
      BY <1>1
    <3> QED
      BY <1>2, <3>1 DEF BreakStates
  <2> HIDE DEF F, p, Fresh, X
  <2>3. /\ now \in Rooms(D) /\ Sound(now, D) /\ Alike(now, c)
        /\ OpenTables(now) = OpenTables(room)
    BY <2>1 DEF PlanOk, Sound, Alike, OpenTables
  <2>4. IsFiniteSet(Occupants(now, doomed)) /\ \A t : Occupancy(now, t) \in Nat
    BY <2>3, RoomTypes
  <2>5. Occupants(now, doomed) # {}
    BY <1>1, <2>1, <2>4, FS_EmptySet DEF Occupancy
  <2>6. /\ free(now) # {} /\ to \in free(now)
        /\ PlanOk(next, room, D)
        /\ OneRelocated(now, next.room, doomed, to)
        /\ MoveIsWritten(p, next, doomed)
    <3> DEFINE T == free(now)
    <3>1. T = {t \in OpenTables(room) \ {doomed} : HasFreeSeat(p.room, t)}
      OBVIOUS
    <3>2. next = Relocate(p, doomed, Emptiest(p.room, T)) /\ to = Emptiest(p.room, T)
      OBVIOUS
    <3>3. /\ IsFiniteSet(D) /\ Sound(room, D) /\ PlanOk(p, room, D)
          /\ doomed \in OpenTables(room) /\ Breaks(room, OpenTables(room) \ {doomed})
          /\ Occupants(p.room, doomed) # {}
      BY <2>1, <2>5
    <3> HIDE DEF T, next, to
    <3>4. /\ T # {} /\ Emptiest(p.room, T) \in T
          /\ PlanOk(Relocate(p, doomed, Emptiest(p.room, T)), room, D)
          /\ OneRelocated(p.room, Relocate(p, doomed, Emptiest(p.room, T)).room,
                          doomed, Emptiest(p.room, T))
          /\ MoveIsWritten(p, Relocate(p, doomed, Emptiest(p.room, T)), doomed)
      BY ONLY <3>1, <3>3, BreakTurn
    <3> QED
      BY ONLY <3>2, <3>4 DEF T, now
  <2> HIDE DEF next
  <2>7. \A o \in survivors : Occupancy(now, to) <= Occupancy(now, o)
    <3>1. survivors \in SUBSET OpenTables(now)
      BY <2>3
    <3> HIDE DEF now, survivors
    <3> QED BY <2>3, <2>6, <3>1, EmptiestWithSeat
  <2> HIDE DEF to
  <2>8. to \in survivors /\ to # doomed /\ doomed \notin survivors
    BY <2>6
  <2>9. /\ Occupancy(next.room, doomed) + 1 = Occupancy(now, doomed)
        /\ Occupancy(next.room, to) = Occupancy(now, to) + 1
        /\ \A t : t # doomed /\ t # to => Occupancy(next.room, t) = Occupancy(now, t)
    <3>1. next.room \in Rooms(D)
      BY <2>6 DEF PlanOk, Sound
    <3> HIDE DEF now
    <3> QED BY <2>3, <2>6, <2>8, <3>1, OneRelocatedCounts
  <2>10. Level(next.room, survivors)
    <3>1. /\ \A t \in survivors : Occupancy(now, t) \in Nat /\ Occupancy(now, to) <= Occupancy(now, t)
          /\ \A t \in survivors \ {to} : Occupancy(next.room, t) = Occupancy(now, t)
      BY <2>4, <2>7, <2>8, <2>9
    <3> HIDE DEF now, survivors
    <3> QED BY <2>1, <2>8, <2>9, <3>1, LevelStays
  <2>11. Occupancy(next.room, doomed) = n - (k + 1)
    <3>1. next.room \in Rooms(D)
      BY <2>6 DEF PlanOk, Sound
    <3>2. Occupancy(next.room, doomed) \in Nat
      BY <3>1, RoomTypes
    <3> HIDE DEF now
    <3> QED
      BY <1>1, <2>1, <2>9, <3>2
  <2>12. NoneTwice(next.moves) /\ Len(next.moves) = k + 1 /\ Fresh(next)
    <3>1. PICK e \in Occupants(now, doomed), place \in [table : Nat, seat : Nat] :
            /\ next.moves = Append(p.moves, [entry |-> e, place |-> place])
            /\ Occupants(next.room, doomed) = Occupants(now, doomed) \ {e}
      BY <2>6 DEF MoveIsWritten
    <3> DEFINE m == [entry |-> e, place |-> place]
    <3>2. m \in X /\ m.entry = e
      <4>1. e \in D
        BY <2>3, RoomTypes
      <4> QED
        BY <4>1 DEF X
    <3>3. p.moves \in Seq(X)
      BY <2>1 DEF PlanOk, X
    <3>4. next.moves = Append(p.moves, m)
      BY <3>1
    <3> HIDE DEF m, now
    <3>5. \A i \in DOMAIN p.moves : p.moves[i].entry # m.entry
      BY <2>1, <3>1, <3>2 DEF Fresh, now
    <3>6. /\ NoneTwice(next.moves) /\ Len(next.moves) = Len(p.moves) + 1
          /\ \A i \in DOMAIN next.moves :
               next.moves[i] = m \/ \E j \in DOMAIN p.moves : next.moves[i] = p.moves[j]
      <4> DEFINE old == p.moves
      <4>1. /\ old \in Seq(X) /\ m \in X /\ NoneTwice(old)
            /\ \A i \in DOMAIN old : old[i].entry # m.entry
            /\ next.moves = Append(old, m)
        BY <2>1, <3>2, <3>3, <3>4, <3>5
      <4> HIDE DEF old
      <4>2. /\ NoneTwice(Append(old, m)) /\ Len(Append(old, m)) = Len(old) + 1
            /\ \A i \in DOMAIN Append(old, m) :
                 Append(old, m)[i] = m \/ \E j \in DOMAIN old : Append(old, m)[i] = old[j]
        BY ONLY <4>1, OnceMore
      <4> QED
        BY <4>1, <4>2 DEF old
    <3>7. Fresh(next)
      <4> SUFFICES ASSUME NEW i \in DOMAIN next.moves
                   PROVE  next.moves[i].entry \notin Occupants(next.room, doomed)
        BY DEF Fresh
      <4>1. CASE next.moves[i] = m
        BY <3>1, <3>2, <4>1
      <4>2. CASE \E j \in DOMAIN p.moves : next.moves[i] = p.moves[j]
        BY <2>1, <3>1, <4>2 DEF Fresh, now
      <4> QED
        BY <3>6, <4>1, <4>2
    <3> QED
      BY <2>1, <3>6, <3>7
  <2> HIDE DEF survivors
  <2> QED
    BY <2>2, <2>6, <2>10, <2>11, <2>12
<1> HIDE DEF F, Good
<1>5. Nat \subseteq F
  BY <1>3, <1>4, NatSetInduction
<1>6. Good(n)
  BY <1>1, <1>5 DEF F
<1>7. Level(st[n].room, survivors) /\ NoneTwice(st[n].moves) /\ Len(st[n].moves) <= n
  BY <1>1, <1>6 DEF Good
<1> HIDE DEF survivors
<1> QED
  BY <1>2, <1>7 DEF BreakStates, n, survivors

\* An empty or one-element list repeats nobody.
LEMMA ShortIsOnce ==
  ASSUME NEW X, NEW moves \in Seq(X), Len(moves) <= 1
  PROVE  NoneTwice(moves)
<1>1. Len(moves) \in Nat /\ DOMAIN moves = 1 .. Len(moves)
  OBVIOUS
<1>2. \A i \in DOMAIN moves : i = 1
  BY <1>1
<1> QED
  BY <1>2 DEF NoneTwice

\* All but the emptiest table are level, if all but one that is as empty as any are.
LEMMA OthersAreLevel ==
  ASSUME NEW room, NEW S, NEW x, Nearly(room, S, x), \A t \in S : Occupancy(room, t) \in Nat,
         NEW y \in S, \A t \in S : Occupancy(room, y) <= Occupancy(room, t)
  PROVE  Level(room, S \ {y})
<1>1. CASE x = y
  BY <1>1 DEF Nearly, Level
<1>2. CASE x # y
  <2>1. Occupancy(room, y) <= Occupancy(room, x) /\ y \in S \ {x}
    BY <1>2 DEF Nearly
  <2>2. Level(room, S)
    BY <2>1, NearlyTwice
  <2> QED
    BY <2>2 DEF Level
<1> QED
  BY <1>1, <1>2

\* Two members of a set of less than two are one.
LEMMA LessThanTwo ==
  ASSUME NEW S, IsFiniteSet(S), Cardinality(S) < 2, NEW m \in S, NEW n \in S
  PROVE  m = n
<1> SUFFICES ASSUME m # n PROVE FALSE
  OBVIOUS
<1>1. Cardinality({m}) = 1 /\ IsFiniteSet({m}) /\ n \notin {m}
  BY FS_Singleton
<1>2. Cardinality({m} \cup {n}) = 2
  BY <1>1, FS_AddElement
<1>3. {m} \cup {n} \subseteq S
  OBVIOUS
<1>4. Cardinality({m} \cup {n}) <= Cardinality(S)
  BY <1>3, FS_Subset
<1>5. Cardinality(S) \in Nat
  BY FS_CardinalityType
<1> QED
  BY <1>2, <1>4, <1>5

\* When one table alone lacks players, a rebalance levels those that are left, and if it
\* lacks two at most nobody moves twice, and no more than sit at the emptiest, or one.
LEMMA RebalanceLevels ==
  ASSUME NEW D, IsFiniteSet(D), NEW room, Sound(room, D), NEW c \in Nat, Alike(room, c),
         NEW x, Nearly(room, OpenTables(room), x)
  PROVE  LET moves == PlanRebalance(room)
             after == ApplyMoves(room, moves)
             open == OpenTables(room)
             doomed == Emptiest(room, open)
             few == Cardinality(open) < 2
         IN  /\ doomed \in open /\ \A t \in open : Occupancy(room, doomed) <= Occupancy(room, t)
             /\ Len(moves) \in Nat
             /\ few \/ ~Breaks(room, open \ {doomed}) => Level(after, open)
             /\ ~few /\ Breaks(room, open \ {doomed}) =>
                  Level(after, open \ {doomed}) /\ Occupants(after, doomed) = {}
             /\ (\A t \in open : Occupancy(room, t) <= Occupancy(room, x) + 2) =>
                  NoneTwice(moves) /\ (Len(moves) <= 1 \/ Len(moves) <= Occupancy(room, doomed))
<1> DEFINE open == OpenTables(room)
           doomed == Emptiest(room, open)
           survivors == open \ {doomed}
           moves == PlanRebalance(room)
           after == ApplyMoves(room, moves)
           few == Cardinality(open) < 2
           Little == \A t \in open : Occupancy(room, t) <= Occupancy(room, x) + 2
           start == [room |-> room, moves |-> <<>>]
           broken == BreakTable(start, doomed, survivors)
<1>1. moves = IF few THEN <<>>
              ELSE IF Breaks(room, survivors) THEN Balance(broken, survivors).moves
              ELSE Balance(start, open).moves
  BY Zenon DEF PlanRebalance
<1>2. PlanOk(start, room, D) /\ start.room = room /\ start.moves = <<>>
  <2>1. ApplyMoves(room, <<>>) = room
    BY ApplyNothing
  <2> QED
    BY <2>1 DEF PlanOk
<1>3. /\ IsFiniteSet(open) /\ open \in SUBSET (1 .. Len(room.tables))
      /\ Len(room.tables) \in Nat /\ \A t : Occupancy(room, t) \in Nat
  <2>1. room \in Rooms(D)
    BY DEF Sound
  <2> QED
    BY <2>1, RoomTypes
<1>4. x \in open /\ Nearly(room, open, x)
  BY DEF Nearly
<1>5. /\ doomed \in open /\ \A t \in open : Occupancy(room, doomed) <= Occupancy(room, t)
  <2> HIDE DEF open, doomed
  <2>1. /\ doomed \in open
        /\ \A o \in open \ {doomed} : \/ Occupancy(room, o) > Occupancy(room, doomed)
                                      \/ /\ Occupancy(room, o) = Occupancy(room, doomed)
                                         /\ o < doomed
    BY <1>3, <1>4, EmptiestOf DEF doomed
  <2> QED
    BY <1>3, <2>1
<1> HIDE DEF start, broken, doomed
<1>6. CASE few
  <2>1. moves = <<>> /\ after = room
    <3>1. moves = <<>>
      BY <1>1, <1>6
    <3> HIDE DEF moves
    <3> QED
      BY <3>1, ApplyNothing
  <2>2. Level(room, open)
    <3> HIDE DEF open
    <3>1. \A m, n \in open : m = n
      BY <1>3, <1>6, LessThanTwo
    <3> QED
      BY <1>3, <3>1 DEF Level
  <2>3. NoneTwice(moves) /\ Len(moves) <= 1 /\ Len(moves) \in Nat
    <3>1. DOMAIN <<>> = {} /\ Len(<<>>) <= 1 /\ Len(<<>>) \in Nat
      OBVIOUS
    <3> HIDE DEF moves
    <3> QED
      BY <2>1, <3>1 DEF NoneTwice
  <2> HIDE DEF moves, after
  <2> QED
    BY <1>5, <1>6, <2>1, <2>2, <2>3 DEF moves, after, doomed
<1>7. CASE ~few /\ ~Breaks(room, survivors)
  <2> DEFINE end == Balance(start, open)
  <2>1. moves = end.moves
    BY <1>1, <1>7
  <2>2. PlanOk(end, room, D)
    BY <1>2, <1>4, BalanceOk
  <2>3. after = end.room
    BY <2>1, <2>2 DEF PlanOk
  <2>4. /\ Level(end.room, open)
        /\ Little => Len(end.moves) <= 1
    <3>1. Nearly(start.room, open, x)
      BY <1>2, <1>4
    <3>2. Little => \A t \in open : Occupancy(start.room, t) <= Occupancy(start.room, x) + 2
      BY <1>2
    <3>3. open \in SUBSET OpenTables(room)
      OBVIOUS
    <3> HIDE DEF end, Little, open
    <3> QED
      BY <1>2, <3>1, <3>2, <3>3, BalanceLevels DEF end
  <2>5. (Little => NoneTwice(moves) /\ Len(moves) <= 1) /\ Len(moves) \in Nat
    <3>1. \E X : end.moves \in Seq(X)
      BY <2>2 DEF PlanOk
    <3> HIDE DEF end, moves, Little
    <3>2. Len(moves) \in Nat
      BY <2>1, <3>1
    <3> QED
      BY <2>1, <2>4, <3>1, <3>2, ShortIsOnce
  <2> HIDE DEF moves, after, end
  <2> QED
    BY <1>5, <1>7, <2>3, <2>4, <2>5 DEF moves, after, doomed
<1>8. CASE ~few /\ Breaks(room, survivors)
  <2>1. Level(room, survivors)
    <3> HIDE DEF open
    <3> QED BY <1>3, <1>4, <1>5, OthersAreLevel
  <2>2. /\ PlanOk(broken, room, D) /\ Occupants(broken.room, doomed) = {}
        /\ Level(broken.room, survivors)
        /\ NoneTwice(broken.moves) /\ Len(broken.moves) <= Occupancy(room, doomed)
    <3>1. doomed \in OpenTables(room)
      BY <1>5
    <3>2. Breaks(room, OpenTables(room) \ {doomed}) /\ Level(room, OpenTables(room) \ {doomed})
      BY <1>8, <2>1
    <3>3. broken = BreakTable(start, doomed, OpenTables(room) \ {doomed})
      BY DEF broken
    <3>4. /\ PlanOk(broken, room, D) /\ Occupants(broken.room, doomed) = {}
      BY <1>2, <3>1, <3>2, <3>3, BreakTableOk
    <3>5. /\ Level(broken.room, OpenTables(room) \ {doomed})
          /\ NoneTwice(broken.moves) /\ Len(broken.moves) <= Occupancy(room, doomed)
      BY <1>2, <3>1, <3>2, <3>3, BreakLevels
    <3> QED
      BY <3>4, <3>5
  <2>3. survivors # {}
    <3> SUFFICES ASSUME survivors = {} PROVE FALSE
      OBVIOUS
    <3>1. open = {doomed}
      BY <1>5
    <3>2. Cardinality(open) = 1
      BY <3>1, FS_Singleton
    <3> QED
      BY <1>8, <3>2
  <2>4. Balance(broken, survivors) = broken
    <3>1. survivors \in SUBSET OpenTables(room)
      OBVIOUS
    <3> HIDE DEF survivors
    <3> QED BY <2>2, <2>3, <3>1, BalanceLeaves
  <2>5. moves = broken.moves
    BY <1>1, <1>8, <2>4
  <2>6. after = broken.room
    BY <2>2, <2>5 DEF PlanOk
  <2>7. Len(moves) \in Nat
    <3>1. \E X : broken.moves \in Seq(X)
      BY <2>2 DEF PlanOk
    <3> HIDE DEF moves
    <3> QED
      BY <2>5, <3>1
  <2> HIDE DEF moves, after
  <2> QED
    BY <1>5, <1>8, <2>2, <2>5, <2>6, <2>7 DEF moves, after, doomed
<1> QED
  BY <1>6, <1>7, <1>8

\* A greater factor, a greater product.
LEMMA ProductsGrow ==
  ASSUME NEW a \in Nat, NEW b \in Nat, NEW c \in Nat, a <= b
  PROVE  a * c <= b * c
OBVIOUS

\* The bound on the number of tables.
LEMMA SnugFrom ==
  ASSUME NEW room, IsFiniteSet(OpenTables(room)), NEW c \in Nat, NEW m \in Nat,
         Cardinality(OpenTables(room)) <= m, Cardinality(SeatedIn(room)) \in Nat,
         m > 1 => (m - 1) * c < Cardinality(SeatedIn(room))
  PROVE  Snug(room, c)
<1> DEFINE k == Cardinality(OpenTables(room))
           p == Cardinality(SeatedIn(room))
<1>1. k \in Nat
  BY FS_CardinalityType
<1> HIDE DEF k, p
<1> SUFFICES ASSUME k > 1 PROVE (k - 1) * c < p
  BY DEF k, p, Snug
<1>2. k - 1 \in Nat /\ m - 1 \in Nat /\ k - 1 <= m - 1 /\ m > 1 /\ p \in Nat
  BY <1>1 DEF k, p
<1>3. (k - 1) * c <= (m - 1) * c /\ (k - 1) * c \in Nat /\ (m - 1) * c \in Nat
  BY <1>2, ProductsGrow
<1>4. (m - 1) * c < p
  BY <1>2 DEF p
<1> QED
  BY <1>2, <1>3, <1>4

\* Some of the tables of a room, with the same players, are level if all are.
LEMMA LevelAmong ==
  ASSUME NEW before, NEW after, NEW S, Level(before, S), NEW T \in SUBSET S,
         \A t : Occupants(after, t) = Occupants(before, t)
  PROVE  Level(after, T)
BY DEF Level, Occupancy

-----------------------------------------------------------------------------
(* The routes that move seats.                                             *)

\* Between the routes: everyone seated soundly, no empty table open, all tables alike.
RoomOk(room, D, c) == Sound(room, D) /\ Tidy(room) /\ Alike(room, c)

\* Closing the empty tables leaves everyone where she is.
LEMMA CloseOk ==
  ASSUME NEW D, NEW room, Sound(room, D), NEW c, Alike(room, c)
  PROVE  /\ RoomOk(CloseEmptyTables(room), D, c)
         /\ SeatedIn(CloseEmptyTables(room)) = SeatedIn(room)
         /\ \A t : Occupants(CloseEmptyTables(room), t) = Occupants(room, t)
         /\ OpenTables(CloseEmptyTables(room))
              = {t \in OpenTables(room) : Occupants(room, t) # {}}
<1> DEFINE Empty(t) == Occupants(room, t) = {}
           Row(t) == IF Empty(t) THEN [room.tables[t] EXCEPT !.status = "CLOSED"]
                     ELSE room.tables[t]
           rows == [t \in DOMAIN room.tables |-> Row(t)]
           r == CloseEmptyTables(room)
           X == [status : {"OPEN", "CLOSED"}, capacity : Nat]
<1>1. /\ room \in Rooms(D) /\ room.clash = FALSE /\ DOMAIN room.at = D
      /\ room = [tables |-> room.tables, at |-> room.at, clash |-> FALSE]
      /\ room.tables \in Seq(X)
  BY DEF Sound, Rooms
<1>2. r = [tables |-> rows, at |-> room.at, clash |-> FALSE]
  <2>1. r = [room EXCEPT !.tables = rows]
    BY Zenon DEF CloseEmptyTables
  <2> HIDE DEF rows, r, X
  <2> QED
    BY <1>1, <2>1
<1>3. \A t \in DOMAIN room.tables :
        /\ Row(t) \in X /\ Row(t).capacity = room.tables[t].capacity
        /\ Row(t).status = IF Empty(t) THEN "CLOSED" ELSE room.tables[t].status
  <2> HIDE DEF Empty
  <2>1. \A t \in DOMAIN room.tables : room.tables[t] \in X
    <3> DEFINE ts == room.tables
    <3>1. ts \in Seq(X)
      BY <1>1
    <3> HIDE DEF X, ts
    <3>2. \A t \in DOMAIN ts : ts[t] \in X
      BY <3>1
    <3> QED
      BY <3>2 DEF ts
  <2> QED
    BY <2>1
<1> HIDE DEF Row
<1>4. rows \in Seq(X)
  <2> DEFINE ts == room.tables
  <2>1. ts \in Seq(X) /\ DOMAIN ts = 1 .. Len(ts) /\ Len(ts) \in Nat
    BY <1>1
  <2>2. \A t \in DOMAIN ts : Row(t) \in X
    BY <1>3
  <2> HIDE DEF X, ts
  <2>3. [t \in DOMAIN ts |-> Row(t)] \in Seq(X)
    BY <2>1, <2>2
  <2> QED
    BY <2>3 DEF ts
<1>5. r \in Rooms(D)
  BY <1>1, <1>2, <1>4 DEF Rooms
<1>6. /\ DOMAIN rows = DOMAIN room.tables
      /\ \A t \in DOMAIN rows : rows[t] = Row(t)
  OBVIOUS
<1> HIDE DEF rows, r, X, Empty
<1>7. r.tables = rows /\ r.at = room.at /\ r.clash = FALSE
  BY <1>2
<1>8. \A t : t \in OpenTables(r) <=> t \in OpenTables(room) /\ ~Empty(t)
  BY <1>3, <1>6, <1>7 DEF OpenTables
<1>9. \A t : Occupants(r, t) = Occupants(room, t)
  BY <1>7 DEF Occupants
<1>10. ASSUME NEW e \in D, r.at[e] # NoSeat
       PROVE  SeatIsSound(r, D, e)
  <2>1. SeatIsSound(room, D, e)
    BY <1>7, <1>10 DEF Sound
  <2>2. ~Empty(room.at[e].table)
    BY <1>1 DEF Empty, Occupants
  <2>3. room.at[e].table \in OpenTables(r)
    BY <1>8, <2>1, <2>2 DEF SeatIsSound
  <2>4. r.tables[room.at[e].table].capacity = room.tables[room.at[e].table].capacity
    BY <1>3, <1>6, <1>7, <2>1 DEF SeatIsSound, OpenTables
  <2> QED
    BY <1>7, <2>1, <2>3, <2>4 DEF SeatIsSound
<1>11. Sound(r, D)
  BY <1>5, <1>7, <1>10 DEF Sound
<1>12. Tidy(r)
  BY <1>8, <1>9 DEF Tidy, Empty
<1>13. Alike(r, c)
  BY <1>3, <1>6, <1>7 DEF Alike
<1>14. SeatedIn(r) = SeatedIn(room)
  BY <1>7 DEF SeatedIn
<1>15. OpenTables(r) = {t \in OpenTables(room) : Occupants(room, t) # {}}
  BY <1>8 DEF Empty
<1> QED
  BY <1>9, <1>11, <1>12, <1>13, <1>14, <1>15 DEF RoomOk, r

\* An entry that leaves gives up its seat, and everyone else keeps one.
LEMMA VacateOk ==
  ASSUME NEW D, IsFiniteSet(D), NEW room, NEW c, RoomOk(room, D, c), NEW e
  PROVE  /\ RoomOk(Vacate(room, e), D, c)
         /\ SeatedIn(Vacate(room, e)) = SeatedIn(room) \ {e}
<1> DEFINE vacated == Release(room, {e})
           after == ApplyMoves(vacated, PlanRebalance(vacated))
<1>1. /\ Sound(vacated, D) /\ vacated.tables = room.tables
      /\ vacated.at = [d \in D |-> IF d \in {e} THEN NoSeat ELSE room.at[d]]
  BY ReleaseSeats DEF RoomOk
<1>2. DOMAIN room.at = D
  BY DEF RoomOk, Sound, Rooms
<1>3. SeatedIn(vacated) = SeatedIn(room) \ {e}
  <2> HIDE DEF vacated
  <2> QED BY <1>1, <1>2 DEF SeatedIn
<1>4. Vacate(room, e) = CloseEmptyTables(after)
  BY Zenon DEF Vacate
<1> HIDE DEF vacated
<1>5. Sound(after, D) /\ after.tables = vacated.tables /\ SeatedIn(after) = SeatedIn(vacated)
  BY <1>1, RebalanceOk
<1> HIDE DEF after
<1>6. Alike(after, c)
  BY <1>1, <1>5 DEF Alike, RoomOk
<1>7. /\ RoomOk(CloseEmptyTables(after), D, c)
      /\ SeatedIn(CloseEmptyTables(after)) = SeatedIn(after)
  BY <1>5, <1>6, CloseOk
<1> QED
  BY <1>3, <1>4, <1>5, <1>7

\* The table that an entry leaves lacks two players at most, and no other lacks any.
LEMMA VacatedNearly ==
  ASSUME NEW D, IsFiniteSet(D), NEW room, NEW c, RoomOk(room, D, c),
         Level(room, OpenTables(room)), NEW e \in SeatedIn(room)
  PROVE  LET vacated == Release(room, {e})
             x == room.at[e].table
         IN  /\ Sound(vacated, D) /\ Alike(vacated, c)
             /\ OpenTables(vacated) = OpenTables(room)
             /\ SeatedIn(vacated) = SeatedIn(room) \ {e}
             /\ Nearly(vacated, OpenTables(room), x)
             /\ \A t \in OpenTables(room) : Occupancy(vacated, t) <= Occupancy(vacated, x) + 2
<1> DEFINE vacated == Release(room, {e})
           x == room.at[e].table
           open == OpenTables(room)
<1>1. /\ Sound(room, D) /\ Alike(room, c) /\ room \in Rooms(D) /\ DOMAIN room.at = D
      /\ e \in D /\ room.at[e] # NoSeat
  BY DEF RoomOk, Sound, Rooms, SeatedIn
<1>2. /\ Sound(vacated, D) /\ vacated.tables = room.tables
      /\ vacated.at = [d \in D |-> IF d \in {e} THEN NoSeat ELSE room.at[d]]
  BY <1>1, ReleaseSeats
<1> HIDE DEF vacated
<1>3. Alike(vacated, c) /\ OpenTables(vacated) = open
  BY <1>1, <1>2 DEF Alike, OpenTables
<1>4. SeatedIn(vacated) = SeatedIn(room) \ {e}
  BY <1>1, <1>2 DEF SeatedIn
<1>5. x \in open /\ 0 \notin open
  <2>1. open \in SUBSET (1 .. Len(room.tables)) /\ Len(room.tables) \in Nat
    BY <1>1, RoomTypes
  <2> QED
    BY <1>1, <2>1 DEF Sound, SeatIsSound
<1>6. e \in Occupants(room, x)
  BY <1>1 DEF Occupants
<1>7. \A t \in open : Occupants(vacated, t) = Occupants(room, t) \ {e}
  <2>1. NoSeat.table = 0
    BY DEF NoSeat, Place
  <2> SUFFICES ASSUME NEW t \in open
               PROVE  Occupants(vacated, t) = Occupants(room, t) \ {e}
    OBVIOUS
  <2>2. t # 0
    BY <1>5
  <2>3. \A d \in D : vacated.at[d].table = t <=> d # e /\ room.at[d].table = t
    BY <1>2, <2>1, <2>2
  <2>4. DOMAIN vacated.at = D
    BY <1>2
  <2> QED
    BY <1>1, <2>3, <2>4, Zenon DEF Occupants
<1>8. \A t : IsFiniteSet(Occupants(room, t)) /\ Occupancy(room, t) \in Nat
  BY <1>1, RoomTypes
<1>9. Occupancy(vacated, x) = Occupancy(room, x) - 1
  <2> DEFINE sitting == Occupants(room, x)
  <2>1. e \in sitting /\ IsFiniteSet(sitting)
    BY <1>6, <1>8
  <2> HIDE DEF sitting
  <2>2. Cardinality(sitting \ {e}) = Cardinality(sitting) - 1
    BY <2>1, FS_RemoveElement
  <2> QED
    BY <1>5, <1>7, <2>2 DEF Occupancy, sitting
<1>10. \A t \in open \ {x} : Occupancy(vacated, t) = Occupancy(room, t)
  <2> SUFFICES ASSUME NEW t \in open \ {x} PROVE Occupants(vacated, t) = Occupants(room, t)
    BY DEF Occupancy
  <2>1. e \notin Occupants(room, t)
    BY DEF Occupants
  <2> QED
    BY <1>7, <2>1
<1> HIDE DEF x, open
<1>11. \A m, n \in open : Occupancy(room, m) <= Occupancy(room, n) + 1
  BY DEF Level, open
<1>12. \A m, n \in open \ {x} : Occupancy(vacated, m) <= Occupancy(vacated, n) + 1
  BY <1>10, <1>11
<1>13. ASSUME NEW t \in open
       PROVE  /\ Occupancy(vacated, x) <= Occupancy(vacated, t)
              /\ Occupancy(vacated, t) <= Occupancy(vacated, x) + 2
  <2>1. CASE t = x
    BY <1>8, <1>9, <2>1
  <2>2. CASE t # x
    <3>1. /\ Occupancy(room, x) <= Occupancy(room, t) + 1
          /\ Occupancy(room, t) <= Occupancy(room, x) + 1
          /\ Occupancy(room, t) \in Nat /\ Occupancy(room, x) \in Nat
      BY <1>5, <1>8, <1>11
    <3>2. Occupancy(vacated, t) = Occupancy(room, t)
      BY <1>10, <2>2
    <3> QED
      BY <1>9, <3>1, <3>2
  <2> QED
    BY <2>1, <2>2
<1>14. Nearly(vacated, open, x)
  BY <1>5, <1>12, <1>13 DEF Nearly
<1> QED
  BY <1>2, <1>3, <1>4, <1>13, <1>14 DEF vacated, x, open

\* Tables of which none can be broken are no more than the players need.
LEMMA UnbrokenIsSnug ==
  ASSUME NEW D, IsFiniteSet(D), NEW room, Sound(room, D), NEW c \in Nat, Alike(room, c),
         NEW doomed \in OpenTables(room), ~Breaks(room, OpenTables(room) \ {doomed})
  PROVE  (Cardinality(OpenTables(room)) - 1) * c < Cardinality(SeatedIn(room))
<1> DEFINE open == OpenTables(room)
           survivors == open \ {doomed}
           prod == (Cardinality(open) - 1) * c
           p == Cardinality(SeatedIn(room))
<1>1. /\ room \in Rooms(D) /\ DOMAIN room.at = D /\ IsFiniteSet(open)
      /\ open \in SUBSET DOMAIN room.tables
  <2>1. room \in Rooms(D) /\ DOMAIN room.at = D
    BY DEF Sound, Rooms
  <2> QED
    BY <2>1, RoomTypes DEF OpenTables
<1>2. /\ IsFiniteSet(survivors) /\ Cardinality(survivors) = Cardinality(open) - 1
      /\ Cardinality(open) - 1 \in Nat
  <2> HIDE DEF open
  <2> DEFINE S == open \ {doomed}
  <2>1. IsFiniteSet(S) /\ Cardinality(S) = Cardinality(open) - 1
    BY <1>1, FS_RemoveElement DEF open
  <2>2. Cardinality(S) \in Nat
    BY <2>1, FS_CardinalityType
  <2> QED
    BY <2>1, <2>2
<1>3. Capacity(room, survivors) = Cardinality(survivors) * c
  <2>1. survivors \in SUBSET DOMAIN room.tables
    BY <1>1
  <2> HIDE DEF survivors
  <2> QED BY <1>2, <2>1, CapacityOfAlike
<1>4. ~(p <= Capacity(room, survivors))
  <2>1. PlayersAt(room, open) = SeatedIn(room)
    BY PlayersAreSeated
  <2>2. ~(Cardinality(PlayersAt(room, open)) <= Capacity(room, survivors))
    BY DEF Breaks, PlayersAt
  <2> QED
    BY <2>1, <2>2
<1>5. p \in Nat
  <2>1. SeatedIn(room) \in SUBSET D
    BY <1>1 DEF SeatedIn
  <2> QED
    BY <2>1, FS_Subset, FS_CardinalityType
<1>6. prod \in Int /\ Capacity(room, survivors) = prod
  BY <1>2, <1>3
<1> HIDE DEF prod, p
<1>7. prod < p
  BY <1>4, <1>5, <1>6
<1> QED
  BY <1>7 DEF prod, p

\* An entry that leaves balanced tables leaves them balanced.
LEMMA VacateBalanced ==
  ASSUME NEW D, IsFiniteSet(D), NEW room, NEW c \in Nat \ {0}, RoomOk(room, D, c),
         Balanced(room, c), NEW e \in SeatedIn(room)
  PROVE  Balanced(Vacate(room, e), c)
<1> DEFINE vacated == Release(room, {e})
           x == room.at[e].table
           open == OpenTables(room)
           doomed == Emptiest(vacated, open)
           survivors == open \ {doomed}
           after == ApplyMoves(vacated, PlanRebalance(vacated))
           r == CloseEmptyTables(after)
           few == Cardinality(open) < 2
           m == Cardinality(open)
           p == Cardinality(SeatedIn(room))
<1>1. /\ Sound(vacated, D) /\ Alike(vacated, c)
      /\ OpenTables(vacated) = open
      /\ SeatedIn(vacated) = SeatedIn(room) \ {e}
      /\ Nearly(vacated, open, x)
  <2>1. Level(room, OpenTables(room))
    BY DEF Balanced
  <2> QED
    BY <2>1, VacatedNearly
<1>2. Vacate(room, e) = r
  BY Zenon DEF Vacate
<1> HIDE DEF vacated, x
<1>3. /\ doomed \in open
      /\ few \/ ~Breaks(vacated, survivors) => Level(after, open)
      /\ ~few /\ Breaks(vacated, survivors) =>
           Level(after, survivors) /\ Occupants(after, doomed) = {}
  <2> HIDE DEF open
  <2> QED BY <1>1, RebalanceLevels
<1>4. /\ Sound(after, D) /\ after.tables = vacated.tables /\ SeatedIn(after) = SeatedIn(vacated)
  BY <1>1, RebalanceOk
<1> HIDE DEF after, doomed
<1>5. Alike(after, c) /\ OpenTables(after) = open
  BY <1>1, <1>4 DEF Alike, OpenTables
<1>6. /\ SeatedIn(r) = SeatedIn(after)
      /\ \A t : Occupants(r, t) = Occupants(after, t)
      /\ OpenTables(r) = {t \in OpenTables(after) : Occupants(after, t) # {}}
  BY <1>4, <1>5, CloseOk
<1> HIDE DEF r
<1>7. /\ IsFiniteSet(open) /\ m \in Nat /\ IsFiniteSet(SeatedIn(room)) /\ p \in Nat
      /\ Cardinality(SeatedIn(r)) = p - 1 /\ Cardinality(SeatedIn(r)) \in Nat
  <2>1. room \in Rooms(D) /\ DOMAIN room.at = D
    BY DEF RoomOk, Sound, Rooms
  <2>2. IsFiniteSet(open)
    BY <2>1, RoomTypes
  <2>3. IsFiniteSet(SeatedIn(room))
    BY <2>1, FS_Subset DEF SeatedIn
  <2>4. IsFiniteSet(SeatedIn(room) \ {e}) /\ Cardinality(SeatedIn(room) \ {e}) = p - 1
    BY <2>3, FS_RemoveElement
  <2>5. SeatedIn(r) = SeatedIn(room) \ {e}
    BY <1>1, <1>4, <1>6
  <2> QED
    BY <2>2, <2>3, <2>4, <2>5, FS_CardinalityType
<1> DEFINE open2 == OpenTables(r)
<1>8. open2 \in SUBSET open /\ IsFiniteSet(open2) /\ Cardinality(open2) <= m
  <2>1. open2 \in SUBSET open
    BY <1>5, <1>6
  <2> HIDE DEF open2, open
  <2> QED
    BY <1>7, <2>1, FS_Subset DEF open
<1>9. CASE few
  <2>1. Level(r, open2)
    BY <1>3, <1>6, <1>8, <1>9, LevelAmong
  <2>2. Snug(r, c)
    <3>1. ~(m > 1)
      BY <1>7, <1>9
    <3> HIDE DEF m
    <3> QED
      BY <1>7, <1>8, <3>1, SnugFrom
  <2> QED
    BY <1>2, <2>1, <2>2 DEF Balanced
<1>10. CASE ~few /\ ~Breaks(vacated, survivors)
  <2>1. Level(r, open2)
    BY <1>3, <1>6, <1>8, <1>10, LevelAmong
  <2>2. (m - 1) * c < Cardinality(SeatedIn(r))
    <3>1. doomed \in OpenTables(vacated) /\ ~Breaks(vacated, OpenTables(vacated) \ {doomed})
      BY <1>1, <1>3, <1>10
    <3>2. (Cardinality(OpenTables(vacated)) - 1) * c < Cardinality(SeatedIn(vacated))
      BY <1>1, <3>1, UnbrokenIsSnug
    <3> QED
      BY <1>1, <1>4, <1>6, <3>2
  <2>3. Snug(r, c)
    <3> HIDE DEF m
    <3> QED
      BY <1>7, <1>8, <2>2, SnugFrom
  <2> QED
    BY <1>2, <2>1, <2>3 DEF Balanced
<1>11. CASE ~few /\ Breaks(vacated, survivors)
  <2>1. open2 \in SUBSET survivors
    BY <1>3, <1>6, <1>8, <1>11
  <2>2. Level(r, open2)
    BY <1>3, <1>6, <1>11, <2>1, LevelAmong
  <2>3. m > 1 /\ (m - 1) * c < p
    <3>1. m > 1
      BY <1>7, <1>11
    <3> QED
      BY <3>1 DEF Balanced, Snug
  <2>4. IsFiniteSet(survivors) /\ Cardinality(survivors) = m - 1
    <3> HIDE DEF open
    <3> QED BY <1>3, <1>7, FS_RemoveElement DEF open
  <2>5. Cardinality(open2) <= m - 1
    <3> HIDE DEF open2, survivors
    <3> QED BY <2>1, <2>4, FS_Subset
  <2>6. ((m - 1) - 1) * c < Cardinality(SeatedIn(r))
    <3>1. m - 2 \in Nat /\ (m - 2) + 1 = m - 1 /\ (m - 1) - 1 = m - 2
      BY <1>7, <2>3
    <3>2. ((m - 2) + 1) * c = (m - 2) * c + c /\ (m - 2) * c \in Nat
      BY <3>1, OneTimesMore
    <3>3. (m - 2) * c + c < p
      BY <2>3, <3>1, <3>2
    <3> DEFINE prod == (m - 2) * c
    <3> HIDE DEF prod, m, p
    <3>4. prod \in Nat /\ prod + c < p
      BY <3>2, <3>3 DEF prod
    <3>5. prod < p - 1
      BY <1>7, <3>4
    <3> QED
      BY <1>7, <3>1, <3>5 DEF prod
  <2>7. Snug(r, c)
    <3>1. m - 1 \in Nat
      BY <1>7, <2>3
    <3> DEFINE k == m - 1
    <3> HIDE DEF k, m
    <3> QED
      BY <1>7, <1>8, <2>5, <2>6, <3>1, SnugFrom DEF k
  <2> QED
    BY <1>2, <2>2, <2>7 DEF Balanced
<1> QED
  BY <1>9, <1>10, <1>11

\* A further table leaves everyone where she is.
LEMMA OpenOneMore ==
  ASSUME NEW D, IsFiniteSet(D), NEW room, NEW c \in Nat \ {0}, RoomOk(room, D, c)
  PROVE  LET n == Len(room.tables) + 1
             opened == [room EXCEPT !.tables = Append(@, OpenTable(c))]
         IN  /\ Sound(opened, D) /\ opened.at = room.at /\ Alike(opened, c)
             /\ n \in Nat \ {0} /\ OpenTables(opened) = OpenTables(room) \cup {n}
             /\ OpenTables(room) \in SUBSET (1 .. n - 1)
             /\ opened.tables[n].capacity = c
             /\ \A e \in D : room.at[e].table # n
<1> DEFINE n == Len(room.tables) + 1
           row == OpenTable(c)
           rows == Append(room.tables, row)
           opened == [room EXCEPT !.tables = Append(@, OpenTable(c))]
           X == [status : {"OPEN", "CLOSED"}, capacity : Nat]
<1>1. /\ room \in Rooms(D) /\ room.clash = FALSE /\ DOMAIN room.at = D
      /\ room = [tables |-> room.tables, at |-> room.at, clash |-> FALSE]
      /\ room.tables \in Seq(X)
  BY DEF RoomOk, Sound, Rooms
<1>2. opened = [tables |-> rows, at |-> room.at, clash |-> FALSE]
  <2>1. opened = [room EXCEPT !.tables = rows]
    OBVIOUS
  <2> HIDE DEF rows, opened, X
  <2> QED
    BY <1>1, <2>1
<1>3. row \in X /\ row.status = "OPEN" /\ row.capacity = c
  BY DEF OpenTable
<1>4. /\ rows \in Seq(X) /\ DOMAIN rows = 1 .. n /\ rows[n] = row /\ n \in Nat \ {0}
      /\ DOMAIN room.tables = 1 .. n - 1
      /\ \A t \in 1 .. n - 1 : rows[t] = room.tables[t]
  <2> DEFINE ts == room.tables
  <2>1. ts \in Seq(X)
    BY <1>1
  <2> HIDE DEF X, ts, row
  <2>2. /\ Append(ts, row) \in Seq(X) /\ DOMAIN Append(ts, row) = 1 .. Len(ts) + 1
        /\ Append(ts, row)[Len(ts) + 1] = row /\ Len(ts) \in Nat /\ DOMAIN ts = 1 .. Len(ts)
        /\ \A t \in 1 .. Len(ts) : Append(ts, row)[t] = ts[t]
    BY <1>3, <2>1
  <2>3. (Len(ts) + 1) - 1 = Len(ts) /\ Len(ts) + 1 \in Nat \ {0}
    BY <2>2
  <2> QED
    BY <2>2, <2>3 DEF ts
<1>5. opened \in Rooms(D)
  BY <1>1, <1>2, <1>4 DEF Rooms
<1> HIDE DEF rows, opened, X, row
<1>6. opened.tables = rows /\ opened.at = room.at /\ opened.clash = FALSE
  BY <1>2
<1> HIDE DEF n
<1>7. /\ OpenTables(room) \in SUBSET (1 .. n - 1)
      /\ OpenTables(opened) = OpenTables(room) \cup {n}
  <2>1. n \in 1 .. n /\ \A t \in 1 .. n : t = n \/ t \in 1 .. n - 1
    BY <1>4
  <2>2. \A t \in 1 .. n - 1 : t \in 1 .. n /\ t # n
    BY <1>4
  <2>3. OpenTables(room) = {t \in 1 .. n - 1 : room.tables[t].status = "OPEN"}
    BY <1>4 DEF OpenTables
  <2>4. OpenTables(opened) = {t \in 1 .. n : rows[t].status = "OPEN"}
    BY <1>4, <1>6 DEF OpenTables
  <2> QED
    BY <1>3, <1>4, <2>1, <2>2, <2>3, <2>4
<1>8. \A e \in D : room.at[e].table # n
  <2> SUFFICES ASSUME NEW e \in D, room.at[e].table = n PROVE FALSE
    OBVIOUS
  <2>1. room.at[e] # NoSeat
    BY <1>4 DEF NoSeat, Place
  <2>2. room.at[e].table \in OpenTables(room)
    BY <2>1 DEF RoomOk, Sound, SeatIsSound
  <2> QED
    BY <1>4, <1>7, <2>2
<1>9. ASSUME NEW e \in D, opened.at[e] # NoSeat
      PROVE  SeatIsSound(opened, D, e)
  <2>1. SeatIsSound(room, D, e)
    BY <1>6, <1>9 DEF RoomOk, Sound
  <2> QED
    BY <1>4, <1>6, <1>7, <2>1 DEF SeatIsSound
<1>10. Sound(opened, D)
  BY <1>5, <1>6, <1>9 DEF Sound
<1>11. Alike(opened, c) /\ opened.tables[n].capacity = c
  <2>1. \A t \in 1 .. n - 1 : room.tables[t].capacity = c
    BY <1>4 DEF RoomOk, Alike
  <2>2. \A t \in 1 .. n : t = n \/ t \in 1 .. n - 1
    BY <1>4
  <2> QED
    BY <1>3, <1>4, <1>6, <2>1, <2>2 DEF Alike
<1> QED
  BY <1>4, <1>6, <1>7, <1>8, <1>10, <1>11 DEF n, opened

\* When everyone at the other tables has a full one, a new table is not broken again.
LEMMA NewTableStays ==
  ASSUME NEW D, IsFiniteSet(D), NEW room, Sound(room, D), Tidy(room),
         NEW n \in Nat, NEW e \in D, Occupants(room, n) = {e}, n \in OpenTables(room),
         OpenTables(room) \ {n} \in SUBSET (1 .. n - 1),
         \A t \in OpenTables(room) \ {n} : ~HasFreeSeat(room, t)
  PROVE  ~Breaks(room, OpenTables(room) \ {Emptiest(room, OpenTables(room))})
<1> DEFINE open == OpenTables(room)
           others == open \ {n}
           m == Emptiest(room, open)
<1>1. /\ room \in Rooms(D) /\ open \in SUBSET (1 .. Len(room.tables))
      /\ Len(room.tables) \in Nat /\ \A t : Occupancy(room, t) \in Nat
      /\ \A t : IsFiniteSet(Occupants(room, t))
      /\ DOMAIN room.tables = 1 .. Len(room.tables)
  <2>1. room \in Rooms(D)
    BY DEF Sound
  <2> QED
    BY <2>1, RoomTypes
<1>2. /\ m \in open
      /\ \A o \in open \ {m} : \/ Occupancy(room, o) > Occupancy(room, m)
                               \/ Occupancy(room, o) = Occupancy(room, m) /\ o < m
  <2>1. open # {}
    OBVIOUS
  <2> HIDE DEF open
  <2> QED BY <1>1, <2>1, EmptiestOf
<1>3. Occupancy(room, n) = 1
  BY FS_Singleton DEF Occupancy
<1>4. \A t \in open : Occupancy(room, t) >= 1
  <2> SUFFICES ASSUME NEW t \in open PROVE Occupancy(room, t) >= 1
    OBVIOUS
  <2>1. Occupants(room, t) # {} /\ IsFiniteSet(Occupants(room, t)) /\ Occupancy(room, t) \in Nat
    BY <1>1 DEF Tidy
  <2>2. Occupancy(room, t) # 0
    BY <2>1, FS_EmptySet DEF Occupancy
  <2> QED
    BY <2>1, <2>2
<1> HIDE DEF m
<1>5. m = n
  <2> SUFFICES ASSUME m # n PROVE FALSE
    OBVIOUS
  <2>1. n \in open \ {m} /\ m \in others
    BY <1>2
  <2>2. m \in 1 .. n - 1
    BY <2>1
  <2>3. \/ Occupancy(room, n) > Occupancy(room, m)
        \/ Occupancy(room, n) = Occupancy(room, m) /\ n < m
    BY <1>2, <2>1
  <2>4. Occupancy(room, m) >= 1 /\ Occupancy(room, m) \in Nat
    BY <1>1, <1>2, <1>4
  <2> HIDE DEF open, others
  <2> QED
    BY <1>3, <2>2, <2>3, <2>4
<1>6. /\ Capacity(room, others) \in Int
      /\ IsFiniteSet(PlayersAt(room, others))
      /\ Cardinality(PlayersAt(room, others)) >= Capacity(room, others)
  <2>1. others \in SUBSET (DOMAIN room.tables)
    BY <1>1
  <2>2. \A t \in others : ~HasFreeSeat(room, t)
    OBVIOUS
  <2> HIDE DEF others
  <2> QED BY <1>1, <2>1, <2>2, FullTables
<1>7. /\ e \notin PlayersAt(room, others)
      /\ PlayersAt(room, open) = PlayersAt(room, others) \cup {e}
  <2>1. e \in Occupants(room, n)
    OBVIOUS
  <2>2. e \notin PlayersAt(room, others)
    BY <2>1 DEF PlayersAt, Occupants
  <2>3. open = others \cup {n}
    OBVIOUS
  <2> HIDE DEF open, others
  <2>4. PlayersAt(room, open) = PlayersAt(room, others) \cup Occupants(room, n)
    BY <2>3 DEF PlayersAt
  <2> QED
    BY <2>2, <2>4
<1>8. Cardinality(PlayersAt(room, open)) = Cardinality(PlayersAt(room, others)) + 1
  <2> HIDE DEF open, others
  <2> QED BY <1>6, <1>7, FS_AddElement
<1>9. Cardinality(PlayersAt(room, others)) \in Nat
  <2> HIDE DEF others
  <2> QED BY <1>6, FS_CardinalityType
<1>10. ~(Cardinality(PlayersAt(room, open)) <= Capacity(room, others))
  <2> HIDE DEF open, others
  <2> QED BY <1>6, <1>8, <1>9
<1> QED
  BY <1>5, <1>10 DEF Breaks, PlayersAt, m

\* Whoever takes a free seat sits at that table, and everyone else where she was.
LEMMA NewcomerSits ==
  ASSUME NEW D, NEW room, NEW r, NEW t, NEW e \in D, t # 0,
         DOMAIN room.at = D, room.at[e] = NoSeat, DOMAIN r.at = D, r.at[e].table = t,
         \A d \in D : d # e => r.at[d] = room.at[d]
  PROVE  /\ SeatedIn(r) = SeatedIn(room) \cup {e}
         /\ Occupants(r, t) = Occupants(room, t) \cup {e}
         /\ \A o : o # 0 /\ o # t => Occupants(r, o) = Occupants(room, o)
<1>1. NoSeat.table = 0
  BY DEF Place, NoSeat
<1>2. r.at[e] # NoSeat
  BY <1>1
<1>3. SeatedIn(r) = SeatedIn(room) \cup {e}
  BY <1>2 DEF SeatedIn
<1>4. \A o : Occupants(r, o) = {d \in D : IF d = e THEN o = t ELSE room.at[d].table = o}
  BY DEF Occupants
<1>5. \A o : o # 0 => Occupants(room, o) = {d \in D : d # e /\ room.at[d].table = o}
  BY <1>1 DEF Occupants
<1>6. Occupants(r, t) = Occupants(room, t) \cup {e}
  BY <1>4, <1>5
<1>7. \A o : o # 0 /\ o # t => Occupants(r, o) = Occupants(room, o)
  BY <1>4, <1>5
<1> QED
  BY <1>3, <1>6, <1>7

\* Whoever sits down at a table as empty as any leaves balanced tables balanced.
LEMMA NewcomerKeepsBalance ==
  ASSUME NEW D, IsFiniteSet(D), NEW room, NEW c \in Nat, RoomOk(room, D, c),
         Balanced(room, c), NEW near, NEW to \in OpenTables(room), NEW e \in D,
         room.at[e] = NoSeat, OpenTables(near) = OpenTables(room),
         SeatedIn(near) = SeatedIn(room) \cup {e},
         Occupants(near, to) = Occupants(room, to) \cup {e},
         \A o : o # 0 /\ o # to => Occupants(near, o) = Occupants(room, o),
         \A o \in OpenTables(room) : Occupancy(room, to) <= Occupancy(room, o)
  PROVE  Balanced(near, c)
<1> DEFINE open == OpenTables(room)
           m == Cardinality(open)
           p == Cardinality(SeatedIn(room))
<1>1. /\ room \in Rooms(D) /\ DOMAIN room.at = D /\ IsFiniteSet(open)
      /\ open \in SUBSET (1 .. Len(room.tables)) /\ Len(room.tables) \in Nat
      /\ \A t : IsFiniteSet(Occupants(room, t)) /\ Occupancy(room, t) \in Nat
  <2>1. room \in Rooms(D)
    BY DEF RoomOk, Sound
  <2> QED
    BY <2>1, RoomTypes
<1>2. 0 \notin open /\ e \notin Occupants(room, to)
  BY <1>1 DEF Occupants, NoSeat, Place
<1>3. Occupancy(near, to) = Occupancy(room, to) + 1
  <2> DEFINE sitting == Occupants(room, to)
  <2> HIDE DEF sitting
  <2>1. Cardinality(sitting \cup {e}) = Cardinality(sitting) + 1
    BY <1>1, <1>2, FS_AddElement DEF sitting
  <2> QED
    BY <2>1 DEF Occupancy, sitting
<1>4. \A t \in open \ {to} : Occupancy(near, t) = Occupancy(room, t)
  BY <1>2 DEF Occupancy
<1>5. Level(near, open)
  <2>1. Level(room, open) /\ to \in open
    BY DEF Balanced
  <2>2. \A t \in open : Occupancy(room, t) \in Nat /\ Occupancy(room, to) <= Occupancy(room, t)
    BY <1>1
  <2> HIDE DEF open
  <2> QED
    BY <1>3, <1>4, <2>1, <2>2, LevelStays
<1>6. /\ SeatedIn(room) \in SUBSET D /\ IsFiniteSet(SeatedIn(room)) /\ p \in Nat
      /\ Cardinality(SeatedIn(near)) = p + 1
  <2>1. SeatedIn(room) \in SUBSET D /\ e \notin SeatedIn(room)
    BY <1>1 DEF SeatedIn
  <2>2. IsFiniteSet(SeatedIn(room))
    BY <2>1, FS_Subset
  <2> QED
    BY <2>1, <2>2, FS_AddElement, FS_CardinalityType
<1>7. m > 1 => (m - 1) * c < p
  BY DEF Balanced, Snug
<1>8. m \in Nat
  BY <1>1, FS_CardinalityType
<1>9. m > 1 => (m - 1) * c < p + 1
  <2> DEFINE prod == (m - 1) * c
  <2>1. prod \in Int
    BY <1>8
  <2>2. m > 1 => prod < p
    BY <1>7
  <2> HIDE DEF prod, p, m
  <2>3. m > 1 => prod < p + 1
    BY <1>6, <2>1, <2>2
  <2> QED
    BY <2>3 DEF prod
<1>10. Snug(near, c)
  BY <1>6, <1>9 DEF Snug
<1> QED
  BY <1>5, <1>10 DEF Balanced

\* One table alone is balanced.
LEMMA OneTableIsBalanced ==
  ASSUME NEW D, IsFiniteSet(D), NEW room, NEW c, Sound(room, D), NEW n, OpenTables(room) = {n}
  PROVE  Balanced(room, c)
<1>1. Occupancy(room, n) \in Nat
  BY RoomTypes DEF Sound
<1>2. Cardinality(OpenTables(room)) = 1
  BY FS_Singleton
<1> QED
  BY <1>1, <1>2 DEF Balanced, Level, Snug

\* A table opened next to full ones is filled from them until they are level.
LEMMA NewTableLevels ==
  ASSUME NEW D, IsFiniteSet(D), NEW room, NEW c \in Nat \ {0}, RoomOk(room, D, c),
         NEW n \in Nat \ {0}, NEW e \in D, Occupants(room, n) = {e}, n \in OpenTables(room),
         OpenTables(room) \ {n} \in SUBSET (1 .. n - 1),
         \A t \in OpenTables(room) \ {n} : ~HasFreeSeat(room, t)
  PROVE  Balanced(ApplyMoves(room, PlanRebalance(room)), c)
<1> DEFINE open == OpenTables(room)
           doomed == Emptiest(room, open)
           after == ApplyMoves(room, PlanRebalance(room))
<1>1. Sound(room, D) /\ Tidy(room) /\ Alike(room, c) /\ room \in Rooms(D)
  BY DEF RoomOk, Sound
<1>2. Occupancy(room, n) = 1
  BY FS_Singleton DEF Occupancy
<1>3. \A t \in open \ {n} : Occupancy(room, t) = c
  <2> SUFFICES ASSUME NEW t \in open \ {n} PROVE Occupancy(room, t) = c
    OBVIOUS
  <2>1. t \in OpenTables(room) /\ Occupancy(room, t) <= c
    BY <1>1, OccupancyWithin
  <2>2. room.tables[t].capacity = c
    BY <1>1, <2>1 DEF Alike, OpenTables
  <2>3. ~(Occupancy(room, t) < c) /\ Occupancy(room, t) \in Nat
    BY <1>1, <2>2, RoomTypes DEF HasFreeSeat
  <2> QED
    BY <2>1, <2>3
<1>4. Nearly(room, open, n)
  BY <1>2, <1>3 DEF Nearly
<1>5. ~Breaks(room, open \ {doomed})
  BY <1>1, NewTableStays
<1>6. doomed \in open /\ Level(after, open)
  <2> HIDE DEF open
  <2> QED BY <1>1, <1>4, <1>5, RebalanceLevels DEF open
<1>7. /\ Sound(after, D) /\ after.tables = room.tables /\ SeatedIn(after) = SeatedIn(room)
  BY <1>1, RebalanceOk
<1>8. (Cardinality(open) - 1) * c < Cardinality(SeatedIn(room))
  BY <1>1, <1>5, <1>6, UnbrokenIsSnug
<1> HIDE DEF after
<1>9. OpenTables(after) = open
  BY <1>7 DEF OpenTables
<1>10. Snug(after, c)
  <2> HIDE DEF open
  <2>1. (Cardinality(OpenTables(after)) - 1) * c < Cardinality(SeatedIn(after))
    BY <1>7, <1>8, <1>9
  <2> QED
    BY <2>1 DEF Snug
<1>11. Level(after, OpenTables(after))
  BY <1>6, <1>9
<1>12. Balanced(after, c)
  BY <1>10, <1>11 DEF Balanced
<1> QED
  BY <1>12 DEF after

\* An entry that comes gets a seat, and everyone else keeps one; the tables stay balanced.
LEMMA SeatEntryOk ==
  ASSUME NEW D, IsFiniteSet(D), NEW room, NEW c \in Nat \ {0}, RoomOk(room, D, c),
         NEW e \in D, room.at[e] = NoSeat
  PROVE  /\ RoomOk(SeatEntry(room, e, c), D, c)
         /\ SeatedIn(SeatEntry(room, e, c)) = SeatedIn(room) \cup {e}
         /\ Balanced(room, c) => Balanced(SeatEntry(room, e, c), c)
<1> DEFINE open == OpenTables(room)
           candidates == {t \in open : HasFreeSeat(room, t)}
           target == Emptiest(room, candidates)
           seat == FirstFreeSeat(room, target)
           n == Len(room.tables) + 1
           opened == [room EXCEPT !.tables = Append(@, OpenTable(c))]
           near == TakePlace(room, e, Place(target, seat))
           far == TakePlace(opened, e, Place(n, 1))
<1>1. SeatEntry(room, e, c) = IF candidates = {} THEN FillNewTable(room, far)
                              ELSE FillNewTable(room, near)
  <2> DEFINE plan == PlanInitialSeat(room, c)
  <2>1. SeatEntry(room, e, c)
          = FillNewTable(room, TakePlace(IF plan.opens THEN opened ELSE room, e, plan.place))
    BY Zenon DEF SeatEntry
  <2>2. CASE candidates = {}
    <3>1. plan = [place |-> Place(n, 1), opens |-> TRUE]
      BY <2>2, Zenon DEF PlanInitialSeat
    <3>2. plan.place = Place(n, 1) /\ plan.opens
      BY <3>1
    <3> HIDE DEF plan, opened
    <3> QED
      BY <2>1, <2>2, <3>2
  <2>3. CASE candidates # {}
    <3>1. plan = [place |-> Place(target, seat), opens |-> FALSE]
      BY <2>3, Zenon DEF PlanInitialSeat
    <3>2. plan.place = Place(target, seat) /\ ~plan.opens
      BY <3>1
    <3> HIDE DEF plan, opened, target, seat, candidates
    <3> QED
      BY <2>1, <2>3, <3>2
  <2> QED
    BY <2>2, <2>3
<1>2. /\ Sound(room, D) /\ Tidy(room) /\ Alike(room, c) /\ room \in Rooms(D)
      /\ DOMAIN room.at = D
  BY DEF RoomOk, Sound, Rooms
<1>3. /\ open \in SUBSET (1 .. Len(room.tables)) /\ Len(room.tables) \in Nat
      /\ \A t : Occupancy(room, t) \in Nat
  BY <1>2, RoomTypes
<1>4. ASSUME candidates # {}
      PROVE  /\ RoomOk(SeatEntry(room, e, c), D, c)
             /\ SeatedIn(SeatEntry(room, e, c)) = SeatedIn(room) \cup {e}
             /\ Balanced(room, c) => Balanced(SeatEntry(room, e, c), c)
  <2>1. /\ target \in candidates
        /\ \A o \in open : Occupancy(room, target) <= Occupancy(room, o)
    <3>1. open \in SUBSET OpenTables(room) /\ candidates = {t \in open : HasFreeSeat(room, t)}
      OBVIOUS
    <3> HIDE DEF candidates, open
    <3> QED BY <1>2, <1>4, <3>1, EmptiestWithSeat
  <2> HIDE DEF target
  <2>2. target \in open /\ HasFreeSeat(room, target) /\ target # 0
    BY <1>3, <2>1
  <2>3. seat \in 1 .. room.tables[target].capacity /\ \A o \in D : room.at[o] # Place(target, seat)
    BY <1>2, <2>2, FreeSeat
  <2> HIDE DEF seat
  <2>4. /\ Sound(near, D) /\ near.tables = room.tables
        /\ near.at = [room.at EXCEPT ![e] = Place(target, seat)]
    BY <1>2, <2>2, <2>3, TakeFreeSeat
  <2> HIDE DEF near
  <2>5. OpenTables(near) = open
    BY <2>4 DEF OpenTables
  <2>6. FillNewTable(room, near) = near
    BY <2>5 DEF FillNewTable
  <2>7. /\ SeatedIn(near) = SeatedIn(room) \cup {e}
        /\ Occupants(near, target) = Occupants(room, target) \cup {e}
        /\ \A o : o # 0 /\ o # target => Occupants(near, o) = Occupants(room, o)
    <3>1. DOMAIN room.at = D
      BY <1>2
    <3>2. e \in D /\ room.at[e] = NoSeat
      OBVIOUS
    <3>3. target # 0
      BY <2>2
    <3>4. near.at = [room.at EXCEPT ![e] = Place(target, seat)]
      BY <2>4
    <3>5. DOMAIN near.at = D
      BY <3>1, <3>4
    <3>6. near.at[e].table = target
      BY <3>1, <3>2, <3>4 DEF Place
    <3>7. \A d \in D : d # e => near.at[d] = room.at[d]
      BY <3>1, <3>4
    <3>8. e \in D
      OBVIOUS
    <3>9. room.at[e] = NoSeat
      OBVIOUS
    <3> QED
      BY ONLY <3>1, <3>3, <3>5, <3>6, <3>7, <3>8, <3>9, NewcomerSits, SMTT(30)
  <2>8. Tidy(near)
    <3>1. 0 \notin open
      BY <1>3
    <3> QED
      BY <1>2, <2>5, <2>7, <3>1 DEF Tidy
  <2>9. Alike(near, c)
    BY <1>2, <2>4 DEF Alike
  <2>10. SeatEntry(room, e, c) = near
    BY <1>1, <1>4, <2>6
  <2>11. Balanced(room, c) => Balanced(near, c)
    <3> SUFFICES ASSUME Balanced(room, c) PROVE Balanced(near, c)
      OBVIOUS
    <3>1. room.at[e] = NoSeat /\ RoomOk(room, D, c) /\ target \in OpenTables(room)
      BY <2>2
    <3> QED
      BY <2>1, <2>5, <2>7, <3>1, NewcomerKeepsBalance
  <2> QED
    BY <2>4, <2>7, <2>8, <2>9, <2>10, <2>11 DEF RoomOk
<1>5. ASSUME candidates = {}
      PROVE  /\ RoomOk(SeatEntry(room, e, c), D, c)
             /\ SeatedIn(SeatEntry(room, e, c)) = SeatedIn(room) \cup {e}
             /\ Balanced(room, c) => Balanced(SeatEntry(room, e, c), c)
  <2>1. /\ Sound(opened, D) /\ opened.at = room.at /\ Alike(opened, c)
        /\ n \in Nat \ {0} /\ OpenTables(opened) = open \cup {n}
        /\ open \in SUBSET (1 .. n - 1)
        /\ opened.tables[n].capacity = c
        /\ \A d \in D : room.at[d].table # n
    BY OpenOneMore, ZenonT(60)
  <2> HIDE DEF opened, n
  <2>2. /\ Sound(far, D) /\ far.tables = opened.tables
        /\ far.at = [opened.at EXCEPT ![e] = Place(n, 1)]
    <3>1. n \in OpenTables(opened) /\ 1 \in 1 .. opened.tables[n].capacity
      BY <2>1
    <3>2. \A o \in D : opened.at[o] # Place(n, 1)
      BY <2>1 DEF Place
    <3> QED
      BY <2>1, <3>1, <3>2, TakeFreeSeat
  <2> HIDE DEF far
  <2>3. /\ SeatedIn(far) = SeatedIn(room) \cup {e}
        /\ Occupants(far, n) = Occupants(room, n) \cup {e}
        /\ \A o : o # 0 /\ o # n => Occupants(far, o) = Occupants(room, o)
    <3>1. DOMAIN room.at = D
      BY <1>2
    <3>2. e \in D /\ room.at[e] = NoSeat
      OBVIOUS
    <3>3. n # 0
      BY <2>1
    <3>4. far.at = [room.at EXCEPT ![e] = Place(n, 1)]
      BY <2>1, <2>2
    <3>5. DOMAIN far.at = D
      BY <3>1, <3>4
    <3>6. far.at[e].table = n
      BY <3>1, <3>2, <3>4 DEF Place
    <3>7. \A d \in D : d # e => far.at[d] = room.at[d]
      BY <3>1, <3>4
    <3>8. e \in D
      OBVIOUS
    <3>9. room.at[e] = NoSeat
      OBVIOUS
    <3> QED
      BY ONLY <3>1, <3>3, <3>5, <3>6, <3>7, <3>8, <3>9, NewcomerSits, SMTT(30)
  <2>4. Occupants(room, n) = {}
    BY <1>2, <2>1 DEF Occupants
  <2>5. OpenTables(far) = open \cup {n} /\ 0 \notin open /\ n \notin open
    <3>1. OpenTables(far) = OpenTables(opened)
      BY <2>2 DEF OpenTables
    <3>2. n \notin 1 .. n - 1 /\ 0 \notin 1 .. n - 1
      BY <2>1
    <3> QED
      BY <2>1, <3>1, <3>2
  <2>6. Tidy(far)
    BY <1>2, <2>3, <2>5 DEF Tidy
  <2>7. Alike(far, c)
    BY <2>1, <2>2 DEF Alike
  <2>8. SeatEntry(room, e, c) = FillNewTable(room, far)
    BY <1>1, <1>5
  <2>9. CASE open = {}
    <3>1. FillNewTable(room, far) = far
      BY <2>9 DEF FillNewTable
    <3>2. Balanced(far, c)
      <4>1. OpenTables(far) = {n}
        BY <2>5, <2>9
      <4> QED
        BY <2>2, <4>1, OneTableIsBalanced
    <3> QED
      BY <2>2, <2>3, <2>6, <2>7, <2>8, <3>1, <3>2 DEF RoomOk
  <2>10. CASE open # {}
    <3> DEFINE after == ApplyMoves(far, PlanRebalance(far))
    <3>1. FillNewTable(room, far) = after
      BY <2>5, <2>10 DEF FillNewTable
    <3>2. \A t \in open : ~HasFreeSeat(far, t)
      <4> SUFFICES ASSUME NEW t \in open PROVE ~HasFreeSeat(far, t)
        OBVIOUS
      <4>1. Occupants(far, t) = Occupants(room, t)
        BY <2>3, <2>5
      <4>2. far.tables[t].capacity = room.tables[t].capacity
        <5>1. t \in DOMAIN far.tables
          BY <2>5 DEF OpenTables
        <5>2. t \in DOMAIN room.tables
          BY DEF OpenTables
        <5> QED
          BY <1>2, <2>7, <5>1, <5>2 DEF Alike
      <4>3. ~HasFreeSeat(room, t)
        BY <1>5
      <4> QED
        BY <4>1, <4>2, <4>3 DEF HasFreeSeat, Occupancy
    <3>3. /\ Occupants(far, n) = {e} /\ n \in OpenTables(far) /\ n \in Nat \ {0}
          /\ OpenTables(far) \ {n} \in SUBSET (1 .. n - 1)
          /\ \A t \in OpenTables(far) \ {n} : ~HasFreeSeat(far, t)
      <4>1. OpenTables(far) \ {n} = open
        BY <2>5
      <4> QED
        BY <2>1, <2>3, <2>4, <2>5, <3>2, <4>1
    <3>4. /\ Sound(after, D) /\ after.tables = far.tables /\ SeatedIn(after) = SeatedIn(far)
          /\ Tidy(after)
      <4>1. ~Breaks(far, OpenTables(far) \ {Emptiest(far, OpenTables(far))})
        BY <2>2, <2>6, <3>3, NewTableStays
      <4> QED
        BY <2>2, <2>6, <4>1, RebalanceOk
    <3>6. Balanced(after, c)
      <4>1. RoomOk(far, D, c)
        BY <2>2, <2>6, <2>7 DEF RoomOk
      <4> HIDE DEF after
      <4> QED
        BY <3>3, <4>1, NewTableLevels DEF after
    <3> HIDE DEF after
    <3>5. Alike(after, c)
      BY <2>7, <3>4 DEF Alike
    <3> QED
      BY <2>3, <2>8, <3>1, <3>4, <3>5, <3>6 DEF RoomOk
  <2> QED
    BY <2>9, <2>10
<1> HIDE DEF candidates
<1> QED
  BY <1>4, <1>5

-----------------------------------------------------------------------------
(* The members of a set of numbers in their order.                         *)

\* Below(S, x) are the members of S before x.
Below(S, x) == {y \in S : y < x}

\* A finite set of numbers has a member of each rank.
LEMMA RankExists ==
  ASSUME NEW S \in SUBSET Nat, IsFiniteSet(S)
  PROVE  \A n \in Nat : n < Cardinality(S) => \E x \in S : Cardinality(Below(S, x)) = n
<1> DEFINE T == {n \in Nat : n < Cardinality(S) =>
                   \E x \in S : Cardinality(Below(S, x)) = n}
<1>1. Cardinality(S) \in Nat
  BY FS_CardinalityType
<1>2. 0 \in T
  <2> SUFFICES ASSUME 0 < Cardinality(S) PROVE \E x \in S : Cardinality(Below(S, x)) = 0
    OBVIOUS
  <2>1. S # {}
    BY <1>1, FS_EmptySet
  <2>2. PICK x \in S : \A y \in S : x <= y
    BY <2>1, LeastNatural
  <2>3. Below(S, x) = {}
    <3>1. \A y \in S : y \in Nat /\ x \in Nat /\ x <= y
      BY <2>2
    <3>2. \A y \in S : ~(y < x)
      BY <3>1
    <3> QED
      BY <3>2 DEF Below
  <2> QED
    BY <2>2, <2>3, FS_EmptySet
<1>3. ASSUME NEW n \in Nat, n \in T PROVE n + 1 \in T
  <2> SUFFICES ASSUME n + 1 < Cardinality(S)
               PROVE  \E z \in S : Cardinality(Below(S, z)) = n + 1
    OBVIOUS
  <2>1. PICK x \in S : Cardinality(Below(S, x)) = n
    BY <1>1, <1>3
  <2> DEFINE upTo == Below(S, x) \cup {x}
             above == S \ upTo
  <2>2. IsFiniteSet(Below(S, x)) /\ x \notin Below(S, x)
    BY FS_Subset DEF Below
  <2>3. IsFiniteSet(upTo) /\ Cardinality(upTo) = n + 1
    BY <2>1, <2>2, FS_AddElement
  <2>4. above # {}
    <3> SUFFICES ASSUME above = {} PROVE FALSE
      OBVIOUS
    <3>1. upTo = S
      BY DEF Below
    <3> QED
      BY <1>1, <2>3, <3>1
  <2>5. PICK z \in above : \A y \in above : z <= y
    BY <2>4, LeastNatural
  <2>6. Below(S, z) = upTo
    <3>1. /\ z \in S /\ z \in Nat /\ x \in Nat /\ z # x /\ ~(z < x)
          /\ \A y \in S : y \in Nat
      BY <2>5 DEF Below
    <3>2. \A y \in S : y < z => y < x \/ y = x
      BY <2>5, <3>1 DEF Below
    <3>3. \A y \in S : y < x \/ y = x => y < z
      BY <3>1
    <3> QED
      BY <3>2, <3>3 DEF Below
  <2> QED
    BY <2>3, <2>5, <2>6
<1> HIDE DEF T
<1>4. Nat \subseteq T
  BY <1>2, <1>3, NatSetInduction
<1> QED
  BY <1>4 DEF T

\* The ascending sequence of a finite set of numbers holds its members.
LEMMA AscendingMembers ==
  ASSUME NEW S \in SUBSET Nat, IsFiniteSet(S)
  PROVE  /\ Cardinality(S) \in Nat
         /\ DOMAIN Ascending(S) = 1 .. Cardinality(S)
         /\ Ascending(S) \in Seq(S)
         /\ \A i \in DOMAIN Ascending(S) : Ascending(S)[i] \in S
<1>1. Cardinality(S) \in Nat
  BY FS_CardinalityType
<1>2. \A i \in 1 .. Cardinality(S) : \E x \in S : Cardinality({y \in S : y < x}) = i - 1
  BY <1>1, RankExists DEF Below
<1>3. \A i \in 1 .. Cardinality(S) :
        (CHOOSE x \in S : Cardinality({y \in S : y < x}) = i - 1) \in S
  BY <1>2
<1> DEFINE pick(i) == CHOOSE x \in S : Cardinality({y \in S : y < x}) = i - 1
           sequence == [i \in 1 .. Cardinality(S) |-> pick(i)]
<1>4. Ascending(S) = sequence
  BY DEF Ascending
<1>5. \A i \in 1 .. Cardinality(S) : pick(i) \in S
  BY <1>3
<1> HIDE DEF pick
<1>6. /\ sequence \in Seq(S) /\ DOMAIN sequence = 1 .. Cardinality(S)
      /\ \A i \in 1 .. Cardinality(S) : sequence[i] \in S
  BY <1>1, <1>5
<1> HIDE DEF sequence
<1> QED
  BY <1>1, <1>4, <1>6

\* Different members of a set of numbers have different ranks.
LEMMA RanksDiffer ==
  ASSUME NEW S \in SUBSET Nat, IsFiniteSet(S), NEW x \in S, NEW y \in S, x < y
  PROVE  Cardinality(Below(S, x)) # Cardinality(Below(S, y))
<1>1. /\ IsFiniteSet(Below(S, x)) /\ IsFiniteSet(Below(S, y)) /\ x \notin Below(S, x)
  BY FS_Subset DEF Below
<1>2. Below(S, x) \cup {x} \subseteq Below(S, y)
  <2>1. \A z \in S : z < x => z < y
    <3>1. \A z \in S : z \in Nat /\ x \in Nat /\ y \in Nat
      OBVIOUS
    <3> QED
      BY <3>1
  <2> QED
    BY <2>1 DEF Below
<1>3. Cardinality(Below(S, x) \cup {x}) = Cardinality(Below(S, x)) + 1
  BY <1>1, FS_AddElement
<1>4. Cardinality(Below(S, x) \cup {x}) <= Cardinality(Below(S, y))
  BY <1>1, <1>2, FS_Subset
<1>5. Cardinality(Below(S, x)) \in Nat /\ Cardinality(Below(S, y)) \in Nat
  BY <1>1, FS_CardinalityType
<1> QED
  BY <1>3, <1>4, <1>5

\* The ascending sequence of a finite set of numbers holds each member once.
LEMMA AscendingOnce ==
  ASSUME NEW S \in SUBSET Nat, IsFiniteSet(S)
  PROVE  /\ \A i, j \in DOMAIN Ascending(S) : Ascending(S)[i] = Ascending(S)[j] => i = j
         /\ \A x \in S : \E i \in DOMAIN Ascending(S) : Ascending(S)[i] = x
<1> DEFINE rank(x) == Cardinality(Below(S, x))
<1>1. Cardinality(S) \in Nat /\ DOMAIN Ascending(S) = 1 .. Cardinality(S)
  BY AscendingMembers
<1>2. \A i \in 1 .. Cardinality(S) :
        Ascending(S)[i] = CHOOSE x \in S : Cardinality({y \in S : y < x}) = i - 1
  BY DEF Ascending
<1>3. \A i \in DOMAIN Ascending(S) : Ascending(S)[i] \in S /\ rank(Ascending(S)[i]) = i - 1
  <2> SUFFICES ASSUME NEW i \in 1 .. Cardinality(S)
               PROVE  Ascending(S)[i] \in S /\ rank(Ascending(S)[i]) = i - 1
    BY <1>1
  <2>1. i - 1 \in Nat /\ i - 1 < Cardinality(S)
    BY <1>1
  <2>2. \E x \in S : rank(x) = i - 1
    BY <2>1, RankExists
  <2>3. Ascending(S)[i] = CHOOSE x \in S : rank(x) = i - 1
    BY <1>2 DEF Below
  <2> HIDE DEF rank
  <2> QED
    BY <2>2, <2>3
<1>4. \A x, y \in S : rank(x) = rank(y) => x = y
  <2> SUFFICES ASSUME NEW x \in S, NEW y \in S, x # y PROVE rank(x) # rank(y)
    OBVIOUS
  <2>1. x \in Nat /\ y \in Nat /\ (x < y \/ y < x)
    OBVIOUS
  <2> QED
    BY <2>1, RanksDiffer
<1>5. \A x \in S : rank(x) \in Nat /\ rank(x) < Cardinality(S)
  <2> SUFFICES ASSUME NEW x \in S PROVE rank(x) \in Nat /\ rank(x) < Cardinality(S)
    OBVIOUS
  <2>1. /\ IsFiniteSet(Below(S, x)) /\ x \notin Below(S, x)
        /\ Below(S, x) \cup {x} \subseteq S
    BY FS_Subset DEF Below
  <2>2. Cardinality(Below(S, x) \cup {x}) = Cardinality(Below(S, x)) + 1
    BY <2>1, FS_AddElement
  <2>3. Cardinality(Below(S, x) \cup {x}) <= Cardinality(S)
    BY <2>1, FS_Subset
  <2>4. Cardinality(Below(S, x)) \in Nat
    BY <2>1, FS_CardinalityType
  <2> QED
    BY <1>1, <2>2, <2>3, <2>4
<1> HIDE DEF rank
<1>6. ASSUME NEW i \in DOMAIN Ascending(S), NEW j \in DOMAIN Ascending(S),
             Ascending(S)[i] = Ascending(S)[j]
      PROVE  i = j
  <2>1. i - 1 = j - 1 /\ i \in Nat /\ j \in Nat
    BY <1>1, <1>3, <1>6
  <2> QED
    BY <2>1
<1>7. ASSUME NEW x \in S PROVE \E i \in DOMAIN Ascending(S) : Ascending(S)[i] = x
  <2>1. PICK i : i = rank(x) + 1
    OBVIOUS
  <2>2. i \in DOMAIN Ascending(S) /\ i - 1 = rank(x)
    BY <1>1, <1>5, <2>1
  <2>3. Ascending(S)[i] \in S /\ rank(Ascending(S)[i]) = rank(x)
    BY <1>3, <2>2
  <2> QED
    BY <1>4, <2>2, <2>3
<1> QED
  BY <1>6, <1>7

-----------------------------------------------------------------------------
(* A redraw.                                                               *)

\* What the quotient and the remainder of a natural number are bounded by.
LEMMA Division ==
  ASSUME NEW a \in Nat, NEW n \in Nat \ {0}
  PROVE  /\ a \div n \in Nat /\ a % n \in 0 .. n - 1
         /\ n * (a \div n) <= a /\ a < n * (a \div n) + n
<1>1. a \div n \in Nat
  OBVIOUS
<1>2. a % n \in 0 .. n - 1
  OBVIOUS
<1>3. n * (a \div n) <= a
  OBVIOUS
<1>4. a < n * (a \div n) + n
  OBVIOUS
<1> QED
  BY <1>1, <1>2, <1>3, <1>4

\* The quotient and the remainder decide the number.
LEMMA DivisionDecides ==
  ASSUME NEW a \in Nat, NEW b \in Nat, NEW n \in Nat \ {0}, a % n = b % n, a \div n = b \div n
  PROVE  a = b
BY SMTT(30)

\* A quotient is small if the number is.
LEMMA QuotientBelow ==
  ASSUME NEW a \in Nat, NEW n \in Nat \ {0}, NEW c \in Nat, a < n * c
  PROVE  a \div n < c
<1> DEFINE q == a \div n
<1>1. q \in Nat /\ n * q <= a
  BY Division
<1> HIDE DEF q
<1> SUFFICES ASSUME q >= c PROVE FALSE
  BY <1>1 DEF q
<1>2. n * q >= n * c
  BY <1>1
<1>3. n * q \in Nat /\ n * c \in Nat
  BY <1>1
<1> QED
  BY <1>1, <1>2, <1>3

\* The tables that are needed are enough.
LEMMA TablesAreEnough ==
  ASSUME NEW p \in Nat \ {0}, NEW c \in Nat \ {0}
  PROVE  TablesNeeded(p, c) \in Nat \ {0} /\ p <= TablesNeeded(p, c) * c
<1> DEFINE n == TablesNeeded(p, c)
<1>1. n \in Nat /\ p + c - 1 < c * n + c
  <2>1. p + c - 1 \in Nat
    OBVIOUS
  <2>2. n = (p + c - 1) \div c
    BY DEF TablesNeeded
  <2> QED
    BY <2>1, <2>2, Division
<1> HIDE DEF n
<1>2. c * n \in Nat /\ c * n = n * c
  BY <1>1
<1>3. p <= n * c
  BY <1>1, <1>2
<1>4. n # 0
  BY <1>3
<1> QED
  BY <1>1, <1>3, <1>4 DEF n

\* The round robin deals each player a seat within the capacity, and no seat twice.
LEMMA RoundRobin ==
  ASSUME NEW p \in Nat \ {0}, NEW c \in Nat \ {0}, NEW n, n = TablesNeeded(p, c)
  PROVE  /\ n \in Nat \ {0}
         /\ \A i \in 1 .. p : ((i - 1) % n) + 1 \in 1 .. n /\ ((i - 1) \div n) + 1 \in 1 .. c
         /\ \A i, j \in 1 .. p :
              /\ ((i - 1) % n) + 1 = ((j - 1) % n) + 1
              /\ ((i - 1) \div n) + 1 = ((j - 1) \div n) + 1
              => i = j
<1>1. n \in Nat \ {0} /\ p <= n * c
  BY TablesAreEnough
<1>2. ASSUME NEW i \in 1 .. p
      PROVE  ((i - 1) % n) + 1 \in 1 .. n /\ ((i - 1) \div n) + 1 \in 1 .. c
  <2>1. i - 1 \in Nat /\ n * c \in Nat
    BY <1>1
  <2>2. i - 1 < n * c
    BY <1>1, <2>1
  <2>3. (i - 1) \div n \in Nat /\ (i - 1) % n \in 0 .. n - 1
    BY <1>1, <2>1, Division
  <2>4. (i - 1) \div n < c
    BY <1>1, <2>1, <2>2, QuotientBelow
  <2> DEFINE d == (i - 1) \div n
             m == (i - 1) % n
  <2> HIDE DEF d, m
  <2>5. m + 1 \in 1 .. n /\ d + 1 \in 1 .. c
    BY <1>1, <2>3, <2>4 DEF d, m
  <2> QED
    BY <2>5 DEF d, m
<1>3. ASSUME NEW i \in 1 .. p, NEW j \in 1 .. p,
             ((i - 1) % n) + 1 = ((j - 1) % n) + 1,
             ((i - 1) \div n) + 1 = ((j - 1) \div n) + 1
      PROVE  i = j
  <2>1. i - 1 \in Nat /\ j - 1 \in Nat
    OBVIOUS
  <2>2. /\ (i - 1) \div n \in Nat /\ (i - 1) % n \in 0 .. n - 1
        /\ (j - 1) \div n \in Nat /\ (j - 1) % n \in 0 .. n - 1
    BY <1>1, <2>1, Division
  <2>3. (i - 1) % n = (j - 1) % n
    BY <1>1, <1>3, <2>2
  <2>4. (i - 1) \div n = (j - 1) \div n
    BY <1>3, <2>2
  <2>5. i - 1 = j - 1
    BY <1>1, <2>1, <2>3, <2>4, DivisionDecides
  <2> QED
    BY <2>5
<1> QED
  BY <1>1, <1>2, <1>3

\* A list that moves different entries to different seats of open tables.
Deals(moves, p, room, D) ==
  /\ DOMAIN moves = 1 .. p
  /\ \A i \in 1 .. p :
       /\ moves[i].entry \in D
       /\ \E t \in OpenTables(room) : \E s \in 1 .. room.tables[t].capacity :
            moves[i].place = Place(t, s)
  /\ \A i, j \in 1 .. p :
       moves[i].entry = moves[j].entry \/ moves[i].place = moves[j].place => i = j

\* The first k moves of a deal were carried out in a room where nobody sat.
Dealt(moves, k, room, now, D) ==
  /\ Sound(now, D)
  /\ now.tables = room.tables
  /\ \A i \in 1 .. k : now.at[moves[i].entry] = moves[i].place
  /\ \A d \in D : (\A i \in 1 .. k : moves[i].entry # d) => now.at[d] = NoSeat

\* The next move of a deal finds its seat free.
LEMMA NextDeal ==
  ASSUME NEW D, NEW room, NEW now, NEW moves, NEW p \in Nat, NEW k \in Nat, k + 1 \in 1 .. p,
         Deals(moves, p, room, D), room \in Rooms(D), Dealt(moves, k, room, now, D)
  PROVE  Dealt(moves, k + 1, room,
           TakePlace(Release(now, {moves[k + 1].entry}), moves[k + 1].entry, moves[k + 1].place),
           D)
<1> DEFINE m == moves[k + 1]
           e == m.entry
           released == Release(now, {e})
           next == TakePlace(released, e, m.place)
<1>1. PICK t \in OpenTables(room) :
        \E s \in 1 .. room.tables[t].capacity : m.place = Place(t, s)
  BY DEF Deals
<1>2. PICK s \in 1 .. room.tables[t].capacity : m.place = Place(t, s)
  BY <1>1
<1>3. e \in D
  BY DEF Deals
<1>4. \A i \in 1 .. k : i \in 1 .. p /\ i # k + 1
  OBVIOUS
<1>5. t # 0
  <2>1. DOMAIN room.tables = 1 .. Len(room.tables)
    BY DEF Rooms
  <2> QED
    BY <2>1 DEF OpenTables
<1>6. \A i \in 1 .. k : moves[i].entry # e /\ moves[i].place # m.place
  BY <1>4 DEF Deals
<1> HIDE DEF m, e
<1>7. \A d \in D : now.at[d] # m.place
  <2> SUFFICES ASSUME NEW d \in D PROVE now.at[d] # m.place
    OBVIOUS
  <2>1. CASE \E i \in 1 .. k : moves[i].entry = d
    <3>1. PICK i \in 1 .. k : moves[i].entry = d
      BY <2>1
    <3>2. now.at[d] = moves[i].place
      BY <3>1 DEF Dealt
    <3> QED
      BY <1>6, <3>2
  <2>2. CASE \A i \in 1 .. k : moves[i].entry # d
    <3>1. now.at[d] = NoSeat
      BY <2>2 DEF Dealt
    <3> QED
      BY <1>2, <1>5, <3>1 DEF NoSeat, Place
  <2> QED
    BY <2>1, <2>2
<1>8. /\ Sound(released, D) /\ released.tables = now.tables
      /\ released.at = [d \in D |-> IF d \in {e} THEN NoSeat ELSE now.at[d]]
  <2>1. Sound(now, D)
    BY DEF Dealt
  <2> QED
    BY <2>1, ReleaseSeats
<1> HIDE DEF released
<1>9. now.tables = room.tables
  BY DEF Dealt
<1>10. /\ Sound(next, D) /\ next.tables = released.tables
       /\ next.at = [released.at EXCEPT ![e] = m.place]
  <2>1. t \in OpenTables(released) /\ s \in 1 .. released.tables[t].capacity
    BY <1>8, <1>9 DEF OpenTables
  <2>2. \A d \in D : released.at[d] # Place(t, s)
    BY <1>2, <1>5, <1>7, <1>8 DEF NoSeat, Place
  <2>3. /\ Sound(TakePlace(released, e, Place(t, s)), D)
        /\ TakePlace(released, e, Place(t, s)).tables = released.tables
        /\ TakePlace(released, e, Place(t, s)).at = [released.at EXCEPT ![e] = Place(t, s)]
    BY <1>3, <1>8, <2>1, <2>2, TakeFreeSeat
  <2> QED
    BY <1>2, <2>3
<1> HIDE DEF next
<1>11. \A d \in D : next.at[d] = IF d = e THEN m.place ELSE now.at[d]
  BY <1>3, <1>8, <1>10
<1>12. \A i \in 1 .. k + 1 : next.at[moves[i].entry] = moves[i].place
  <2> SUFFICES ASSUME NEW i \in 1 .. k + 1
               PROVE  next.at[moves[i].entry] = moves[i].place
    OBVIOUS
  <2>1. CASE i = k + 1
    BY <1>3, <1>11, <2>1 DEF m, e
  <2>2. CASE i # k + 1
    <3>1. i \in 1 .. k
      BY <2>2
    <3>2. moves[i].entry \in D /\ moves[i].entry # e
      BY <1>4, <1>6, <3>1 DEF Deals
    <3>3. now.at[moves[i].entry] = moves[i].place
      BY <3>1 DEF Dealt
    <3> QED
      BY <1>11, <3>2, <3>3
  <2> QED
    BY <2>1, <2>2
<1>13. ASSUME NEW d \in D, \A i \in 1 .. k + 1 : moves[i].entry # d
       PROVE  next.at[d] = NoSeat
  <2>1. k + 1 \in 1 .. k + 1 /\ \A i \in 1 .. k : i \in 1 .. k + 1
    OBVIOUS
  <2>2. d # e /\ \A i \in 1 .. k : moves[i].entry # d
    BY <1>13, <2>1 DEF m, e
  <2> QED
    BY <1>11, <2>2 DEF Dealt
<1>14. next.tables = room.tables
  BY <1>8, <1>9, <1>10
<1>15. Dealt(moves, k + 1, room, next, D)
  BY <1>10, <1>12, <1>13, <1>14 DEF Dealt
<1> QED
  BY <1>15 DEF next, released, e, m

\* A deal can be carried out in a room where nobody sits.
LEMMA DealIsCarriedOut ==
  ASSUME NEW D, NEW room, NEW moves, NEW p \in Nat, Sound(room, D), SeatedIn(room) = {},
         Deals(moves, p, room, D)
  PROVE  /\ Sound(ApplyMoves(room, moves), D)
         /\ ApplyMoves(room, moves).tables = room.tables
         /\ SeatedIn(ApplyMoves(room, moves)) = {moves[i].entry : i \in 1 .. p}
         /\ \A i \in 1 .. p : ApplyMoves(room, moves).at[moves[i].entry] = moves[i].place
<1>1. DOMAIN moves = 1 .. p
  BY DEF Deals
<1>2. PICK st : /\ Chain([kind |-> "apply"], room, moves, p, st)
                /\ ApplyMoves(room, moves) = st[p]
  BY <1>1, ApplyMovesChain
<1>3. DOMAIN room.at = D /\ room \in Rooms(D)
  BY DEF Sound, Rooms
<1> DEFINE F == {k \in Nat : k <= p => Dealt(moves, k, room, st[k], D)}
<1>4. 0 \in F
  <2>1. st[0] = room
    BY <1>2 DEF Chain
  <2>2. \A d \in D : room.at[d] = NoSeat
    BY <1>3 DEF SeatedIn
  <2>3. 1 .. 0 = {}
    OBVIOUS
  <2>4. Dealt(moves, 0, room, room, D)
    BY <2>2, <2>3 DEF Dealt
  <2> QED
    BY <2>1, <2>4
<1>5. \A k \in Nat : k \in F => k + 1 \in F
  <2> SUFFICES ASSUME NEW k \in F, k + 1 <= p PROVE Dealt(moves, k + 1, room, st[k + 1], D)
    OBVIOUS
  <2>1. k + 1 \in 1 .. p /\ (k + 1) - 1 = k /\ k \in Nat
    OBVIOUS
  <2>2. Dealt(moves, k, room, st[k], D)
    OBVIOUS
  <2>3. st[k + 1] = Turn([kind |-> "apply"], st[k], moves[k + 1])
    BY <1>2, <2>1 DEF Chain
  <2>4. st[k + 1] = TakePlace(Release(st[k], {moves[k + 1].entry}), moves[k + 1].entry,
                              moves[k + 1].place)
    BY <2>3 DEF Turn
  <2> HIDE DEF F
  <2>5. Dealt(moves, k + 1, room,
          TakePlace(Release(st[k], {moves[k + 1].entry}), moves[k + 1].entry,
                    moves[k + 1].place), D)
    BY <1>3, <2>1, <2>2, NextDeal
  <2> QED
    BY <2>4, <2>5
<1> HIDE DEF F
<1>6. Nat \subseteq F
  BY <1>4, <1>5, NatSetInduction
<1>7. Dealt(moves, p, room, st[p], D)
  BY <1>6 DEF F
<1>8. SeatedIn(st[p]) = {moves[i].entry : i \in 1 .. p}
  <2>1. DOMAIN st[p].at = D
    BY <1>7 DEF Dealt, Sound, Rooms
  <2>2. \A i \in 1 .. p : moves[i].entry \in D /\ moves[i].place # NoSeat
    <3> SUFFICES ASSUME NEW i \in 1 .. p
                 PROVE  moves[i].entry \in D /\ moves[i].place # NoSeat
      OBVIOUS
    <3>1. moves[i].entry \in D
      BY DEF Deals
    <3>2. PICK t \in OpenTables(room) :
            \E s \in 1 .. room.tables[t].capacity : moves[i].place = Place(t, s)
      BY DEF Deals
    <3>3. t # 0
      <4>1. DOMAIN room.tables = 1 .. Len(room.tables)
        BY <1>3 DEF Rooms
      <4> QED
        BY <4>1 DEF OpenTables
    <3> QED
      BY <3>1, <3>2, <3>3 DEF NoSeat, Place
  <2> QED
    BY <1>7, <2>1, <2>2 DEF Dealt, SeatedIn
<1> QED
  BY <1>2, <1>7, <1>8 DEF Dealt

\* Further tables leave everyone where she is.
LEMMA OpenMore ==
  ASSUME NEW D, NEW room, NEW c \in Nat, Sound(room, D), Alike(room, c),
         NEW added \in Seq({OpenTable(c)})
  PROVE  LET wide == [room EXCEPT !.tables = @ \o added]
         IN  /\ Sound(wide, D) /\ Alike(wide, c)
             /\ OpenTables(room) \subseteq OpenTables(wide)
             /\ \A k \in 1 .. Len(added) : Len(room.tables) + k \in OpenTables(wide)
<1> DEFINE n == Len(room.tables)
           rows == room.tables \o added
           wide == [room EXCEPT !.tables = @ \o added]
           X == [status : {"OPEN", "CLOSED"}, capacity : Nat]
<1>1. /\ room \in Rooms(D) /\ room.clash = FALSE
      /\ room = [tables |-> room.tables, at |-> room.at, clash |-> FALSE]
      /\ room.tables \in Seq(X)
  BY DEF Sound, Rooms
<1>2. wide = [tables |-> rows, at |-> room.at, clash |-> FALSE]
  <2>1. wide = [room EXCEPT !.tables = rows]
    OBVIOUS
  <2> HIDE DEF rows, wide, X
  <2> QED
    BY <1>1, <2>1
<1>3. OpenTable(c) \in X /\ OpenTable(c).status = "OPEN" /\ OpenTable(c).capacity = c
  BY DEF OpenTable
<1>4. /\ rows \in Seq(X) /\ n \in Nat /\ Len(added) \in Nat
      /\ DOMAIN room.tables = 1 .. n /\ DOMAIN rows = 1 .. n + Len(added)
      /\ \A t \in 1 .. n : rows[t] = room.tables[t]
      /\ \A k \in 1 .. Len(added) : rows[n + k] = OpenTable(c)
  <2> DEFINE ts == room.tables
             row == OpenTable(c)
  <2>1. ts \in Seq(X) /\ added \in Seq({row}) /\ row \in X
    BY <1>1, <1>3
  <2> HIDE DEF X, ts, row
  <2>2. added \in Seq(X) /\ \A k \in 1 .. Len(added) : added[k] = row
    BY <2>1
  <2>3. /\ ts \o added \in Seq(X) /\ DOMAIN (ts \o added) = 1 .. Len(ts) + Len(added)
        /\ Len(ts) \in Nat /\ Len(added) \in Nat /\ DOMAIN ts = 1 .. Len(ts)
        /\ \A t \in 1 .. Len(ts) : (ts \o added)[t] = ts[t]
        /\ \A k \in 1 .. Len(added) : (ts \o added)[Len(ts) + k] = added[k]
    BY <2>1, <2>2
  <2> QED
    BY <2>2, <2>3 DEF ts, row
<1>5. wide \in Rooms(D)
  BY <1>1, <1>2, <1>4 DEF Rooms
<1> HIDE DEF rows, wide, X, n
<1>6. wide.tables = rows /\ wide.at = room.at /\ wide.clash = FALSE
  BY <1>2
<1>7. \A t \in 1 .. n : t \in 1 .. n + Len(added)
  BY <1>4
<1>8. \A k \in 1 .. Len(added) : n + k \in 1 .. n + Len(added)
  BY <1>4
<1>9. OpenTables(room) \subseteq OpenTables(wide)
  BY <1>4, <1>6, <1>7 DEF OpenTables
<1>10. \A k \in 1 .. Len(added) : n + k \in OpenTables(wide)
  BY <1>3, <1>4, <1>6, <1>8 DEF OpenTables
<1>11. ASSUME NEW e \in D, wide.at[e] # NoSeat
       PROVE  SeatIsSound(wide, D, e)
  <2>1. SeatIsSound(room, D, e)
    BY <1>6, <1>11 DEF Sound
  <2>2. room.at[e].table \in 1 .. n
    BY <1>4, <2>1 DEF SeatIsSound, OpenTables
  <2>3. wide.tables[room.at[e].table] = room.tables[room.at[e].table]
    BY <1>4, <1>6, <2>2
  <2> QED
    BY <1>6, <1>9, <2>1, <2>3 DEF SeatIsSound
<1>12. Sound(wide, D)
  BY <1>5, <1>6, <1>11 DEF Sound
<1>13. Alike(wide, c)
  <2> SUFFICES ASSUME NEW t \in 1 .. n + Len(added) PROVE rows[t].capacity = c
    BY <1>4, <1>6 DEF Alike
  <2>1. CASE t \in 1 .. n
    BY <1>4, <2>1 DEF Alike
  <2>2. CASE ~(t \in 1 .. n)
    <3>1. t - n \in 1 .. Len(added) /\ n + (t - n) = t
      BY <1>4, <2>2
    <3> QED
      BY <1>3, <1>4, <3>1
  <2> QED
    BY <2>1, <2>2
<1> QED
  BY <1>9, <1>10, <1>12, <1>13 DEF wide, n

\* When everyone stands up nobody sits.
LEMMA StandUpOk ==
  ASSUME NEW D, NEW room, Sound(room, D)
  PROVE  /\ Sound(StandUp(room), D)
         /\ StandUp(room).tables = room.tables
         /\ SeatedIn(StandUp(room)) = {}
<1> DEFINE r == Release(room, DOMAIN room.at)
<1>1. DOMAIN room.at = D
  BY DEF Sound, Rooms
<1>2. /\ Sound(r, D) /\ r.tables = room.tables
      /\ r.at = [d \in D |-> IF d \in DOMAIN room.at THEN NoSeat ELSE room.at[d]]
  BY ReleaseSeats
<1> HIDE DEF r
<1>3. SeatedIn(r) = {}
  BY <1>1, <1>2 DEF SeatedIn
<1> QED
  BY <1>2, <1>3 DEF StandUp, r

\* The list of the players who draw.
Draws(order, D) ==
  /\ order \in Seq(D) /\ order # <<>>
  /\ \A i, j \in DOMAIN order : order[i] = order[j] => i = j

\* The tables that a redraw fills are open and different.
LEMMA DestinationsDiffer ==
  ASSUME NEW open, NEW k \in Nat, NEW n \in Nat, NEW last \in Nat,
         DOMAIN open = 1 .. k,
         \A i \in 1 .. k : open[i] \in 1 .. last,
         \A i, j \in 1 .. k : open[i] = open[j] => i = j,
         NEW d, \A i \in 1 .. n : d[i] = IF i <= k THEN open[i] ELSE last + i - k
  PROVE  \A i, j \in 1 .. n : d[i] = d[j] => i = j
<1> SUFFICES ASSUME NEW i \in 1 .. n, NEW j \in 1 .. n, d[i] = d[j] PROVE i = j
  OBVIOUS
<1>1. CASE i <= k /\ j <= k
  <2>1. i \in 1 .. k /\ j \in 1 .. k
    BY <1>1
  <2> QED
    BY <1>1, <2>1
<1>2. CASE i <= k /\ ~(j <= k)
  <2>1. i \in 1 .. k /\ last + j - k > last
    BY <1>2
  <2>2. d[i] <= last /\ d[j] = last + j - k
    BY <1>2, <2>1
  <2> QED
    BY <2>1, <2>2
<1>3. CASE ~(i <= k) /\ j <= k
  <2>1. j \in 1 .. k /\ last + i - k > last
    BY <1>3
  <2>2. d[j] <= last /\ d[i] = last + i - k
    BY <1>3, <2>1
  <2> QED
    BY <2>1, <2>2
<1>4. CASE ~(i <= k) /\ ~(j <= k)
  BY <1>4
<1> QED
  BY <1>1, <1>2, <1>3, <1>4

\* The quotient and the remainder give the number back.
LEMMA DivisionAdds ==
  ASSUME NEW a \in Nat, NEW n \in Nat \ {0}
  PROVE  a = n * (a \div n) + (a % n)
BY SMTT(30)

\* A number between two multiples is the lower one and its remainder.
LEMMA RemainderIs ==
  ASSUME NEW q \in Nat, NEW n \in Nat \ {0}, NEW r \in 0 .. n - 1
  PROVE  (n * q + r) % n = r
<1> DEFINE a == n * q + r
           k == a \div n
           s == a % n
<1>1. a \in Nat
  OBVIOUS
<1>2. k \in Nat /\ s \in 0 .. n - 1 /\ a = n * k + s
  <2> HIDE DEF a
  <2> QED BY <1>1, Division, DivisionAdds
<1>3. n * k + s = n * q + r
  BY <1>2
<1> HIDE DEF a, k, s
<1>4. CASE k < q
  <2>1. n * (k + 1) <= n * q /\ n * (k + 1) = n * k + n
    BY <1>2, <1>4, SMTT(30)
  <2>2. n * k \in Nat /\ n * q \in Nat
    BY <1>2
  <2> DEFINE x == n * k
             y == n * q
             z == n * (k + 1)
  <2> HIDE DEF x, y, z
  <2>3. z <= y /\ z = x + n /\ x + s = y + r /\ x \in Nat /\ y \in Nat
    BY <2>1, <2>2, <1>3 DEF x, y, z
  <2> QED BY <2>3, <1>2
<1>5. CASE q < k
  <2>1. n * (q + 1) <= n * k /\ n * (q + 1) = n * q + n
    BY <1>2, <1>5, SMTT(30)
  <2>2. n * k \in Nat /\ n * q \in Nat
    BY <1>2
  <2> DEFINE x == n * k
             y == n * q
             z == n * (q + 1)
  <2> HIDE DEF x, y, z
  <2>3. z <= x /\ z = y + n /\ x + s = y + r /\ x \in Nat /\ y \in Nat
    BY <2>1, <2>2, <1>3 DEF x, y, z
  <2> QED BY <2>3, <1>2
<1>6. CASE k = q
  <2> DEFINE x == n * k
  <2>1. x \in Nat /\ x + s = x + r
    BY <1>2, <1>3, <1>6
  <2> HIDE DEF x
  <2>2. s = r
    BY <2>1, <1>2
  <2> QED BY <2>2 DEF s, a
<1> QED
  BY <1>2, <1>4, <1>5, <1>6

\* One table less than needed has fewer seats than there are players.
LEMMA NeededIsTight ==
  ASSUME NEW p \in Nat \ {0}, NEW c \in Nat \ {0}, NEW n, n = TablesNeeded(p, c)
  PROVE  n \in Nat \ {0} /\ (n - 1) * c < p
<1>1. n \in Nat \ {0}
  BY TablesAreEnough
<1>2. c * n <= p + c - 1
  <2> DEFINE a == p + c - 1
  <2>1. a \in Nat /\ n = a \div c
    BY DEF TablesNeeded
  <2> HIDE DEF a
  <2>2. c * n <= a
    BY <2>1, Division
  <2> QED
    BY <2>2 DEF a
<1>3. (n - 1) * c + c = c * n /\ (n - 1) * c \in Nat
  <2>1. n - 1 \in Nat /\ (n - 1) + 1 = n
    BY <1>1
  <2>2. ((n - 1) + 1) * c = (n - 1) * c + c /\ (n - 1) * c \in Nat
    BY <2>1, OneTimesMore
  <2>3. n * c = c * n
    BY <1>1
  <2> QED
    BY <2>1, <2>2, <2>3
<1> DEFINE x == (n - 1) * c
           y == c * n
<1>4. x \in Nat /\ x + c = y /\ y <= p + c - 1
  BY <1>2, <1>3
<1> HIDE DEF x, y
<1>5. x < p
  BY <1>4
<1> QED
  BY <1>1, <1>5 DEF x

\* The turns of 1 .. p at which the round robin deals the table u.
TurnsOf(n, p, u) == {i \in 1 .. p : ((i - 1) % n) + 1 = u}

\* The round robin deals no table two turns more than another.
LEMMA RoundRobinIsFair ==
  ASSUME NEW n \in Nat \ {0}, NEW p \in Nat, NEW u \in 1 .. n, NEW v \in 1 .. n
  PROVE  /\ IsFiniteSet(TurnsOf(n, p, u)) /\ Cardinality(TurnsOf(n, p, u)) \in Nat
         /\ Cardinality(TurnsOf(n, p, v)) \in Nat
         /\ Cardinality(TurnsOf(n, p, u)) <= Cardinality(TurnsOf(n, p, v)) + 1
<1> DEFINE U == TurnsOf(n, p, u)
           V == TurnsOf(n, p, v)
           W == U \ {u}
           f == [i \in W |-> i - n - u + v]
<1>1. /\ IsFiniteSet(U) /\ IsFiniteSet(V) /\ IsFiniteSet(W)
      /\ Cardinality(U) \in Nat /\ Cardinality(V) \in Nat /\ Cardinality(W) \in Nat
  <2>1. IsFiniteSet(1 .. p)
    BY FS_Interval, 1 \in Int, p \in Int
  <2>2. U \in SUBSET (1 .. p) /\ V \in SUBSET (1 .. p) /\ W \in SUBSET (1 .. p)
    BY DEF TurnsOf
  <2> HIDE DEF U, V, W
  <2> QED
    BY <2>1, <2>2, FS_Subset, FS_CardinalityType
<1>2. Cardinality(U) <= Cardinality(W) + 1
  <2> HIDE DEF U
  <2> DEFINE X == U \ {u}
  <2>1. Cardinality(X) = IF u \in U THEN Cardinality(U) - 1 ELSE Cardinality(U)
    BY <1>1, FS_RemoveElement
  <2> QED
    BY <1>1, <2>1
<1>3. ASSUME NEW i \in W
      PROVE  i - n - u + v \in V
  <2> DEFINE q == (i - 1) \div n
  <2>1. i \in 1 .. p /\ ((i - 1) % n) + 1 = u /\ i # u
    BY DEF TurnsOf
  <2>2. i - 1 \in Nat
    BY <2>1
  <2>3. q \in Nat /\ (i - 1) % n \in 0 .. n - 1 /\ i - 1 = n * q + ((i - 1) % n)
    BY <2>2, Division, DivisionAdds
  <2>4. (i - 1) % n = u - 1
    BY <2>1, <2>3
  <2>5. i - 1 = n * q + (u - 1)
    BY <2>3, <2>4
  <2> HIDE DEF q, W
  <2>6. q # 0
    <3> SUFFICES ASSUME q = 0 PROVE FALSE
      OBVIOUS
    <3>1. n * q = 0
      OBVIOUS
    <3> QED
      BY <2>1, <2>2, <2>5, <3>1
  <2>7. q - 1 \in Nat /\ n * q = n * (q - 1) + n /\ n * (q - 1) \in Nat
    <3>1. q - 1 \in Nat /\ (q - 1) + 1 = q
      BY <2>3, <2>6
    <3>2. ((q - 1) + 1) * n = (q - 1) * n + n /\ (q - 1) * n \in Nat
      BY <3>1, OneTimesMore
    <3>3. (q - 1) * n = n * (q - 1) /\ q * n = n * q
      BY <2>3, <3>1
    <3> QED
      BY <3>1, <3>2, <3>3
  <2>8. (n * (q - 1) + (v - 1)) % n = v - 1
    <3>1. v - 1 \in 0 .. n - 1
      OBVIOUS
    <3> QED
      BY <2>7, <3>1, RemainderIs
  <2> DEFINE z == n * (q - 1)
  <2>9. z \in Nat /\ i - 1 = z + n + (u - 1) /\ (z + (v - 1)) % n = v - 1
    BY <2>5, <2>7, <2>8
  <2> HIDE DEF z
  <2>10. (i - n - u + v) - 1 = z + (v - 1) /\ i - n - u + v \in 1 .. p
    BY <2>1, <2>9
  <2>11. (((i - n - u + v) - 1) % n) + 1 = v
    <3>1. ((i - n - u + v) - 1) % n = v - 1
      BY <2>9, <2>10
    <3> QED
      BY <3>1
  <2> QED
    BY <2>10, <2>11 DEF TurnsOf
<1>4. \A i \in W : i \in Int
  BY DEF TurnsOf
<1>5. f \in Injection(W, V)
  <2>1. \A i, j \in W : i - n - u + v = j - n - u + v => i = j
    <3> HIDE DEF W
    <3> QED BY <1>4
  <2>2. \A i \in W : f[i] = i - n - u + v
    OBVIOUS
  <2>3. f \in [W -> V]
    <3> HIDE DEF W, V
    <3> QED BY <1>3
  <2> HIDE DEF W, V, f
  <2>4. IsInjective(f)
    <3>1. DOMAIN f = W
      BY <2>3
    <3> QED
      BY <2>1, <2>2, <3>1 DEF IsInjective
  <2> QED
    BY <2>3, <2>4 DEF Injection
<1>6. Cardinality(W) <= Cardinality(V)
  <2> HIDE DEF W, V, f
  <2> QED BY <1>1, <1>5, FS_Injection
<1> HIDE DEF U, V, W
<1>7. Cardinality(U) <= Cardinality(V) + 1
  BY <1>1, <1>2, <1>6
<1> QED
  BY <1>1, <1>7 DEF U, V

\* A set whose members are counted off once each has as many as were counted.
LEMMA CountedOff ==
  ASSUME NEW S, IsFiniteSet(S), NEW T, NEW f, \A i \in S : f[i] \in T,
         \A i, j \in S : f[i] = f[j] => i = j, \A t \in T : \E i \in S : f[i] = t
  PROVE  IsFiniteSet(T) /\ Cardinality(T) = Cardinality(S)
<1> DEFINE g == [i \in S |-> f[i]]
<1>1. g \in [S -> T] /\ \A i \in S : g[i] = f[i]
  OBVIOUS
<1> HIDE DEF g
<1>2. g \in Surjection(S, T)
  <2>1. \A t \in T : \E i \in S : g[i] = t
    BY <1>1
  <2> QED
    BY <1>1, <2>1 DEF Surjection
<1>3. g \in Injection(S, T)
  <2>1. DOMAIN g = S
    BY <1>1
  <2> QED
    BY <1>1, <2>1 DEF Injection, IsInjective
<1> QED
  BY <1>2, <1>3, FS_Surjection

\* Whoever was dealt in turn to n tables leaves them balanced, once the empty are closed.
LEMMA DrawIsBalanced ==
  ASSUME NEW D, IsFiniteSet(D), NEW after, NEW c \in Nat \ {0}, Sound(after, D),
         Alike(after, c), NEW p \in Nat \ {0}, NEW n, n = TablesNeeded(p, c),
         NEW order, \A i \in 1 .. p : order[i] \in D,
         \A i, j \in 1 .. p : order[i] = order[j] => i = j,
         SeatedIn(after) = {order[i] : i \in 1 .. p},
         NEW d, \A u, v \in 1 .. n : d[u] = d[v] => u = v,
         \A i \in 1 .. p : after.at[order[i]].table = d[((i - 1) % n) + 1]
  PROVE  Balanced(CloseEmptyTables(after), c)
<1> DEFINE r == CloseEmptyTables(after)
           open == OpenTables(r)
           Turns(u) == TurnsOf(n, p, u)
<1>1. n \in Nat \ {0} /\ (n - 1) * c < p
  BY NeededIsTight
<1>2. \A i \in 1 .. p : ((i - 1) % n) + 1 \in 1 .. n
  BY RoundRobin
<1>3. /\ RoomOk(r, D, c) /\ SeatedIn(r) = SeatedIn(after)
      /\ \A t : Occupants(r, t) = Occupants(after, t)
      /\ open = {t \in OpenTables(after) : Occupants(after, t) # {}}
  BY CloseOk
<1>4. /\ DOMAIN after.at = D /\ 0 \notin OpenTables(after)
      /\ \A t : Occupancy(after, t) \in Nat
  <2>1. after \in Rooms(D)
    BY DEF Sound
  <2>2. OpenTables(after) \in SUBSET (1 .. Len(after.tables)) /\ Len(after.tables) \in Nat
    BY <2>1, RoomTypes
  <2> QED
    BY <2>1, <2>2, RoomTypes
<1>5. \A t \in OpenTables(after) : \A e \in Occupants(after, t) :
        \E i \in 1 .. p : e = order[i] /\ t = d[((i - 1) % n) + 1]
  <2> SUFFICES ASSUME NEW t \in OpenTables(after), NEW e \in Occupants(after, t)
               PROVE  \E i \in 1 .. p : e = order[i] /\ t = d[((i - 1) % n) + 1]
    OBVIOUS
  <2>1. e \in D /\ after.at[e].table = t /\ t # 0
    BY <1>4 DEF Occupants
  <2>2. after.at[e] # NoSeat
    BY <2>1 DEF NoSeat, Place
  <2>3. e \in SeatedIn(after)
    BY <1>4, <2>1, <2>2 DEF SeatedIn
  <2>4. PICK i \in 1 .. p : e = order[i]
    BY <2>3
  <2> QED
    BY <2>1, <2>4
<1>6. \A t \in open : \E u \in 1 .. n : t = d[u]
  <2> SUFFICES ASSUME NEW t \in open PROVE \E u \in 1 .. n : t = d[u]
    OBVIOUS
  <2>1. t \in OpenTables(after) /\ Occupants(after, t) # {}
    BY <1>3
  <2>2. PICK e \in Occupants(after, t) : TRUE
    BY <2>1
  <2>3. PICK i \in 1 .. p : t = d[((i - 1) % n) + 1]
    BY <1>5, <2>1, <2>2
  <2> QED
    BY <1>2, <2>3
<1>7. ASSUME NEW u \in 1 .. n, d[u] \in open
      PROVE  Occupancy(r, d[u]) = Cardinality(Turns(u))
  <2> DEFINE S == Turns(u)
             T == Occupants(after, d[u])
  <2>1. IsFiniteSet(S)
    BY <1>1, RoundRobinIsFair
  <2>2. d[u] \in OpenTables(after)
    BY <1>3, <1>7
  <2>3. \A i \in S : i \in 1 .. p /\ ((i - 1) % n) + 1 = u
    BY DEF TurnsOf
  <2>4. \A i \in S : order[i] \in T
    BY <1>4, <2>3 DEF Occupants
  <2>5. \A i, j \in S : order[i] = order[j] => i = j
    BY <2>3
  <2>6. \A e \in T : \E i \in S : order[i] = e
    <3> SUFFICES ASSUME NEW e \in T PROVE \E i \in S : order[i] = e
      OBVIOUS
    <3>1. PICK i \in 1 .. p : e = order[i] /\ d[u] = d[((i - 1) % n) + 1]
      BY <1>5, <2>2
    <3>2. ((i - 1) % n) + 1 = u
      BY <1>2, <3>1
    <3> QED
      BY <3>1, <3>2 DEF TurnsOf
  <2> HIDE DEF S, T
  <2>7. Cardinality(T) = Cardinality(S)
    BY <2>1, <2>4, <2>5, <2>6, CountedOff
  <2> QED
    BY <1>3, <2>7 DEF S, T, Occupancy
<1>8. Level(r, open)
  <2> HIDE DEF open, Turns, r
  <2> SUFFICES ASSUME NEW a \in open, NEW b \in open
               PROVE  Occupancy(r, a) <= Occupancy(r, b) + 1
    BY DEF Level
  <2>1. PICK u \in 1 .. n : a = d[u]
    BY <1>6
  <2>2. PICK v \in 1 .. n : b = d[v]
    BY <1>6
  <2>3. Occupancy(r, a) = Cardinality(Turns(u)) /\ Occupancy(r, b) = Cardinality(Turns(v))
    BY <1>7, <2>1, <2>2
  <2>4. Cardinality(Turns(u)) <= Cardinality(Turns(v)) + 1
    BY <1>1, RoundRobinIsFair DEF Turns
  <2> QED
    BY <2>3, <2>4
<1>9. IsFiniteSet(open) /\ Cardinality(open) <= n
  <2> DEFINE W == {u \in 1 .. n : d[u] \in open}
  <2>1. IsFiniteSet(1 .. n) /\ Cardinality(1 .. n) = n
    BY <1>1, FS_Interval, 1 \in Int, n \in Int
  <2>2. IsFiniteSet(W) /\ Cardinality(W) <= n
    <3>1. W \in SUBSET (1 .. n)
      OBVIOUS
    <3> DEFINE S == 1 .. n
    <3> HIDE DEF W
    <3>2. W \in SUBSET S /\ IsFiniteSet(S) /\ Cardinality(S) = n
      BY <2>1, <3>1
    <3> HIDE DEF S
    <3>3. IsFiniteSet(W) /\ Cardinality(W) <= Cardinality(S)
      BY <3>2, FS_Subset
    <3> QED
      BY <3>2, <3>3
  <2>3. \A u \in W : d[u] \in open
    OBVIOUS
  <2>4. \A u, v \in W : d[u] = d[v] => u = v
    OBVIOUS
  <2>5. \A t \in open : \E u \in W : d[u] = t
    BY <1>6
  <2> HIDE DEF W, open
  <2>6. IsFiniteSet(open) /\ Cardinality(open) = Cardinality(W)
    BY <2>2, <2>3, <2>4, <2>5, CountedOff
  <2> QED
    BY <2>2, <2>6
<1>10. Cardinality(SeatedIn(r)) = p
  <2> DEFINE S == 1 .. p
             T == {order[i] : i \in 1 .. p}
  <2>1. IsFiniteSet(S) /\ Cardinality(S) = p
    BY FS_Interval, 1 \in Int, p \in Int
  <2>2. /\ \A i \in S : order[i] \in T
        /\ \A i, j \in S : order[i] = order[j] => i = j
        /\ \A t \in T : \E i \in S : order[i] = t
    OBVIOUS
  <2>3. SeatedIn(r) = T
    BY <1>3
  <2> HIDE DEF S, T
  <2>4. Cardinality(T) = Cardinality(S)
    BY <2>1, <2>2, CountedOff
  <2> QED
    BY <2>1, <2>3, <2>4
<1>11. Snug(r, c)
  <2>1. Cardinality(SeatedIn(r)) \in Nat
    BY <1>10
  <2>2. n > 1 => (n - 1) * c < Cardinality(SeatedIn(r))
    BY <1>1, <1>10
  <2> HIDE DEF r
  <2> QED
    BY <1>1, <1>9, <2>1, <2>2, SnugFrom
<1> QED
  BY <1>8, <1>11 DEF Balanced

\* Whoever draws gets a seat, and nobody else has one; the tables are balanced.
LEMMA RedrawOk ==
  ASSUME NEW D, IsFiniteSet(D), NEW room, NEW c \in Nat \ {0}, NEW order,
         RoomOk(room, D, c), Draws(order, D)
  PROVE  /\ RoomOk(Redraw(room, order, c), D, c)
         /\ SeatedIn(Redraw(room, order, c)) = {order[i] : i \in DOMAIN order}
         /\ Balanced(Redraw(room, order, c), c)
<1> DEFINE p == Len(order)
           n == TablesNeeded(p, c)
           assignments == PlanRedraw(order, c)
           open == Ascending(OpenTables(room))
           k == Len(open)
           last == Len(room.tables)
           missing == n - k
           added == [i \in 1 .. missing |-> OpenTable(c)]
           destination(i) == IF i <= k THEN open[i] ELSE last + i - k
           moves == [i \in DOMAIN assignments |->
                      [assignments[i] EXCEPT !.place.table = destination(@)]]
           wide == [room EXCEPT !.tables = @ \o added]
           stand == StandUp(wide)
           after == ApplyMoves(stand, moves)
<1>1. Redraw(room, order, c) = CloseEmptyTables(after)
  BY Zenon DEF Redraw
<1>2. p \in Nat \ {0} /\ DOMAIN order = 1 .. p /\ \A i \in 1 .. p : order[i] \in D
  BY DEF Draws
<1>3. /\ n \in Nat \ {0}
      /\ \A i \in 1 .. p : ((i - 1) % n) + 1 \in 1 .. n /\ ((i - 1) \div n) + 1 \in 1 .. c
      /\ \A i, j \in 1 .. p :
           /\ ((i - 1) % n) + 1 = ((j - 1) % n) + 1
           /\ ((i - 1) \div n) + 1 = ((j - 1) \div n) + 1
           => i = j
  <2> HIDE DEF p
  <2> QED BY <1>2, RoundRobin
<1>4. /\ last \in Nat /\ DOMAIN room.tables = 1 .. last
      /\ OpenTables(room) \in SUBSET (1 .. last) /\ IsFiniteSet(OpenTables(room))
  <2>1. room \in Rooms(D)
    BY DEF RoomOk, Sound
  <2> QED
    BY <2>1, RoomTypes
<1>5. /\ k \in Nat /\ DOMAIN open = 1 .. k /\ \A i \in 1 .. k : open[i] \in OpenTables(room)
      /\ \A i, j \in 1 .. k : open[i] = open[j] => i = j
  <2> DEFINE S == OpenTables(room)
  <2>1. S \in SUBSET Nat /\ IsFiniteSet(S)
    BY <1>4
  <2> HIDE DEF S
  <2>2. /\ Ascending(S) \in Seq(S)
        /\ \A i \in DOMAIN Ascending(S) : Ascending(S)[i] \in S
        /\ \A i, j \in DOMAIN Ascending(S) : Ascending(S)[i] = Ascending(S)[j] => i = j
    BY <2>1, AscendingMembers, AscendingOnce
  <2>3. Len(Ascending(S)) \in Nat /\ DOMAIN Ascending(S) = 1 .. Len(Ascending(S))
    BY <2>2
  <2> QED
    BY <2>2, <2>3 DEF S
<1>6. /\ DOMAIN assignments = 1 .. p
      /\ \A i \in 1 .. p :
           assignments[i] = [entry |-> order[i],
                             place |-> Place(((i - 1) % n) + 1, ((i - 1) \div n) + 1)]
  BY <1>2 DEF PlanRedraw
<1> HIDE DEF p, n, assignments, open, k, last
<1>7. /\ added \in Seq({OpenTable(c)})
      /\ \A i \in 1 .. n : ~(i <= k) => i - k \in 1 .. Len(added)
  <2> DEFINE row == OpenTable(c)
  <2> HIDE DEF row
  <2> DEFINE more == [i \in 1 .. missing |-> row]
  <2>1. missing \in Int
    BY <1>3, <1>5
  <2>2. CASE missing >= 0
    <3>1. missing \in Nat
      BY <2>1, <2>2
    <3> HIDE DEF missing
    <3>2. more \in Seq({row}) /\ Len(more) = missing
      BY <3>1
    <3>3. \A i \in 1 .. n : ~(i <= k) => i - k \in 1 .. missing
      BY <1>3, <1>5 DEF missing
    <3> QED
      BY <3>2, <3>3 DEF row
  <2>3. CASE ~(missing >= 0)
    <3>1. 1 .. missing = {}
      BY <2>1, <2>3
    <3>2. more \in Seq({row})
      <4>1. more = <<>>
        BY <3>1
      <4> HIDE DEF more
      <4> QED BY <4>1
    <3>3. \A i \in 1 .. n : i <= k
      BY <1>3, <1>5, <2>3
    <3> QED
      BY <3>2, <3>3 DEF row
  <2> QED
    BY <2>2, <2>3
<1> HIDE DEF added
<1>8. /\ Sound(wide, D) /\ Alike(wide, c) /\ OpenTables(room) \subseteq OpenTables(wide)
      /\ \A i \in 1 .. Len(added) : last + i \in OpenTables(wide)
  <2>1. Sound(room, D) /\ Alike(room, c) /\ c \in Nat
    BY DEF RoomOk
  <2> QED
    BY <1>7, <2>1, OpenMore DEF last
<1> HIDE DEF wide
<1>9. Sound(stand, D) /\ stand.tables = wide.tables /\ SeatedIn(stand) = {}
  BY <1>8, StandUpOk
<1> HIDE DEF stand
<1>10. Alike(stand, c) /\ OpenTables(stand) = OpenTables(wide)
  BY <1>8, <1>9 DEF Alike, OpenTables
<1>11. \A i \in 1 .. n : /\ destination(i) \in OpenTables(stand)
                         /\ stand.tables[destination(i)].capacity = c
  <2> SUFFICES ASSUME NEW i \in 1 .. n
               PROVE  destination(i) \in OpenTables(stand)
    BY <1>10 DEF OpenTables, Alike
  <2>1. CASE i <= k
    <3>1. i \in 1 .. k
      BY <1>3, <1>5, <2>1
    <3> QED
      BY <1>5, <1>8, <1>10, <2>1, <3>1
  <2>2. CASE ~(i <= k)
    <3>1. last + i - k = last + (i - k)
      BY <1>3, <1>4, <1>5
    <3> QED
      BY <1>7, <1>8, <1>10, <2>2, <3>1
  <2> QED
    BY <2>1, <2>2
<1>12. \A i, j \in 1 .. n : destination(i) = destination(j) => i = j
  <2> DEFINE d == [i \in 1 .. n |-> destination(i)]
  <2>1. \A i \in 1 .. n : d[i] = IF i <= k THEN open[i] ELSE last + i - k
    OBVIOUS
  <2>2. \A i, j \in 1 .. n : d[i] = d[j] => i = j
    <3> HIDE DEF d
    <3>1. /\ DOMAIN open = 1 .. k
          /\ \A i \in 1 .. k : open[i] \in 1 .. last
          /\ \A i, j \in 1 .. k : open[i] = open[j] => i = j
          /\ k \in Nat /\ n \in Nat /\ last \in Nat
      BY <1>3, <1>4, <1>5
    <3> QED
      BY <2>1, <3>1, DestinationsDiffer
  <2> HIDE DEF destination
  <2> QED
    BY <2>2
<1> HIDE DEF destination
<1>13. /\ DOMAIN moves = 1 .. p
       /\ \A i \in 1 .. p :
            /\ moves[i].entry = order[i]
            /\ moves[i].place = Place(destination(((i - 1) % n) + 1), ((i - 1) \div n) + 1)
  <2> SUFFICES ASSUME NEW i \in 1 .. p
               PROVE  /\ moves[i].entry = order[i]
                      /\ moves[i].place
                           = Place(destination(((i - 1) % n) + 1), ((i - 1) \div n) + 1)
    BY <1>6
  <2>1. moves[i] = [assignments[i] EXCEPT !.place.table = destination(assignments[i].place.table)]
    BY <1>6
  <2> DEFINE x == ((i - 1) % n) + 1
             y == ((i - 1) \div n) + 1
  <2>2. assignments[i] = [entry |-> order[i], place |-> [table |-> x, seat |-> y]]
    BY <1>6 DEF Place
  <2> HIDE DEF x, y, moves
  <2>3. moves[i] = [entry |-> order[i], place |-> [table |-> destination(x), seat |-> y]]
    BY <2>1, <2>2
  <2> QED
    BY <2>3 DEF Place, x, y
<1> HIDE DEF moves
<1>14. Deals(moves, p, stand, D)
  <2>1. ASSUME NEW i \in 1 .. p
        PROVE  /\ moves[i].entry \in D
               /\ \E t \in OpenTables(stand) : \E s \in 1 .. stand.tables[t].capacity :
                    moves[i].place = Place(t, s)
    <3> DEFINE x == ((i - 1) % n) + 1
               y == ((i - 1) \div n) + 1
    <3>1. x \in 1 .. n /\ y \in 1 .. c
      BY <1>3
    <3>2. moves[i].entry = order[i] /\ moves[i].place = Place(destination(x), y)
      BY <1>13
    <3> HIDE DEF x, y
    <3>3. destination(x) \in OpenTables(stand) /\ stand.tables[destination(x)].capacity = c
      BY <1>11, <3>1
    <3> QED
      BY <1>2, <3>1, <3>2, <3>3
  <2>2. ASSUME NEW i \in 1 .. p, NEW j \in 1 .. p,
               moves[i].entry = moves[j].entry \/ moves[i].place = moves[j].place
        PROVE  i = j
    <3>1. CASE moves[i].entry = moves[j].entry
      <4>1. order[i] = order[j] /\ i \in DOMAIN order /\ j \in DOMAIN order
        BY <1>2, <1>13, <3>1
      <4> QED
        BY <4>1 DEF Draws
    <3>2. CASE moves[i].place = moves[j].place
      <4> DEFINE x(q) == ((q - 1) % n) + 1
                 y(q) == ((q - 1) \div n) + 1
      <4>1. \A q \in 1 .. p : x(q) \in 1 .. n /\ moves[q].place = Place(destination(x(q)), y(q))
        BY <1>3, <1>13
      <4>2. \A a, b \in 1 .. p : x(a) = x(b) /\ y(a) = y(b) => a = b
        BY <1>3
      <4> HIDE DEF x, y
      <4>3. destination(x(i)) = destination(x(j)) /\ y(i) = y(j)
        <5>1. \A a, b, u, v : Place(a, b) = Place(u, v) => a = u /\ b = v
          BY DEF Place
        <5>2. Place(destination(x(i)), y(i)) = Place(destination(x(j)), y(j))
          BY <3>2, <4>1
        <5> QED
          BY <5>1, <5>2
      <4> QED
        BY <1>12, <4>1, <4>2, <4>3
    <3> QED
      BY <2>2, <3>1, <3>2
  <2> QED
    BY <1>13, <2>1, <2>2 DEF Deals
<1>15. /\ Sound(after, D) /\ after.tables = stand.tables
       /\ SeatedIn(after) = {moves[i].entry : i \in 1 .. p}
       /\ \A i \in 1 .. p : after.at[moves[i].entry] = moves[i].place
  BY <1>2, <1>9, <1>14, DealIsCarriedOut
<1> HIDE DEF after
<1>16. Alike(after, c)
  BY <1>10, <1>15 DEF Alike
<1>17. /\ RoomOk(CloseEmptyTables(after), D, c)
       /\ SeatedIn(CloseEmptyTables(after)) = SeatedIn(after)
  BY <1>15, <1>16, CloseOk
<1>18. {moves[i].entry : i \in 1 .. p} = {order[i] : i \in DOMAIN order}
  BY <1>2, <1>13
<1>19. Balanced(CloseEmptyTables(after), c)
  <2> DEFINE d == [u \in 1 .. n |-> destination(u)]
  <2>1. \A i \in 1 .. p : order[i] \in D
    BY <1>2
  <2>2. \A i, j \in 1 .. p : order[i] = order[j] => i = j
    BY <1>2 DEF Draws
  <2>3. SeatedIn(after) = {order[i] : i \in 1 .. p}
    BY <1>2, <1>15, <1>18
  <2>4. \A u, v \in 1 .. n : d[u] = d[v] => u = v
    BY <1>12
  <2>5. ASSUME NEW i \in 1 .. p
        PROVE  after.at[order[i]].table = d[((i - 1) % n) + 1]
    <3> DEFINE x == ((i - 1) % n) + 1
               y == ((i - 1) \div n) + 1
    <3>1. after.at[order[i]] = Place(destination(x), y) /\ x \in 1 .. n
      BY <1>3, <1>13, <1>15
    <3> HIDE DEF x, y
    <3>2. d[x] = destination(x)
      BY <3>1
    <3> QED
      BY <3>1, <3>2 DEF Place, x
  <2> HIDE DEF d
  <2>6. n = TablesNeeded(p, c)
    BY DEF n
  <2>7. /\ IsFiniteSet(D) /\ c \in Nat \ {0} /\ p \in Nat \ {0} /\ Sound(after, D)
        /\ Alike(after, c)
    BY <1>2, <1>15, <1>16
  <2>8. \A i \in 1 .. p : after.at[order[i]].table = d[((i - 1) % n) + 1]
    BY <2>5
  <2> QED
    BY ONLY <2>1, <2>2, <2>3, <2>4, <2>6, <2>7, <2>8, DrawIsBalanced, SMTT(30)
<1> QED
  BY <1>1, <1>15, <1>17, <1>18, <1>19

\* In balanced rooms there are as many open tables as the players need.
LEMMA BalancedCounts ==
  ASSUME NEW D, IsFiniteSet(D), NEW room, NEW c \in Nat \ {0}, RoomOk(room, D, c),
         Balanced(room, c), Cardinality(OpenTables(room)) > 1
  PROVE  TablesNeeded(Cardinality(SeatedIn(room)), c) = Cardinality(OpenTables(room))
<1> DEFINE k == Cardinality(OpenTables(room))
           p == Cardinality(SeatedIn(room))
           q == TablesNeeded(p, c)
<1>1. /\ Sound(room, D) /\ Alike(room, c) /\ room \in Rooms(D) /\ DOMAIN room.at = D
      /\ IsFiniteSet(OpenTables(room))
  <2>1. Sound(room, D) /\ Alike(room, c) /\ room \in Rooms(D)
    BY DEF RoomOk, Sound
  <2> QED
    BY <2>1, RoomTypes
<1>2. k \in Nat /\ p \in Nat /\ k > 1
  <2>1. SeatedIn(room) \in SUBSET D
    BY <1>1 DEF SeatedIn
  <2> QED
    BY <1>1, <2>1, FS_Subset, FS_CardinalityType
<1>3. p <= k * c
  <2>1. \A t \in OpenTables(room) : Occupancy(room, t) <= c
    BY <1>1, OccupancyWithin
  <2>2. Cardinality(PlayersAt(room, OpenTables(room))) <= Cardinality(OpenTables(room)) * c
    BY <1>1, <2>1, PlayersBounded
  <2> QED
    BY <1>1, <2>2, PlayersAreSeated
<1>4. (k - 1) * c < p
  BY DEF Balanced, Snug
<1> HIDE DEF k, p
<1>5. p \in Nat \ {0}
  <2>1. (k - 1) * c \in Nat
    <3>1. k - 1 \in Nat /\ c \in Nat
      BY <1>2
    <3> QED
      BY <3>1, OneTimesMore
  <2> DEFINE z == (k - 1) * c
  <2>2. z \in Nat /\ z < p
    BY <1>4, <2>1
  <2> HIDE DEF z
  <2> QED
    BY <1>2, <2>2
<1>6. q \in Nat \ {0} /\ p <= q * c /\ (q - 1) * c < p
  BY <1>5, TablesAreEnough, NeededIsTight
<1> HIDE DEF q
<1>7. ASSUME NEW m \in Nat, NEW n \in Nat \ {0}, m < n, p <= m * c, (n - 1) * c < p
      PROVE  FALSE
  <2>1. n - 1 \in Nat /\ m <= n - 1
    BY <1>7
  <2>2. m * c <= (n - 1) * c
    BY <2>1, ProductsGrow
  <2>3. m * c \in Nat /\ (n - 1) * c \in Nat
    BY <2>1, OneTimesMore
  <2> DEFINE y == m * c
             z == (n - 1) * c
  <2>4. y <= z /\ p <= y /\ z < p /\ y \in Nat /\ z \in Nat
    BY <1>7, <2>2, <2>3
  <2> HIDE DEF y, z
  <2> QED
    BY <1>5, <2>4
<1>8. ~(q < k)
  BY <1>2, <1>4, <1>6, <1>7
<1>9. ~(k < q)
  BY <1>2, <1>3, <1>6, <1>7
<1>10. q = k
  BY <1>2, <1>6, <1>8, <1>9
<1> QED
  BY <1>10 DEF q, p, k

\* Whoever leaves balanced tables, the plan moves nobody twice, and no more than sit at
\* the emptiest table, or a single one.
LEMMA VacatePlanIsShort ==
  ASSUME NEW D, IsFiniteSet(D), NEW room, NEW c \in Nat \ {0}, RoomOk(room, D, c),
         Balanced(room, c), NEW e \in SeatedIn(room)
  PROVE  LET vacated == Release(room, {e})
             moves == PlanRebalance(vacated)
             open == OpenTables(vacated)
             doomed == Emptiest(vacated, open)
         IN  /\ NoneTwice(moves) /\ Len(moves) \in Nat
             /\ Len(moves) <= 1 \/ Len(moves) <= Occupancy(vacated, doomed)
             /\ doomed \in open
             /\ \A t \in open : /\ Occupancy(vacated, doomed) <= Occupancy(vacated, t)
                                /\ Occupancy(vacated, t) \in Nat
                                /\ Occupancy(vacated, t) <= Cardinality(D)
<1> DEFINE vacated == Release(room, {e})
           open == OpenTables(vacated)
           x == room.at[e].table
           moves == PlanRebalance(vacated)
           doomed == Emptiest(vacated, open)
<1>1. Level(room, OpenTables(room))
  BY DEF Balanced
<1>2. /\ Sound(vacated, D) /\ Alike(vacated, c) /\ Nearly(vacated, open, x)
      /\ \A t \in open : Occupancy(vacated, t) <= Occupancy(vacated, x) + 2
  BY <1>1, VacatedNearly
<1> HIDE DEF vacated, x
<1>3. /\ doomed \in open /\ \A t \in open : Occupancy(vacated, doomed) <= Occupancy(vacated, t)
      /\ Len(moves) \in Nat
      /\ NoneTwice(moves) /\ (Len(moves) <= 1 \/ Len(moves) <= Occupancy(vacated, doomed))
  BY <1>2, RebalanceLevels
<1>4. \A t : Occupancy(vacated, t) \in Nat /\ Occupancy(vacated, t) <= Cardinality(D)
  BY <1>2, RoomTypes DEF Sound
<1> HIDE DEF moves, open, doomed
<1> QED
  BY <1>3, <1>4 DEF vacated, open, moves, doomed
=============================================================================
