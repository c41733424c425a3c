------------------------------- MODULE Seating -------------------------------
(***************************************************************************)
(* Who sits where in one tournament: the pure planners of seating.ts, and  *)
(* the statements with which TournamentService carries their plans out.    *)
(* A room is what the database holds for one tournament:                   *)
(*   tables  its tables by number, [status, capacity]                      *)
(*   at      the active seat of each entry, NoSeat if it has none          *)
(*   clash   whether an insert met the unique index on active seats        *)
(***************************************************************************)
EXTENDS Integers, FiniteSetsExt, SequencesExt

Place(t, s) == [table |-> t, seat |-> s]
NoSeat == Place(0, 0)
OpenTable(capacity) == [status |-> "OPEN", capacity |-> capacity]

OpenTables(room) == {t \in DOMAIN room.tables : room.tables[t].status = "OPEN"}
Occupants(room, t) == {e \in DOMAIN room.at : room.at[e].table = t}
Occupancy(room, t) == Cardinality(Occupants(room, t))
HasFreeSeat(room, t) == Occupancy(room, t) < room.tables[t].capacity

\* Ties go to the larger table number, in every choice of a table.
Fullest(room, S) ==
  CHOOSE t \in S : \A o \in S \ {t} :
    \/ Occupancy(room, o) < Occupancy(room, t)
    \/ Occupancy(room, o) = Occupancy(room, t) /\ o < t

Emptiest(room, S) ==
  CHOOSE t \in S : \A o \in S \ {t} :
    \/ Occupancy(room, o) > Occupancy(room, t)
    \/ Occupancy(room, o) = Occupancy(room, t) /\ o < t

FirstFreeSeat(room, t) ==
  LET taken == {room.at[e].seat : e \in Occupants(room, t)}
  IN  Min((1 .. Cardinality(taken) + 1) \ taken)

\* The members of a finite set of numbers, the smallest first.
Ascending(S) ==
  [i \in 1 .. Cardinality(S) |-> CHOOSE x \in S : Cardinality({y \in S : y < x}) = i - 1]

Repeat(Op(_), n, x) == FoldLeft(LAMBDA acc, i : Op(acc), x, [i \in 1 .. n |-> i])

-----------------------------------------------------------------------------
(* planInitialSeat: the emptiest table with room, or a new table.          *)

PlanInitialSeat(room, capacity) ==
  LET candidates == {t \in OpenTables(room) : HasFreeSeat(room, t)}
      target == Emptiest(room, candidates)
  IN  IF candidates = {} THEN [place |-> Place(Len(room.tables) + 1, 1), opens |-> TRUE]
      ELSE [place |-> Place(target, FirstFreeSeat(room, target)), opens |-> FALSE]

-----------------------------------------------------------------------------
(* planRebalance: the plan is made on a working copy of the room.          *)

\* Mutant: the working copy is not updated, so a seat can be aimed at twice.
MovedAway(room, e, place) == [room EXCEPT !.at[e] = NoSeat]

Moved(room, e, place) == [room EXCEPT !.at[e] = place]

\* The player in the highest seat moves to the first free seat.
Relocate(plan, from, to) ==
  LET sitting == Occupants(plan.room, from)
      player == CHOOSE e \in sitting :
                  \A o \in sitting : plan.room.at[o].seat <= plan.room.at[e].seat
      place == Place(to, FirstFreeSeat(plan.room, to))
  IN  [room |-> Moved(plan.room, player, place),
       moves |-> Append(plan.moves, [entry |-> player, place |-> place])]

Capacity(room, S) == MapThenSumSet(LAMBDA t : room.tables[t].capacity, S)

\* The emptiest table is broken when everyone alive fits in the others.
Breaks(room, survivors) ==
  Cardinality(UNION {Occupants(room, t) : t \in OpenTables(room)})
    <= Capacity(room, survivors)

BreakTable(plan, doomed, survivors) ==
  Repeat(LAMBDA p : Relocate(p, doomed,
           Emptiest(p.room, {t \in survivors : HasFreeSeat(p.room, t)})),
         Occupancy(plan.room, doomed), plan)

MaxOccupancyGap == 1

\* One turn of the loop: from the fullest table to the emptiest with room,
\* unless they are level already.
BalanceOnce(plan, open) ==
  LET source == Fullest(plan.room, open)
      targets == {t \in open \ {source} : HasFreeSeat(plan.room, t)}
      target == Emptiest(plan.room, targets)
      level == \/ targets = {}
               \/ Occupancy(plan.room, source) - Occupancy(plan.room, target)
                    <= MaxOccupancyGap
  IN  IF level THEN plan ELSE Relocate(plan, source, target)

\* Each turn moves somebody or is the last, so as many turns as players are enough.
Balance(plan, open) ==
  Repeat(LAMBDA p : BalanceOnce(p, open), Cardinality(DOMAIN plan.room.at), plan)

PlanRebalance(room) ==
  LET open == OpenTables(room)
      doomed == Emptiest(room, open)
      survivors == open \ {doomed}
      start == [room |-> room, moves |-> <<>>]
      broken == BreakTable(start, doomed, survivors)
  IN  IF Cardinality(open) < 2 THEN <<>>
      ELSE IF Breaks(room, survivors) THEN Balance(broken, survivors).moves
      ELSE Balance(start, open).moves

-----------------------------------------------------------------------------
(* planRedraw: round robin over the shuffled entries.                      *)

TablesNeeded(n, capacity) == (n + capacity - 1) \div capacity

PlanRedraw(order, capacity) ==
  LET n == TablesNeeded(Len(order), capacity)
  IN  [i \in DOMAIN order |->
        [entry |-> order[i], place |-> Place(((i - 1) % n) + 1, ((i - 1) \div n) + 1)]]

-----------------------------------------------------------------------------
(* The statements.  A seat row is released by an UPDATE and taken by an    *)
(* INSERT, which the partial unique index on active seats may refuse.      *)

Release(room, S) ==
  [room EXCEPT !.at = [e \in DOMAIN @ |-> IF e \in S THEN NoSeat ELSE @[e]]]

TakePlace(room, e, place) ==
  [room EXCEPT !.at[e] = place,
               !.clash = @ \/ \E o \in DOMAIN room.at : room.at[o] = place]

ApplyMoves(room, moves) ==
  FoldLeft(LAMBDA r, m : TakePlace(Release(r, {m.entry}), m.entry, m.place), room, moves)

\* Mutant: an empty table stays open.
CloseNoTables(room) == room

CloseEmptyTables(room) ==
  [room EXCEPT !.tables = [t \in DOMAIN @ |->
     IF Occupants(room, t) = {} THEN [@[t] EXCEPT !.status = "CLOSED"] ELSE @[t]]]

\* Mutant: opening a table does not rebalance the others.
NeverRebalance(before, after) == after

\* A table opened next to open ones is filled from them at once.
FillNewTable(before, after) ==
  IF OpenTables(before) = {} \/ OpenTables(before) = OpenTables(after) THEN after
  ELSE ApplyMoves(after, PlanRebalance(after))

SeatEntry(room, e, capacity) ==
  LET plan == PlanInitialSeat(room, capacity)
      opened == IF plan.opens THEN [room EXCEPT !.tables = Append(@, OpenTable(capacity))]
                ELSE room
  IN  FillNewTable(room, TakePlace(opened, e, plan.place))

\* What eliminateEntry and unregisterEntry do with the seat of an entry.
Vacate(room, e) ==
  LET vacated == Release(room, {e})
  IN  CloseEmptyTables(ApplyMoves(vacated, PlanRebalance(vacated)))

\* Mutant: each player stands up only when it is her turn to move.
KeepSeats(room) == room

StandUp(room) == Release(room, DOMAIN room.at)

\* redrawTables: the open tables are used first, in their order, then new ones;
\* all seats of the tournament are released before the first one is taken.
Redraw(room, order, capacity) ==
  LET assignments == PlanRedraw(order, capacity)
      open == Ascending(OpenTables(room))
      missing == TablesNeeded(Len(order), capacity) - Len(open)
      added == [i \in 1 .. missing |-> OpenTable(capacity)]
      destination(i) == IF i <= Len(open) THEN open[i] ELSE Len(room.tables) + i - Len(open)
      moves == [i \in DOMAIN assignments |->
                 [assignments[i] EXCEPT !.place.table = destination(@)]]
  IN  CloseEmptyTables(ApplyMoves(StandUp([room EXCEPT !.tables = @ \o added]), moves))
=============================================================================
