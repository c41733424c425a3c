---------------------------- MODULE SeatingRoom ----------------------------
(***************************************************************************)
(* One room of Seating on its own, for more players than the tournaments   *)
(* can be checked with.  Every route that moves a seat holds the           *)
(* tournament's row lock from its first read to its commit, so here each   *)
(* is one step: an entry comes (register), goes (eliminate, unregister),   *)
(* or everyone is drawn again.  Entries are rows: one that left never      *)
(* comes back, and a re-entry is another.                                  *)
(***************************************************************************)
EXTENDS Seating

CONSTANTS MaxEntries,       \* entries that ever come
          TableCapacity     \* tournaments.tableCapacity

VARIABLES room, came        \* the room, and how many entries have come so far

vars == <<room, came>>

Seated == {e \in DOMAIN room.at : room.at[e] # NoSeat}

Init ==
  /\ room = [tables |-> <<>>, at |-> [e \in 1 .. MaxEntries |-> NoSeat], clash |-> FALSE]
  /\ came = 0

Enter ==
  /\ came < MaxEntries
  /\ came' = came + 1
  /\ room' = SeatEntry(room, came + 1, TableCapacity)

Leave ==
  /\ \E e \in Seated : room' = Vacate(room, e)
  /\ UNCHANGED came

\* Two of the orders that the shuffle may produce; who gets which place of the
\* draw decides no other.
RedrawTables ==
  /\ Seated # {}
  /\ \E order \in {Ascending(Seated), Reverse(Ascending(Seated))} :
       room' = Redraw(room, order, TableCapacity)
  /\ UNCHANGED came

Next == Enter \/ Leave \/ RedrawTables

Spec == Init /\ [][Next]_vars

-----------------------------------------------------------------------------

\* Everyone seated has an own seat of an open table, within its capacity, and a
\* table nobody sits at is closed: after every route that moves seats.
SeatsAreSound ==
  /\ room.at \in [1 .. MaxEntries -> [table : 0 .. Len(room.tables), seat : Nat]]
  /\ \A e \in Seated :
       /\ room.at[e].table \in OpenTables(room)
       /\ room.at[e].seat \in 1 .. room.tables[room.at[e].table].capacity
       /\ \A o \in Seated \ {e} : room.at[o] # room.at[e]
  /\ \A n \in OpenTables(room) : Occupants(room, n) # {}

\* Open tables never differ by more than one player, at any commit, and there is
\* never a table more than the players need (seating.ts, policy MT-001).
TablesBalanced ==
  LET open == OpenTables(room)
  IN  /\ \A m, n \in open : Occupancy(room, m) - Occupancy(room, n) <= 1
      /\ Cardinality(open) > 1 =>
           TablesNeeded(Cardinality(Seated), TableCapacity) = Cardinality(open)

\* No statement of a plan meets the unique index on active seats: each seat a
\* move aims at is free when its turn comes.
PlansNeverClash == ~room.clash

\* Decision (d) of seating.ts: whoever leaves next, no plan moves a player twice,
\* so that its moves can be carried out one by one; and no more players move than
\* sit at the table that is broken, or a single one when none is.
NobodyMovesTwice ==
  \A e \in Seated :
    LET vacated == Release(room, {e})
        open == OpenTables(vacated)
        moves == PlanRebalance(vacated)
        fewest == Min({Occupancy(vacated, t) : t \in open} \cup {MaxEntries})
    IN  /\ \A i, j \in DOMAIN moves : moves[i].entry = moves[j].entry => i = j
        /\ Len(moves) <= Max({1, fewest})
=============================================================================
