----------------------------- MODULE LiveClock -----------------------------
(***************************************************************************)
(* The blind clock as a tournament director understands it: it counts the  *)
(* current level down, one unit of time after the other, rolls to the next *)
(* level by itself, and stops after the last one.  Nothing is ever stored  *)
(* or computed late.                                                       *)
(***************************************************************************)
EXTENDS Integers, Sequences

CONSTANT Durations          \* how long a level may be made to last

VARIABLES status, level, left, grid

vars == <<status, level, left, grid>>

Last == Len(grid)
Ticking == status \in {"RUNNING", "PAUSED"}

Init ==
  /\ status = "NOT_STARTED" /\ level = 0 /\ left = 0
  /\ grid \in Seq(Durations)

Finish == status' = "FINISHED" /\ level' = Last /\ left' = 0

\* A level shows zero for a moment before the next one begins to run.
Tick ==
  /\ status = "RUNNING"
  /\ \/ left > 0 /\ left' = left - 1 /\ UNCHANGED <<status, level>>
     \/ left = 0 /\ level < Last
        /\ level' = level + 1 /\ left' = grid[level + 1] - 1 /\ UNCHANGED status
     \/ left = 0 /\ level = Last /\ Finish
  /\ UNCHANGED grid

Start ==
  /\ status = "NOT_STARTED" /\ Last > 0
  /\ status' = "RUNNING" /\ level' = 1 /\ left' = grid[1]
  /\ UNCHANGED grid

Pause == status = "RUNNING" /\ status' = "PAUSED" /\ UNCHANGED <<level, left, grid>>

Resume == status = "PAUSED" /\ status' = "RUNNING" /\ UNCHANGED <<level, left, grid>>

Enter(n) == level' = n /\ left' = grid[n] /\ UNCHANGED status

NextLevel ==
  /\ Ticking
  /\ IF level < Last THEN Enter(level + 1) ELSE Finish
  /\ UNCHANGED grid

PreviousLevel == Ticking /\ level > 1 /\ Enter(level - 1) /\ UNCHANGED grid

\* A new duration of the current level moves its end by the difference.  A pause
\* has nothing left when the level is shortened beyond what has elapsed; a
\* running clock has then already passed into one of the levels after it.
Edit(n, d) ==
  LET longer == [grid EXCEPT ![n] = d]
      moved == left + d - grid[n]
      until[k \in level .. Last] == IF k = level THEN moved ELSE until[k - 1] + longer[k]
      reached == {k \in level .. Last : until[k] >= 0}
      now == CHOOSE k \in reached : \A j \in reached : k <= j
  IN  /\ n \in 1 .. Last
      /\ grid' = longer
      /\ IF n # level \/ ~Ticking THEN UNCHANGED <<status, level, left>>
         ELSE IF status = "PAUSED"
         THEN left' = (IF moved < 0 THEN 0 ELSE moved) /\ UNCHANGED <<status, level>>
         ELSE IF reached = {} THEN Finish
         ELSE level' = now /\ left' = until[now] /\ UNCHANGED status

Next ==
  \/ Tick \/ Start \/ Pause \/ Resume \/ NextLevel \/ PreviousLevel
  \/ \E n \in DOMAIN grid, d \in Durations : Edit(n, d)

Spec == Init /\ [][Next]_vars
=============================================================================
