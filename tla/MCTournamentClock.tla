-------------------------- MODULE MCTournamentClock --------------------------
(***************************************************************************)
(* Clocks for TLC: a run explores the union of three plans.                *)
(***************************************************************************)
EXTENDS ClockDisplay, TLC

Levels == {<<1, 2>>, <<>>}
Devices == {-2}

Calls(ops) == \A r \in Reqs : req[r].op \in ops \cup {None}

\* Two admins and no television; commands take no time.
Prompt ==
  /\ device = None /\ ~lag /\ copies = 0 /\ ~entered
  /\ Calls({"start", "pause", "resume", "next", "previous", "edit"})

\* Commands take time, while entries and new structures change the row.
Slow ==
  /\ device = None /\ lag /\ now <= 2 /\ version <= 2
  /\ Calls({"start", "pause", "next", "edit", "update"})

\* One admin and a television.
Watched ==
  /\ device # None /\ ~lag /\ copies = 0 /\ ~entered /\ version <= 2
  /\ Calls({"start", "pause", "next"})
  /\ \E r \in Reqs : req[r].pc = "idle"

Plans == Prompt \/ Slow \/ Watched

Slots == Permutations(Reqs)
=============================================================================
