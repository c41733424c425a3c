---------------------------- MODULE MCTournament ----------------------------
(* Instances of the tournaments for TLC. *)
EXTENDS TournamentProps

Freezeout ==
  [buyIn |-> 5, fee |-> 1, bonus |-> 0, max |-> 3, capacity |-> 2, prizes |-> <<10000>>,
   reentry |-> FALSE, maxReentries |-> 0, untilLevel |-> 0, levels |-> 2, late |-> FALSE]

\* A grade that is refused, next to one that is one hundredth short of 100%.
BadGrade == [Freezeout EXCEPT !.prizes = <<9000>>]
TwoPrizes == [Freezeout EXCEPT !.prizes = <<6000, 3999>>]
HalfAndHalf == [Freezeout EXCEPT !.prizes = <<5000, 5000>>]
Reentries ==
  [Freezeout EXCEPT !.reentry = TRUE, !.maxReentries = 1, !.untilLevel = 1,
                    !.late = TRUE, !.bonus = 2, !.max = 2]
Incoherent == [Freezeout EXCEPT !.maxReentries = 1]

EntryDesk == <<Reentries, BadGrade, Incoherent>>

\* Only the second place is paid, so the champion gets a place and no prize.
NoFirstPrize == [Freezeout EXCEPT !.prizes = [p \in {2} |-> 10000]]

Dearer == [Freezeout EXCEPT !.fee = 3]
Champion == <<Freezeout>>
Prices == <<Freezeout, Dearer>>
Knockout == <<HalfAndHalf, TwoPrizes, NoFirstPrize>>
PayableOrEdited == <<HalfAndHalf, Freezeout, Dearer>>

-----------------------------------------------------------------------------

Calls(ops) == \A r \in Reqs : req[r].op \in ops \cup {None}

\* Only finishes overlap: what it takes to fill a tournament happens before.
OnlyFinishesOverlap ==
  (\A r \in Reqs : req[r].pc # "idle") => Calls({"finish"})

\* One finish overlaps whatever else changes who is still in: another finish, an
\* entry, an elimination.
FinishOverlaps ==
  (\A r \in Reqs : req[r].pc # "idle") =>
    /\ \E r \in Reqs : req[r].op = "finish"
    /\ Calls({"register", "eliminate", "finish"})

\* The run in which every request must end explores two plans, in which users,
\* tournaments and keys are numbers.  In the first, two tournaments of the same
\* two players are finished at the same time; their entries are made in a fixed
\* order, each with the next key or, again, with the last one.
TwoTournaments ==
  /\ OnlyFinishesOverlap /\ Calls({"register", "eliminate", "finish"})
  /\ \A t \in Tournaments : tours[t].setting \in {0, 1}
  /\ \A r \in Reqs : req[r].op = "register" =>
       LET n == Cardinality(Entries \ Unused)
       IN  req[r].key \in {n, n + 1} /\ req[r].tour = ((req[r].key + 1) \div 2)
           /\ req[r].user = 2 - (req[r].key % 2)

\* In the second, one player comes and goes while the fee is edited and the room
\* is drawn again.
Edits ==
  /\ Calls({"register", "unregister", "update", "redraw"})
  /\ tours[2] = NoTour /\ tours[1].setting \in {0, 2, 3}
  /\ Cardinality(Entries \ Unused) <= 2
  /\ \A r \in Reqs :
       /\ req[r].user \in {None, 1} /\ req[r].key \in {None, 1, 2}
       /\ req[r].op = "update" => req[r].setting \in {2, 3}

EditsOrTwoTournaments == Edits \/ TwoTournaments

\* Time decides nothing before the tournament runs, so it may as well pass later.
TimePassesLate ==
  \A t \in Tournaments :
    tours[t].status # "RUNNING" => time[t] = [phase |-> "before", level |-> 1]

Slots == Permutations(Keys) \cup Permutations(Users \ Guests) \cup Permutations(Reqs)
=============================================================================
