--------------------------- MODULE TournamentClock ---------------------------
(***************************************************************************)
(* The blind clock as TournamentClockService keeps it: four columns of the *)
(* tournament's row that nothing touches while time passes, the grid of    *)
(* levels, and a version that every writer of the row increments.  Each    *)
(* command reads row and grid, plans the new columns, and writes them if   *)
(* the version is still the one it read; otherwise it plans again.         *)
(***************************************************************************)
EXTENDS Integers, Sequences, SequencesExt, FiniteSetsExt

CONSTANTS None,
          Reqs,             \* requests
          Grids,            \* the sequences of durations presets offer
          Durations,        \* what an edit may make of a level's duration
          MaxTime,          \* the seconds this instance lasts
          MaxVersion,       \* the writes to the row this instance lasts
          Workload          \* the commands the clients of this instance give

ASSUME ClockConstants ==
  /\ Grids \subseteq Seq(Durations) /\ Durations \subseteq Nat \ {0}
  /\ MaxTime \in Nat /\ MaxVersion \in Nat /\ None \notin Int

VARIABLES clock,            \* clockStatus, currentLevelNumber, levelEndsAt, clockRemainingMs
          grid,             \* tournament_blind_levels: durations by level number
          copies,           \* how often the rows of the grid have been replaced
          version,          \* tournaments.version
          entered,          \* whether the tournament has an entry
          now,              \* wall-clock time
          lag,              \* whether requests take time that shows on the clock
          req

vars == <<clock, grid, copies, version, entered, now, lag, req>>

MaxAttempts == 3

Clock(status, level, ends, left) ==
  [status |-> status, level |-> level, ends |-> ends, left |-> left]
Running(level, ends) == Clock("RUNNING", level, ends, None)
Paused(level, left) == Clock("PAUSED", level, None, left)
Finished(level) == Clock("FINISHED", level, None, None)

Idle == [pc |-> "idle", op |-> None, level |-> 0, duration |-> 0, read |-> 0, rows |-> 0,
         plan |-> None, durations |-> <<>>, tries |-> 0]

Init ==
  /\ clock = Clock("NOT_STARTED", None, None, None)
  /\ grid \in Grids
  /\ copies = 0 /\ version = 0 /\ entered = FALSE /\ now = 0 /\ lag \in BOOLEAN
  /\ req = [r \in Reqs |-> Idle]

-----------------------------------------------------------------------------
(* The state machine, as pure functions of what was read.                  *)

\* Mutant: a level is over the moment its time is.
RollsAtTheEdge(end, time) == end > time

\* At the very end of a level it is still the current one.
Lasts(end, time) == end >= time

\* advanceClockToNow: a running clock has passed the levels that ended before now.
Advance(c, g, time) ==
  LET end[k \in c.level .. Len(g)] == IF k = c.level THEN c.ends ELSE end[k - 1] + g[k]
      lasting == {k \in c.level .. Len(g) : Lasts(end[k], time)}
      current == Min(lasting)
  IN  IF c.status # "RUNNING" \/ c.level \notin DOMAIN g \/ Lasts(c.ends, time) THEN c
      ELSE IF lasting = {} THEN Finished(Len(g))
      ELSE Running(current, end[current])

Accept(c, g) == [refused |-> FALSE, clock |-> c, durations |-> g]
Refusal == [refused |-> TRUE]

PlanStart(c, g, time) ==
  IF c.status = "NOT_STARTED" /\ g # <<>> THEN Accept(Running(1, time + g[1]), g) ELSE Refusal

\* Mutant: what is left of a level may be less than nothing.
Unclamped(left) == left

\* A level that is over has nothing left.
Clamped(left) == Max({0, left})

PlanPause(c, g, time) ==
  IF c.status = "RUNNING" THEN Accept(Paused(c.level, Clamped(c.ends - time)), g) ELSE Refusal

PlanResume(c, g, time) ==
  IF c.status = "PAUSED" THEN Accept(Running(c.level, time + c.left), g) ELSE Refusal

\* The new level begins whole, and a paused clock stays paused.
Entering(c, g, level, time) ==
  IF c.status = "RUNNING" THEN Running(level, time + g[level]) ELSE Paused(level, g[level])

Ticking(c) == c.status \in {"RUNNING", "PAUSED"}

PlanStep(c, g, direction, time) ==
  LET target == c.level + direction
  IN  IF ~Ticking(c) \/ c.level \notin DOMAIN g THEN Refusal
      ELSE IF target \in DOMAIN g THEN Accept(Entering(c, g, target, time), g)
      ELSE IF direction = 1 THEN Accept(Finished(c.level), g)
      ELSE Refusal

\* A longer level ends later by the difference, whatever has elapsed of it.
MovedEnd(c, delta, duration, time) == (IF c.status = "RUNNING" THEN c.ends ELSE c.left) + delta

PlanEdit(c, g, level, duration, time) ==
  LET delta == duration - g[level]
      moved == MovedEnd(c, delta, duration, time)
  IN  IF level \notin DOMAIN g THEN Refusal
      ELSE Accept(IF c.level # level \/ delta = 0 \/ ~Ticking(c) THEN c
                  ELSE IF c.status = "RUNNING" THEN Running(level, moved)
                  ELSE Paused(level, Clamped(moved)),
                  [g EXCEPT ![level] = duration])

PlanOf(q, c, g, time) ==
  CASE q.op = "start" -> PlanStart(c, g, time)
    [] q.op = "pause" -> PlanPause(c, g, time)
    [] q.op = "resume" -> PlanResume(c, g, time)
    [] q.op = "next" -> PlanStep(c, g, 1, time)
    [] q.op = "previous" -> PlanStep(c, g, -1, time)
    [] q.op = "edit" -> PlanEdit(c, g, q.level, q.duration, time)

-----------------------------------------------------------------------------
(* mutate.                                                                 *)

\* One query for row and grid, and the plan on what it says the clock is now.
Planned(q) ==
  LET plan == PlanOf(q, Advance(clock, grid, now), grid, now)
  IN  IF plan.refused THEN Idle
      ELSE [q EXCEPT !.pc = "write", !.plan = plan.clock, !.durations = plan.durations,
                     !.read = version, !.rows = copies]

Commands ==
  {[Idle EXCEPT !.op = op] :
     op \in {"start", "pause", "resume", "next", "previous"} \cap Workload}
    \cup (IF "edit" \in Workload
          THEN {[Idle EXCEPT !.op = "edit", !.level = level, !.duration = duration] :
                  level \in 1 .. Len(grid) + 1, duration \in Durations}
          ELSE {})

Command(r) ==
  /\ req[r].pc = "idle"
  /\ \E q \in Commands : req' = [req EXCEPT ![r] = Planned(q)]
  /\ UNCHANGED <<clock, grid, copies, version, entered, now, lag>>

PlanAgain(r) ==
  /\ req[r].pc = "plan"
  /\ req' = [req EXCEPT ![r] = Planned(req[r])]
  /\ UNCHANGED <<clock, grid, copies, version, entered, now, lag>>

\* Mutant: the row is written whatever its version.
AnyVersion(q) == TRUE

\* The version in the WHERE of the UPDATE.
SameVersion(q) == q.read = version

\* An edit first writes the level by its id, which fails for good when the grid
\* has been replaced since it was read: the request can only fail.
RowsGone(q) == q.op = "edit" /\ q.rows # copies

Write(r) ==
  LET q == req[r]
  IN  /\ q.pc = "write" /\ ~RowsGone(q) /\ SameVersion(q)
      /\ version < MaxVersion
      /\ clock' = q.plan
      /\ grid' = IF q.op = "edit" THEN q.durations ELSE grid
      /\ version' = version + 1
      /\ req' = [req EXCEPT ![r] = Idle]
      /\ UNCHANGED <<copies, entered, now, lag>>

\* Another writer came first: plan again, up to three times.
WriteAgain(r) ==
  LET q == req[r]
  IN  /\ q.pc = "write" /\ ~RowsGone(q) /\ ~SameVersion(q)
      /\ req' = [req EXCEPT ![r] = IF q.tries + 1 = MaxAttempts THEN Idle
                                   ELSE [q EXCEPT !.pc = "plan", !.tries = @ + 1]]
      /\ UNCHANGED <<clock, grid, copies, version, entered, now, lag>>

-----------------------------------------------------------------------------
(* What else writes the tournament's row.                                  *)

\* Entries and cancellations increment the version as well.
Register ==
  /\ "register" \in Workload /\ version < MaxVersion
  /\ entered' = TRUE /\ version' = version + 1
  /\ UNCHANGED <<clock, grid, copies, now, lag, req>>

Unregister ==
  /\ entered /\ version < MaxVersion
  /\ entered' = FALSE /\ version' = version + 1
  /\ UNCHANGED <<clock, grid, copies, now, lag, req>>

\* updateTournament reads, and refuses a new structure once the clock has started.
AskUpdate(r) ==
  /\ req[r].pc = "idle" /\ "update" \in Workload
  /\ ~entered /\ clock.status = "NOT_STARTED"
  /\ \E g \in Grids :
       req' = [req EXCEPT ![r] = [Idle EXCEPT !.pc = "update", !.op = "update",
                                              !.durations = g]]
  /\ UNCHANGED <<clock, grid, copies, version, entered, now, lag>>

\* Its UPDATE is guarded by the entries, then the rows of the grid are replaced.
ApplyUpdate(r) ==
  /\ req[r].pc = "update" /\ ~entered
  /\ version < MaxVersion
  /\ grid' = req[r].durations
  /\ copies' = copies + 1 /\ version' = version + 1
  /\ req' = [req EXCEPT ![r] = Idle]
  /\ UNCHANGED <<clock, entered, now, lag>>

-----------------------------------------------------------------------------

\* The request ends without having written: an error, or the process dies.
Fail(r) ==
  /\ req[r].pc # "idle"
  /\ req' = [req EXCEPT ![r] = Idle]
  /\ UNCHANGED <<clock, grid, copies, version, entered, now, lag>>

\* Without lag a command is written in the second it was planned in.
TimePasses ==
  /\ now < MaxTime /\ now' = now + 1
  /\ lag \/ \A r \in Reqs : req[r].pc # "write"
  /\ UNCHANGED <<clock, grid, copies, version, entered, lag, req>>

Next ==
  \/ TimePasses \/ Register \/ Unregister
  \/ \E r \in Reqs : \/ Command(r) \/ PlanAgain(r) \/ Write(r) \/ WriteAgain(r)
                     \/ AskUpdate(r) \/ ApplyUpdate(r) \/ Fail(r)

Spec == Init /\ [][Next]_vars
=============================================================================
