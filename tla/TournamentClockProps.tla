------------------------ MODULE TournamentClockProps ------------------------
(***************************************************************************)
(* What the stored clock promises to whoever looks at it.                  *)
(***************************************************************************)
EXTENDS TournamentClock

Shown == Advance(clock, grid, now)

ClockRows ==
  [status : {"NOT_STARTED", "RUNNING", "PAUSED", "FINISHED"},
   level : Nat \cup {None}, ends : Int \cup {None}, left : Nat \cup {None}]

\* Types, and the columns the CHECK tournaments_clock_state_coherent asks for:
\* whoever has the clock running knows its end, whoever paused it what was left.
TypeOK ==
  /\ clock \in ClockRows
  /\ grid \in Seq(Durations)
  /\ version \in 0 .. MaxVersion /\ now \in 0 .. MaxTime
  /\ (clock.ends # None) <=> (clock.status = "RUNNING")
  /\ (clock.left # None) <=> (clock.status = "PAUSED")

Remaining(c) ==
  CASE c.status = "RUNNING" -> Max({0, c.ends - now})
    [] c.status = "PAUSED" -> c.left
    [] OTHER -> 0

\* A behaviour in which requests take time is not compared: a command would act
\* on the clock of the second it was planned in.
LiveStatus == IF lag THEN "NOT_STARTED" ELSE Shown.status
LiveLevel == IF lag \/ Shown.level = None THEN 0 ELSE Shown.level
LiveLeft == IF lag THEN 0 ELSE Remaining(Shown)
LiveGrid == IF lag THEN <<>> ELSE grid

Live == INSTANCE LiveClock WITH
  status <- LiveStatus, level <- LiveLevel, left <- LiveLeft, grid <- LiveGrid

\* What anybody reads at any moment is a clock that counts down by itself second
\* by second, and every accepted command is one step of it: no press of a button is
\* lost or counted twice, pausing neither gains nor loses time, an edit moves the
\* end of the level by the difference, as long as a command is written in the
\* second it was planned in.
ImplementsLiveClock == Live!Spec

\* Whenever a command's row is written, be it late, after other commands and after
\* the grid was replaced, the row becomes what the command makes of the row it
\* finds, as if given at some moment up to now; never what it made of another.
WritesFollowTheRow ==
  [][clock' # clock =>
       \E time \in 0 .. now, q \in Commands :
         LET plan == PlanOf(q, Advance(clock, grid, time), grid, time)
         IN  ~plan.refused /\ clock' = plan.clock /\ grid' = plan.durations]_vars
=============================================================================
