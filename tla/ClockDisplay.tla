----------------------------- MODULE ClockDisplay -----------------------------
(***************************************************************************)
(* The television of the room in front of the clock: a page that polls the *)
(* public route and between two answers counts down by itself, on a device *)
(* whose clock is set to anything and does not even run at the right speed.*)
(***************************************************************************)
EXTENDS TournamentClockProps

CONSTANTS DeviceStarts,     \* what the device's clock may say at first
          Strides           \* how far it may move while a second passes

ASSUME DisplayConstants == DeviceStarts \subseteq Int /\ Strides \subseteq Nat

VARIABLES device,           \* the clock of the device, None when there is none
          tv,               \* the last answer, when it came, and how far off it can be
          answer            \* an answer on its way

tvVars == <<device, tv, answer>>
displayVars == <<vars, tvVars>>

\* TournamentClockService.read: one query, nothing is written.
Read ==
  [status |-> Shown.status, level |-> Shown.level, ends |-> Shown.ends,
   remaining |-> Remaining(Shown), serverTime |-> now, version |-> version]

DisplayInit ==
  /\ Init
  /\ device \in DeviceStarts \cup {None}
  /\ tv = None /\ answer = None

\* One poll is under way at a time.
Poll ==
  /\ device # None /\ answer = None
  /\ answer' = Read
  /\ UNCHANGED <<vars, device, tv>>

Receive ==
  /\ answer # None
  /\ tv' = [data |-> answer, updatedAt |-> device, late |-> now - answer.serverTime, drift |-> 0]
  /\ answer' = None
  /\ UNCHANGED <<vars, device>>

\* A poll that fails leaves the last answer on the screen.
Lose == answer # None /\ answer' = None /\ UNCHANGED <<vars, device, tv>>

Abs(n) == IF n < 0 THEN -n ELSE n

SecondPasses ==
  /\ TimePasses
  /\ IF device = None THEN UNCHANGED <<device, tv>>
     ELSE \E s \in Strides :
            /\ device' = device + s
            /\ tv' = IF tv = None THEN None ELSE [tv EXCEPT !.drift = @ + Abs(s - 1)]
  /\ UNCHANGED answer

DisplayNext ==
  \/ Poll \/ Receive \/ Lose \/ SecondPasses
  \/ Next /\ now' = now /\ UNCHANGED tvVars

DisplaySpec == DisplayInit /\ [][DisplayNext]_displayVars

-----------------------------------------------------------------------------

\* offsetOf: the server's clock less the device's, at the last answer.
Offset == tv.data.serverTime - tv.updatedAt

\* Mutant: the time left is the one the answer came with.
AgedRemaining == tv.data.remaining

\* remainingFrom.
RemainingShown ==
  IF tv.data.status = "RUNNING" THEN Max({0, tv.data.ends - (device + Offset)})
  ELSE tv.data.remaining

\* While nobody has given a command since the answer was made, the television is
\* wrong about the level it shows by no more than the answer's way here and what
\* the device has drifted since then: not by what its clock was set to, nor by
\* what it drifted before.
DisplayTracksServer ==
  tv # None /\ tv.data.version = version =>
    LET true == IF tv.data.status = "RUNNING" THEN Max({0, tv.data.ends - now})
                ELSE Remaining(Shown)
    IN  RemainingShown - true \in -tv.drift .. tv.late + tv.drift
=============================================================================
