---------------------------- MODULE ClockControl ----------------------------
(***************************************************************************)
(* The page from which the clock of a tournament is operated, in front of  *)
(* a clock that other operators and time move as well.  The page shows the *)
(* last answer it has, of a poll or of a command; the fields of the level  *)
(* are filled when the level appears and not touched by polls.             *)
(***************************************************************************)
EXTENDS Integers

CONSTANTS None,
          LastLevel,        \* a grid has levels 1 .. LastLevel, the first of them or none
          Values, Bad,      \* what the fields of a level may say; Bad is refused
          Slots,            \* commands of the page that can be under way at once
          MaxVersion        \* changes of the clock this instance lasts

VARIABLES clock,            \* the tournament's row, read now: its clock, grid and version
          shown,            \* the answer in the cache of the page
          poll,             \* the query under way, with what the server has read for it
          form,             \* the fields, and the level they were filled in for (of the model)
          asked,            \* the commands under way
          latest            \* age of the newest answer to an own command (of the model)

vars == <<clock, shown, poll, form, asked, latest>>

Actions == {"start", "pause", "resume", "next", "previous"}
Levels == 1 .. LastLevel

\* last is the number of levels of the tournament, and the fields of a level are one value.
\* age is of the model: it counts the ends of levels, which nobody writes, as well.
Clocks ==
  [status : {"NOT_STARTED", "RUNNING", "PAUSED", "FINISHED"}, level : 0 .. LastLevel,
   last : 0 .. LastLevel, fields : [Levels -> Values], version : Nat, age : Nat]

\* A tournament may have no levels.
Init ==
  /\ \E n \in 0 .. LastLevel, v \in Values :
       clock = [status |-> "NOT_STARTED", level |-> 0, last |-> n,
                fields |-> [l \in Levels |-> v], version |-> 0, age |-> 0]
  /\ shown = None /\ poll = [read |-> None] /\ form = None
  /\ asked = [s \in Slots |-> None]
  /\ latest = 0

-----------------------------------------------------------------------------
(* The service.                                                            *)

Ticking(c) == c.status \in {"RUNNING", "PAUSED"}

\* What the plan of each command refuses with a 400 or a 404.
Accepted(c, q) ==
  CASE q.op = "start" -> c.status = "NOT_STARTED" /\ c.last > 0
    [] q.op = "pause" -> c.status = "RUNNING"
    [] q.op = "resume" -> c.status = "PAUSED"
    [] q.op = "next" -> Ticking(c)
    [] q.op = "previous" -> Ticking(c) /\ c.level > 1
    [] q.op = "edit" -> q.level <= c.last /\ q.value # Bad

Forward(c) ==
  IF c.level = c.last THEN [c EXCEPT !.status = "FINISHED"] ELSE [c EXCEPT !.level = @ + 1]

Changed(c, q) ==
  CASE q.op = "start" -> [c EXCEPT !.status = "RUNNING", !.level = 1]
    [] q.op = "pause" -> [c EXCEPT !.status = "PAUSED"]
    [] q.op = "resume" -> [c EXCEPT !.status = "RUNNING"]
    [] q.op = "next" -> Forward(c)
    [] q.op = "previous" -> [c EXCEPT !.level = @ - 1]
    [] q.op = "edit" -> [c EXCEPT !.fields[q.level] = q.value]

Becomes(c) == clock.age < MaxVersion /\ clock' = [c EXCEPT !.age = @ + 1]
Written(c) == Becomes([c EXCEPT !.version = @ + 1])

Order(op) == [op |-> op, level |-> 0, value |-> None, filledFor |-> 0]
Edit(level, value, for) == [op |-> "edit", level |-> level, value |-> value, filledFor |-> for]

\* The tournament is given another grid, or none: only before the start (updateTournament).
Regridded(n, v) == [clock EXCEPT !.last = n, !.fields = [l \in Levels |-> v]]

\* Another operator, a level that ends, an entry (which takes a version and leaves the
\* clock alone), or whoever sets the tournament up.
Elsewhere ==
  /\ \/ \E q \in {Order(op) : op \in Actions} \cup {Edit(l, v, l) : l \in Levels, v \in Values} :
          Accepted(clock, q) /\ Written(Changed(clock, q))
     \/ clock.status = "RUNNING" /\ Becomes(Forward(clock))
     \/ Written(clock)
     \/ /\ clock.status = "NOT_STARTED"
        /\ \E n \in 0 .. LastLevel, v \in Values : Written(Regridded(n, v))
  /\ UNCHANGED <<shown, poll, form, asked, latest>>

-----------------------------------------------------------------------------
(* What the page shows.                                                    *)

Filled(data) == [level |-> data.level, value |-> data.fields[data.level], filledFor |-> data.level]

\* Mutant: the same form for every level.
OneForm(data) == IF form = None THEN Filled(data) ELSE [form EXCEPT !.level = data.level]

\* The key of the form is the level's number: another level, another form.
FormFor(data) == IF form # None /\ form.level = data.level THEN form ELSE Filled(data)

Show(data) ==
  /\ shown' = data
  /\ form' = IF data.level = 0 THEN None ELSE FormFor(data)

Poll ==
  /\ poll = None
  /\ poll' = [read |-> None]
  /\ UNCHANGED <<clock, shown, form, asked, latest>>

ReadClock ==
  /\ poll # None /\ poll.read = None
  /\ poll' = [read |-> clock]
  /\ UNCHANGED <<clock, shown, form, asked, latest>>

PollAnswered ==
  /\ poll # None /\ poll.read # None
  /\ Show(poll.read)
  /\ poll' = None
  /\ UNCHANGED <<clock, asked, latest>>

PollLost ==
  /\ poll # None
  /\ poll' = None
  /\ UNCHANGED <<clock, shown, form, asked, latest>>

-----------------------------------------------------------------------------
(* Commands.                                                               *)

\* Mutant: also from the first level, or before the start.
OfferedMore(op) ==
  IF op = "previous" THEN shown.status \in {"RUNNING", "PAUSED"}
  ELSE op \in {"start", "pause", "resume", "next"} /\ shown.status # "FINISHED"

\* ALLOWED_FROM and isDisabled, on what the page shows.
Offered(op) ==
  CASE op = "start" -> shown.status = "NOT_STARTED"
    [] op = "pause" -> shown.status = "RUNNING"
    [] op = "resume" -> shown.status = "PAUSED"
    [] op = "next" -> shown.status \in {"RUNNING", "PAUSED"}
    [] op = "previous" -> shown.status \in {"RUNNING", "PAUSED"} /\ shown.level > 1

\* The five buttons are one mutation, the form of the level is another.
SameMutation(p, q) == (p.op = "edit") = (q.op = "edit")

\* A button is blocked while the last command of its mutation is its own and under way;
\* an earlier one, which goes on all the same, blocks nothing.
Send(s, q) ==
  /\ asked[s] = None
  /\ \A o \in Slots : asked[o] # None /\ asked[o].newest => asked[o].order.op # q.op
  /\ asked' = [o \in Slots |->
       IF o = s
       THEN [order |-> q, seen |-> shown, from |-> clock.version, newest |-> TRUE, answer |-> None]
       ELSE IF asked[o] # None /\ SameMutation(asked[o].order, q)
            THEN [asked[o] EXCEPT !.newest = FALSE] ELSE asked[o]]
  /\ UNCHANGED <<clock, shown, poll, form, latest>>

Click(s) == shown # None /\ \E op \in Actions : Offered(op) /\ Send(s, Order(op))

Type ==
  /\ form # None
  /\ \E v \in Values \cup {Bad} :
       form' = [form EXCEPT !.value = v, !.filledFor = shown.level]
  /\ UNCHANGED <<clock, shown, poll, asked, latest>>

\* handleLevelSubmit: all the fields, for the level on show.
Submit(s) == form # None /\ Send(s, Edit(shown.level, form.value, form.filledFor))

\* The 409: each attempt read the row before somebody else wrote it.
MAX_ATTEMPTS == 3
Contended(a) == clock.version >= a.from + MAX_ATTEMPTS

\* mutate, from the attempt that ends it on: an earlier one leaves nothing behind.
Handle(s) ==
  LET a == asked[s]
      answered(refused) ==
        asked' = [asked EXCEPT ![s].answer = [refused |-> refused, clock |-> clock']]
  IN  /\ a # None /\ a.answer = None
      /\ \/ /\ Accepted(clock, a.order)
            /\ Written(Changed(clock, a.order))
            /\ answered(FALSE)
         \/ /\ ~Accepted(clock, a.order) \/ Contended(a)
            /\ UNCHANGED clock
            /\ answered(TRUE)
      /\ UNCHANGED <<shown, poll, form, latest>>

\* Mutant: the poll that was under way goes on.
GoesOn == IF poll = None THEN [read |-> None] ELSE poll

\* invalidateQueries gives up the poll under way and asks again.
AskedAgain == [read |-> None]

\* applyClock, which does not compare the answer with what is shown.
Applied(s) ==
  LET a == asked[s]
  IN  /\ a # None /\ a.answer # None /\ ~a.answer.refused
      /\ Show(a.answer.clock)
      /\ latest' = IF latest < a.answer.clock.age THEN a.answer.clock.age ELSE latest
      /\ poll' = AskedAgain
      /\ asked' = [asked EXCEPT ![s] = None]
      /\ UNCHANGED clock

\* An error, or an answer that never comes: only a message is shown.
Failed(s) ==
  /\ asked[s] # None
  /\ asked' = [asked EXCEPT ![s] = None]
  /\ UNCHANGED <<clock, shown, poll, form, latest>>

Next ==
  \/ Elsewhere \/ Poll \/ ReadClock \/ PollAnswered \/ PollLost \/ Type
  \/ \E s \in Slots : Click(s) \/ Submit(s) \/ Handle(s) \/ Applied(s) \/ Failed(s)

Spec == Init /\ [][Next]_vars

-----------------------------------------------------------------------------

\* What was read or typed for one level is never saved as another, though the level
\* may change at any moment while the operator is typing (comment on the form's key).
EditKeepsItsLevel ==
  \A s \in Slots : asked[s] # None => 
    asked[s].order.filledFor = asked[s].order.level

\* Once the answer to a command is on the page, no poll puts an older row in its place,
\* also one that was on its way already (comment of applyClock).  Answers to commands are
\* not compared: one that is overtaken replaces the newer one, until the poll that it
\* asks for is answered.
PollsKeepUp == asked' = asked /\ shown' # shown => shown'.age >= latest

OwnCommandStaysShown == [][PollsKeepUp]_vars

\* A button that can be pressed is only refused when the clock is no longer where the page
\* showed it, when the row was written again and again while the command was under way, or
\* when the tournament has no levels to start with: but for the last, which the page does
\* not look at, its table of transitions and the service's agree (comment of ALLOWED_FROM).
RefusedOnlyIfMoved ==
  \A s \in Slots :
    LET a == asked[s]
        c == a.answer.clock
    IN  a # None /\ a.order.op # "edit" /\ a.answer # None /\ a.answer.refused =>
          \/ <<c.status, c.level>> # <<a.seen.status, a.seen.level>>
          \/ c.version >= a.from + MAX_ATTEMPTS
          \/ a.order.op = "start" /\ c.last = 0
=============================================================================
