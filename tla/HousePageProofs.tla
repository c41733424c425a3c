--------------------------- MODULE HousePageProofs ---------------------------
(***************************************************************************)
(* What runs in a browser, for any number of tabs, seats, requests and     *)
(* whatever else the constants stand for.                                  *)
(*                                                                         *)
(* The operator's page: no poll under way has read a row that is older     *)
(* than the newest answer on the page, which is no newer than the clock    *)
(* (ControlPageSound); a command remembers the row its button was offered  *)
(* on, and a refusal says why (ControlCommandSound).                       *)
(*                                                                         *)
(* The form of a tournament, whose variables are named as in House (clock  *)
(* is the tournament, latest what the last form that was saved showed,     *)
(* poll the form that is open and form what is in it): the invariant       *)
(* compares what travels with what the form showed when it was sent        *)
(* (FormFaithful); the merge of the service does the rest.                 *)
(*                                                                         *)
(* The seats of a cash table: the invariant keeps apart which dialog a     *)
(* field belongs to and where an amount can be (GridPageSound,             *)
(* GridSentSound); what was booked of an amount and the requests that may  *)
(* still book it are counted together (GridBooks).                         *)
(*                                                                         *)
(* The page of a tournament: what is ticked is for the member whose dialog *)
(* is open, and what is typed is new (DetailPageSound, DetailSentSound).   *)
(*                                                                         *)
(* The browser: whoever signed in is still there unless a renewal began    *)
(* meanwhile, and only a sign-in carries the attempt of a sign-in          *)
(* (BrowserTabSound, BrowserFlowSound).                                    *)
(***************************************************************************)
EXTENDS House, FiniteSetTheorems, TLAPS

\* What the operator's page sends, is answered and holds.  The level of a row is one of its
\* grid, and none before the start.
ControlRows ==
  {c \in Control!Clocks : c.level <= c.last /\ (c.status = "NOT_STARTED" => c.level = 0)}

ControlOrders ==
  [op : Control!Actions, level : {0}, value : {None}, filledFor : {0}]
    \cup [op : {"edit"}, level : Nat, value : Values \cup {Bad}, filledFor : Nat]

ControlAnswers == [refused : BOOLEAN, clock : ControlRows]

ControlCommands == [order : ControlOrders, seen : ControlRows, from : Nat,
  newest : BOOLEAN, answer : ControlAnswers \cup {None}]

ControlForms == [level : Nat, value : Values \cup {Bad}, filledFor : Nat]

ControlTyping ==
  /\ clock \in ControlRows
  /\ shown \in ControlRows \cup {None}
  /\ poll \in [read : ControlRows \cup {None}] \cup {None}
  /\ form \in ControlForms \cup {None}
  /\ asked \in [Slots -> ControlCommands \cup {None}]
  /\ latest \in Nat

\* What a poll has read is no older than the newest answer on the page, and that was read
\* of the clock.
ControlPageSound ==
  /\ poll # None /\ poll.read # None => poll.read.age >= latest
  /\ latest <= clock.age

\* The fields are those of the level on show.
ControlFormSound ==
  form # None => shown # None /\ form.level = shown.level /\ form.filledFor = shown.level

\* The row that a button was pressed on has the state that the command is for.
ControlOffers(q, c) ==
  /\ q.op = "start" => c.status = "NOT_STARTED"
  /\ q.op = "pause" => c.status = "RUNNING"
  /\ q.op = "resume" => c.status = "PAUSED"
  /\ q.op \in {"next", "previous"} => Control!Ticking(c)
  /\ q.op = "previous" => c.level > 1

\* Why the command a, offered on a row, may have been refused on c.
ControlExcused(a, c) ==
  \/ <<c.status, c.level>> # <<a.seen.status, a.seen.level>>
  \/ c.version >= a.from + Control!MAX_ATTEMPTS
  \/ a.order.op = "start" /\ c.last = 0

\* A command is for the level it was filled in for and was offered by the page; its answer
\* is of a row that there was, and refuses with a reason.
ControlCommandSound(a) ==
  /\ a.order.filledFor = a.order.level
  /\ ControlOffers(a.order, a.seen)
  /\ a.answer # None =>
       /\ a.answer.clock.age <= clock.age
       /\ a.answer.refused /\ a.order.op # "edit" => ControlExcused(a, a.answer.clock)

ControlCommandsSound == \A s \in Slots : asked[s] # None => ControlCommandSound(asked[s])

ControlIInv == ControlTyping /\ ControlPageSound /\ ControlFormSound /\ ControlCommandsSound

-----------------------------------------------------------------------------

\* Two of the three properties are in the invariant.
LEMMA ControlPropertiesFollow ==
  ControlIInv => Control!EditKeepsItsLevel /\ Control!RefusedOnlyIfMoved
<1>1. ControlIInv => Control!EditKeepsItsLevel
  BY DEF ControlIInv, ControlCommandsSound, ControlCommandSound, Control!EditKeepsItsLevel
<1>2. ControlIInv => Control!RefusedOnlyIfMoved
  BY DEF ControlIInv, ControlCommandsSound, ControlCommandSound, ControlExcused,
     Control!RefusedOnlyIfMoved
<1> QED
  BY <1>1, <1>2

\* A row goes on to the next level of its grid, or is finished.
LEMMA ControlForwardTyped ==
  ASSUME NEW c \in ControlRows, Control!Ticking(c)
  PROVE  Control!Forward(c) \in ControlRows /\ Control!Forward(c).age = c.age
<1>1. c.level \in 0 .. LastLevel /\ c.last \in 0 .. LastLevel /\ c.level <= c.last
      /\ c \in Control!Clocks /\ c.status # "NOT_STARTED"
  BY DEF ControlRows, Control!Clocks, Control!Ticking
<1>2. CASE c.level = c.last
  BY <1>1, <1>2 DEF ControlRows, Control!Clocks, Control!Forward
<1>3. CASE c.level # c.last
  <2>1. c.level + 1 \in 0 .. LastLevel /\ c.level + 1 <= c.last
    BY <1>1, <1>3, ControlConstants
  <2>2. Control!Forward(c) = [c EXCEPT !.level = c.level + 1]
    BY <1>3 DEF Control!Forward
  <2> QED
    BY <1>1, <2>1, <2>2 DEF ControlRows, Control!Clocks
<1> QED
  BY <1>2, <1>3

\* A command that is accepted leaves a row.
LEMMA ControlChangedTyped ==
  ASSUME NEW c \in ControlRows, NEW q \in ControlOrders, Control!Accepted(c, q)
  PROVE  Control!Changed(c, q) \in ControlRows /\ Control!Changed(c, q).age = c.age
<1>0. c.level \in 0 .. LastLevel /\ c.last \in 0 .. LastLevel /\ c.level <= c.last
      /\ c \in Control!Clocks /\ (c.status = "NOT_STARTED" => c.level = 0)
  BY DEF ControlRows, Control!Clocks
<1>1. CASE q \in [op : Control!Actions, level : {0}, value : {None}, filledFor : {0}]
  <2>1. CASE q.op = "start"
    <3>1. Control!Changed(c, q) = [c EXCEPT !.status = "RUNNING", !.level = 1] /\ c.last > 0
      BY <2>1 DEF Control!Changed, Control!Accepted
    <3>2. 1 \in 0 .. LastLevel /\ 1 <= c.last
      BY <1>0, <3>1, ControlConstants
    <3> QED
      BY <1>0, <3>1, <3>2 DEF ControlRows, Control!Clocks
  <2>2. CASE q.op = "pause"
    BY <1>0, <2>2 DEF ControlRows, Control!Clocks, Control!Changed
  <2>3. CASE q.op = "resume"
    BY <1>0, <2>3 DEF ControlRows, Control!Clocks, Control!Changed
  <2>4. CASE q.op = "next"
    <3>1. Control!Changed(c, q) = Control!Forward(c) /\ Control!Ticking(c)
      BY <2>4 DEF Control!Changed, Control!Accepted
    <3> QED
      BY <3>1, ControlForwardTyped
  <2>5. CASE q.op = "previous"
    <3>1. Control!Changed(c, q) = [c EXCEPT !.level = c.level - 1] /\ c.level > 1
          /\ c.status # "NOT_STARTED"
      BY <2>5 DEF Control!Changed, Control!Accepted, Control!Ticking
    <3>2. c.level - 1 \in 0 .. LastLevel /\ c.level - 1 <= c.last
      BY <1>0, <3>1, ControlConstants
    <3> QED
      BY <1>0, <3>1, <3>2 DEF ControlRows, Control!Clocks
  <2> QED
    BY <1>1, <2>1, <2>2, <2>3, <2>4, <2>5 DEF Control!Actions
<1>2. CASE q \in [op : {"edit"}, level : Nat, value : Values \cup {Bad}, filledFor : Nat]
  <2>1. Control!Changed(c, q) = [c EXCEPT !.fields = [c.fields EXCEPT ![q.level] = q.value]]
        /\ q.value \in Values
    BY <1>2 DEF Control!Changed, Control!Accepted
  <2>2. [c.fields EXCEPT ![q.level] = q.value] \in [Control!Levels -> Values]
    BY <1>0, <2>1 DEF Control!Clocks
  <2> QED
    BY <1>0, <2>1, <2>2 DEF ControlRows, Control!Clocks
<1> QED
  BY <1>1, <1>2 DEF ControlOrders

\* What becomes of the row is newer than all that was read of it.
LEMMA ControlNewer ==
  ASSUME ControlIInv, NEW c \in ControlRows, c.age = clock.age,
         Control!Becomes(c) \/ Control!Written(c)
  PROVE  clock' \in ControlRows /\ clock'.age = clock.age + 1
<1>1. clock.age \in Nat /\ c.version \in Nat /\ c.age \in Nat /\ c \in Control!Clocks
  BY DEF ControlIInv, ControlTyping, ControlRows, Control!Clocks
<1>2. [c EXCEPT !.version = c.version + 1] \in ControlRows
  BY <1>1 DEF ControlRows, Control!Clocks
<1>3. PICK b \in ControlRows : b.age = clock.age /\ clock' = [b EXCEPT !.age = b.age + 1]
  BY <1>1, <1>2 DEF Control!Becomes, Control!Written, Control!Clocks
<1> QED
  BY <1>1, <1>3 DEF ControlRows, Control!Clocks

\* A step that changes the clock, and neither the page nor what was read of the clock
\* for it: of the commands under way, only those that are answered by it.
LEMMA ControlClockMoved ==
  ASSUME ControlIInv, clock' \in ControlRows, clock'.age = clock.age + 1,
         UNCHANGED <<shown, poll, form, latest>>
  PROVE  /\ ControlPageSound' /\ ControlFormSound' /\ latest' \in Nat
         /\ form' \in ControlForms \cup {None}
         /\ shown' \in ControlRows \cup {None}
         /\ poll' \in [read : ControlRows \cup {None}] \cup {None}
<1>1. clock.age \in Nat /\ latest \in Nat
  BY DEF ControlIInv, ControlTyping, ControlRows, Control!Clocks
<1>2. ControlPageSound'
  BY <1>1 DEF ControlIInv, ControlPageSound
<1>3. ControlFormSound'
  BY DEF ControlIInv, ControlFormSound
<1> QED
  BY <1>2, <1>3 DEF ControlIInv, ControlTyping

\* A command that is not answered by the change of the clock.
LEMMA ControlCommandAges ==
  ASSUME ControlIInv, clock' \in ControlRows, clock'.age >= clock.age,
         NEW a \in ControlCommands, ControlCommandSound(a)
  PROVE  ControlCommandSound(a)'
<1>1. clock.age \in Nat /\ clock'.age \in Nat
  BY DEF ControlIInv, ControlTyping, ControlRows, Control!Clocks
<1>2. a.answer # None => a.answer.clock.age \in Nat
  BY DEF ControlCommands, ControlAnswers, ControlRows, Control!Clocks
<1>3. a.answer # None => a.answer.clock.age <= clock'.age
  BY <1>1, <1>2 DEF ControlCommandSound
<1> QED
  BY <1>3 DEF ControlCommandSound, ControlOffers, ControlExcused, Control!Ticking

\* Another operator, an entry, time, and whoever sets the tournament up.
LEMMA ControlElsewhereKept ==
  ASSUME ControlIInv, Control!Elsewhere
  PROVE  ControlIInv'
<1>1. clock \in ControlRows
  BY DEF ControlIInv, ControlTyping
<1>2. PICK c \in ControlRows : c.age = clock.age /\ (Control!Becomes(c) \/ Control!Written(c))
  <2>1. ASSUME NEW q \in {Control!Order(op) : op \in Control!Actions} \cup
                         {Control!Edit(l, v, l) : l \in Control!Levels, v \in Values},
               Control!Accepted(clock, q), Control!Written(Control!Changed(clock, q))
        PROVE  \E c \in ControlRows : c.age = clock.age /\ Control!Written(c)
    <3>1. q \in ControlOrders
      BY <2>1, ControlConstants DEF ControlOrders, Control!Order, Control!Edit,
         Control!Actions, Control!Levels
    <3> QED
      BY <1>1, <2>1, <3>1, ControlChangedTyped
  <2>2. ASSUME clock.status = "RUNNING", Control!Becomes(Control!Forward(clock))
        PROVE  \E c \in ControlRows : c.age = clock.age /\ Control!Becomes(c)
    BY <1>1, <2>2, ControlForwardTyped DEF Control!Ticking
  <2>3. ASSUME clock.status = "NOT_STARTED", NEW n \in 0 .. LastLevel, NEW v \in Values,
               Control!Written(Control!Regridded(n, v))
        PROVE  \E c \in ControlRows : c.age = clock.age /\ Control!Written(c)
    <3>1. clock \in Control!Clocks /\ clock.level = 0
      BY <1>1, <2>3 DEF ControlRows
    <3>2. [l \in Control!Levels |-> v] \in [Control!Levels -> Values]
      OBVIOUS
    <3>3. Control!Regridded(n, v) \in Control!Clocks
      BY <3>1, <3>2 DEF Control!Regridded, Control!Clocks
    <3>4. Control!Regridded(n, v).level = 0 /\ Control!Regridded(n, v).last = n
          /\ Control!Regridded(n, v).age = clock.age
      BY <3>1 DEF Control!Regridded, Control!Clocks
    <3>5. 0 <= n
      OBVIOUS
    <3> QED
      BY <2>3, <3>3, <3>4, <3>5 DEF ControlRows
  <2> QED
    BY <1>1, <2>1, <2>2, <2>3 DEF Control!Elsewhere
<1>3. clock' \in ControlRows /\ clock'.age = clock.age + 1
  BY <1>2, ControlNewer
<1>4. UNCHANGED <<shown, poll, form, asked, latest>>
  BY DEF Control!Elsewhere
<1>5. clock'.age >= clock.age
  BY <1>1, <1>3 DEF ControlRows, Control!Clocks
<1>6. ControlCommandsSound'
  BY <1>3, <1>4, <1>5, ControlCommandAges DEF ControlIInv, ControlTyping, ControlCommandsSound
<1> QED
  BY <1>3, <1>4, <1>6, ControlClockMoved DEF ControlIInv, ControlTyping

-----------------------------------------------------------------------------

\* A step that leaves the clock alone leaves a sound command sound.
LEMMA ControlPageStep ==
  ASSUME ControlIInv, UNCHANGED clock
  PROVE  /\ ControlCommandsSound /\ (UNCHANGED asked => ControlCommandsSound')
         /\ \A a : ControlCommandSound(a)' <=> ControlCommandSound(a)
BY DEF ControlIInv, ControlCommandsSound, ControlCommandSound, ControlOffers, ControlExcused

\* Whatever is shown has the fields of its own level.
LEMMA ControlShowKept ==
  ASSUME ControlIInv, NEW c \in ControlRows, Control!Show(c)
  PROVE  /\ shown' = c /\ shown' \in ControlRows \cup {None}
         /\ form' \in ControlForms \cup {None}
         /\ ControlFormSound'
<1>0. c \in Control!Clocks
  BY DEF ControlRows
<1>1. CASE c.level = 0
  BY <1>1 DEF Control!Show, ControlFormSound
<1>2. CASE c.level # 0
  <2>1. c.level \in Control!Levels /\ c.fields[c.level] \in Values
    BY <1>0, <1>2, ControlConstants DEF Control!Clocks, Control!Levels
  <2>2. Control!Filled(c) \in ControlForms /\ Control!Filled(c).level = c.level
          /\ Control!Filled(c).filledFor = c.level
    BY <2>1, ControlConstants DEF Control!Filled, ControlForms, Control!Levels
  <2>3. form' = Control!FormFor(c) /\ shown' = c
    BY <1>2 DEF Control!Show
  <2>4. CASE form # None /\ form.level = c.level
    <3>1. form' = form /\ form \in ControlForms
      BY <2>3, <2>4 DEF Control!FormFor, ControlIInv, ControlTyping
    <3>2. form.filledFor = form.level
      BY <2>4 DEF ControlIInv, ControlFormSound
    <3>3. c # None
      BY <1>0, ControlConstants
    <3>4. form'.level = c.level /\ form'.filledFor = c.level
      BY <2>4, <3>1, <3>2
    <3>5. ControlFormSound'
      BY <2>3, <3>3, <3>4 DEF ControlFormSound
    <3> QED
      BY <2>3, <3>1, <3>5
  <2>5. CASE ~(form # None /\ form.level = c.level)
    BY <1>0, <2>2, <2>3, <2>5, ControlConstants DEF Control!FormFor, ControlFormSound
  <2> QED
    BY <2>4, <2>5
<1> QED
  BY <1>1, <1>2

\* A command is sent with the row its button was offered on; of the others, one at most is
\* no longer the newest.
LEMMA ControlSendKept ==
  ASSUME ControlIInv, NEW s \in Slots, NEW q \in ControlOrders, Control!Send(s, q), shown # None,
         q.filledFor = q.level, ControlOffers(q, shown)
  PROVE  ControlIInv'
<1> DEFINE a == [order |-> q, seen |-> shown, from |-> clock.version, newest |-> TRUE,
                 answer |-> None]
<1>1. shown \in ControlRows /\ clock.version \in Nat
  BY DEF ControlIInv, ControlTyping, ControlRows, Control!Clocks
<1>2. a \in ControlCommands
  BY <1>1 DEF ControlCommands
<1>3. ControlCommandSound(a)
  BY DEF ControlCommandSound
<1>4. /\ asked' = [o \in Slots |-> IF o = s THEN a
                   ELSE IF asked[o] # None /\ Control!SameMutation(asked[o].order, q)
                   THEN [asked[o] EXCEPT !.newest = FALSE] ELSE asked[o]]
      /\ UNCHANGED <<clock, shown, poll, form, latest>>
  BY DEF Control!Send
<1> HIDE DEF a
<1>5. ASSUME NEW o \in Slots
      PROVE  /\ asked'[o] \in ControlCommands \cup {None}
             /\ asked'[o] # None => ControlCommandSound(asked'[o])
  <2>1. CASE o = s
    BY <1>2, <1>3, <1>4, <2>1
  <2>2. CASE o # s /\ asked'[o] = asked[o]
    BY <2>2 DEF ControlIInv, ControlTyping, ControlCommandsSound
  <2>3. CASE o # s /\ asked[o] # None /\ asked'[o] = [asked[o] EXCEPT !.newest = FALSE]
    <3> DEFINE b == asked[o]
    <3>1. b \in ControlCommands /\ ControlCommandSound(b)
      BY <2>3 DEF ControlIInv, ControlTyping, ControlCommandsSound
    <3> HIDE DEF b
    <3>2. [b EXCEPT !.newest = FALSE] \in ControlCommands
          /\ ControlCommandSound([b EXCEPT !.newest = FALSE])
      BY <3>1 DEF ControlCommands, ControlCommandSound, ControlExcused
    <3> QED
      BY <2>3, <3>2 DEF b
  <2> QED
    BY <1>4, <2>1, <2>2, <2>3
<1>6. asked' \in [Slots -> ControlCommands \cup {None}]
  BY <1>4, <1>5
<1>7. ControlCommandsSound'
  BY <1>4, <1>5, ControlPageStep DEF ControlCommandsSound
<1>8. ControlPageSound' /\ ControlFormSound'
  BY <1>4 DEF ControlIInv, ControlPageSound, ControlFormSound
<1> QED
  BY <1>4, <1>6, <1>7, <1>8 DEF ControlIInv, ControlTyping

\* The buttons that can be pressed are those of the state on show.
LEMMA ControlClickKept ==
  ASSUME ControlIInv, NEW s \in Slots, Control!Click(s)
  PROVE  ControlIInv'
<1>1. PICK op \in Control!Actions : Control!Offered(op) /\ Control!Send(s, Control!Order(op))
  BY DEF Control!Click
<1>2. Control!Order(op) \in ControlOrders
        /\ Control!Order(op).filledFor = Control!Order(op).level /\ Control!Order(op).op = op
  BY DEF Control!Order, ControlOrders
<1>3. shown # None
  BY DEF Control!Click
<1>4. ControlOffers(Control!Order(op), shown)
  BY <1>1, <1>2 DEF Control!Offered, ControlOffers, Control!Ticking, Control!Actions
<1> QED
  BY <1>1, <1>2, <1>3, <1>4, ControlSendKept

\* The fields are sent for the level they are shown for.
LEMMA ControlSubmitKept ==
  ASSUME ControlIInv, NEW s \in Slots, Control!Submit(s)
  PROVE  ControlIInv'
<1>1. form # None /\ form \in ControlForms /\ shown # None /\ shown \in ControlRows
      /\ form.filledFor = shown.level
  BY DEF Control!Submit, ControlIInv, ControlTyping, ControlFormSound
<1> DEFINE q == Control!Edit(shown.level, form.value, form.filledFor)
<1>2. q \in ControlOrders /\ q.filledFor = q.level /\ q.op = "edit"
  BY <1>1 DEF Control!Edit, ControlOrders, ControlForms, ControlRows, Control!Clocks
<1>3. ControlOffers(q, shown)
  BY <1>2 DEF ControlOffers
<1> QED
  BY <1>1, <1>2, <1>3, ControlSendKept DEF Control!Submit

\* What is typed is typed for the level on show.
LEMMA ControlTypeKept ==
  ASSUME ControlIInv, Control!Type
  PROVE  ControlIInv'
<1>1. PICK v \in Values \cup {Bad} :
        form' = [form EXCEPT !.value = v, !.filledFor = shown.level]
  BY DEF Control!Type
<1>2. form \in ControlForms /\ shown # None /\ shown \in ControlRows /\ form.level = shown.level
  BY DEF Control!Type, ControlIInv, ControlTyping, ControlFormSound
<1>3. shown.level \in Nat
  BY <1>2, ControlConstants DEF ControlRows, Control!Clocks
<1>4. form' \in ControlForms /\ form'.level = form.level /\ form'.filledFor = shown.level
  BY <1>1, <1>2, <1>3 DEF ControlForms
<1>5. UNCHANGED <<clock, shown, poll, asked, latest>>
  BY DEF Control!Type
<1>6. ControlFormSound'
  BY <1>2, <1>4, <1>5 DEF ControlFormSound
<1>7. ControlPageSound' /\ ControlCommandsSound'
  BY <1>5, ControlPageStep DEF ControlIInv, ControlPageSound
<1> QED
  BY <1>4, <1>5, <1>6, <1>7 DEF ControlIInv, ControlTyping

\* A poll that is sent, is lost, or reads the clock.
LEMMA ControlPollKept ==
  ASSUME ControlIInv, Control!Poll \/ Control!ReadClock \/ Control!PollLost
  PROVE  ControlIInv'
<1>1. UNCHANGED <<clock, shown, form, asked, latest>>
  BY DEF Control!Poll, Control!ReadClock, Control!PollLost
<1>2. poll' = None \/ poll' = [read |-> None] \/ poll' = [read |-> clock]
  BY DEF Control!Poll, Control!ReadClock, Control!PollLost
<1>3. poll' \in [read : ControlRows \cup {None}] \cup {None}
  BY <1>2 DEF ControlIInv, ControlTyping
<1>4. poll' # None /\ poll'.read # None => poll'.read = clock
  BY <1>2
<1>5. ControlPageSound'
  BY <1>1, <1>4 DEF ControlIInv, ControlTyping, ControlRows, Control!Clocks, ControlPageSound
<1>6. ControlFormSound' /\ ControlCommandsSound'
  BY <1>1, ControlPageStep DEF ControlIInv, ControlFormSound
<1> QED
  BY <1>1, <1>3, <1>5, <1>6 DEF ControlIInv, ControlTyping

\* A poll is answered, by a row that is no older than the newest answer on the page.
LEMMA ControlPollAnsweredKept ==
  ASSUME ControlIInv, Control!PollAnswered
  PROVE  ControlIInv' /\ shown'.age >= latest
<1>1. poll # None /\ poll.read # None /\ poll.read \in ControlRows
  BY DEF Control!PollAnswered, ControlIInv, ControlTyping
<1>2. Control!Show(poll.read) /\ poll' = None /\ UNCHANGED <<clock, asked, latest>>
  BY DEF Control!PollAnswered
<1>3. poll.read.age >= latest
  BY <1>1 DEF ControlIInv, ControlPageSound
<1>4. ControlPageSound'
  BY <1>2 DEF ControlIInv, ControlPageSound
<1>5. ControlCommandsSound'
  BY <1>2, ControlPageStep
<1> QED
  BY <1>1, <1>2, <1>3, <1>4, <1>5, ControlShowKept DEF ControlIInv, ControlTyping

\* A command is carried out or refused.
LEMMA ControlHandleKept ==
  ASSUME ControlIInv, NEW s \in Slots, Control!Handle(s)
  PROVE  ControlIInv'
<1> DEFINE a == asked[s]
<1>1. a \in ControlCommands /\ a # None /\ a.answer = None /\ clock \in ControlRows
        /\ ControlCommandSound(a)
      /\ UNCHANGED <<shown, poll, form, latest>>
  BY DEF Control!Handle, ControlIInv, ControlTyping, ControlCommandsSound
<1>2. a.order \in ControlOrders /\ clock.age \in Nat
  BY <1>1 DEF ControlCommands, ControlRows, Control!Clocks
<1>3. ASSUME NEW r \in BOOLEAN, clock' \in ControlRows, clock'.age >= clock.age,
             asked' = [asked EXCEPT ![s].answer = [refused |-> r, clock |-> clock']],
             r /\ a.order.op # "edit" => ControlExcused(a, clock')
      PROVE  asked' \in [Slots -> ControlCommands \cup {None}] /\ ControlCommandsSound'
  <2>1. PICK c \in ControlRows : c = clock'
    BY <1>3
  <2>2. [refused |-> r, clock |-> c] \in ControlAnswers
    BY DEF ControlAnswers
  <2>3. [a EXCEPT !.answer = [refused |-> r, clock |-> c]] \in ControlCommands
    BY <1>1, <2>2 DEF ControlCommands
  <2>4. PICK b \in ControlCommands : b = [a EXCEPT !.answer = [refused |-> r, clock |-> c]]
    BY <2>3
  <2>5. b.order = a.order /\ b.seen = a.seen /\ b.from = a.from
        /\ b.answer = [refused |-> r, clock |-> c]
    BY <1>1, <2>4 DEF ControlCommands
  <2>6. asked' = [asked EXCEPT ![s] = b]
        /\ (ControlExcused(b, c) <=> ControlExcused(a, c))
    BY <1>3, <2>1, <2>4, <2>5 DEF ControlExcused
  <2>7. c.age \in Nat /\ c.age <= clock'.age
    BY <2>1 DEF ControlRows, Control!Clocks
  <2>8. b.order.filledFor = b.order.level /\ ControlOffers(b.order, b.seen)
    BY <1>1, <2>5 DEF ControlCommandSound
  <2>9. r /\ b.order.op # "edit" => ControlExcused(b, c)
    BY <1>3, <2>1, <2>5, <2>6
  <2>10. ControlCommandSound(b)'
    <3>1. b.answer.clock = c /\ b.answer.refused = r
      BY <2>5
    <3>2. ControlOffers(b.order, b.seen)'
      BY <2>8 DEF ControlOffers, Control!Ticking
    <3>3. r /\ b.order.op # "edit" => ControlExcused(b, c)'
      BY <2>9 DEF ControlExcused, Control!MAX_ATTEMPTS
    <3> QED
      BY <2>7, <2>8, <3>1, <3>2, <3>3 DEF ControlCommandSound
  <2>11. ASSUME NEW o \in Slots, asked'[o] # None
         PROVE  ControlCommandSound(asked[o])'
    <3>1. CASE o = s
      <4>1. asked'[o] = b
        BY <2>6, <3>1 DEF ControlIInv, ControlTyping
      <4> QED
        BY <2>10, <4>1 DEF ControlCommandSound, ControlOffers, ControlExcused, Control!Ticking,
           Control!MAX_ATTEMPTS
    <3>2. CASE o # s
      <4>1. asked'[o] = asked[o] /\ asked[o] \in ControlCommands /\ ControlCommandSound(asked[o])
        BY <2>6, <2>11, <3>2 DEF ControlIInv, ControlTyping, ControlCommandsSound
      <4> QED
        BY <1>3, <4>1, ControlCommandAges
    <3> QED
      BY <3>1, <3>2
  <2>12. ControlCommandsSound'
    BY <2>11 DEF ControlCommandsSound
  <2> QED
    BY <2>6, <2>12 DEF ControlIInv, ControlTyping
<1>4. CASE /\ Control!Accepted(clock, a.order)
           /\ Control!Written(Control!Changed(clock, a.order))
           /\ asked' = [asked EXCEPT ![s].answer = [refused |-> FALSE, clock |-> clock']]
  <2>1. clock' \in ControlRows /\ clock'.age = clock.age + 1
    BY <1>1, <1>2, <1>4, ControlChangedTyped, ControlNewer
  <2>2. clock'.age >= clock.age
    BY <1>2, <2>1
  <2>3. asked' \in [Slots -> ControlCommands \cup {None}] /\ ControlCommandsSound'
    BY <1>3, <1>4, <2>1, <2>2, Zenon
  <2> QED
    BY <1>1, <2>1, <2>3, ControlClockMoved DEF ControlIInv, ControlTyping
<1>5. CASE /\ ~Control!Accepted(clock, a.order) \/ Control!Contended(a)
           /\ UNCHANGED clock
           /\ asked' = [asked EXCEPT ![s].answer = [refused |-> TRUE, clock |-> clock']]
  <2>1. a.order.op # "edit" => ControlExcused(a, clock)
    <3>1. CASE Control!Contended(a)
      BY <3>1 DEF Control!Contended, ControlExcused
    <3>2. CASE ~Control!Accepted(clock, a.order) /\ a.order.op # "edit"
      <4>1. ControlOffers(a.order, a.seen) /\ a.order.op \in Control!Actions
        BY <1>1, <1>2, <3>2 DEF ControlCommandSound, ControlOrders
      <4>2. clock.last \in Nat
        BY <1>1, ControlConstants DEF ControlRows, Control!Clocks
      <4> HIDE DEF a
      <4>3. ASSUME clock.status = a.seen.status, clock.level = a.seen.level
            PROVE  a.order.op = "start" /\ clock.last = 0
        <5>1. Control!Accepted(clock, a.order) <=>
                CASE a.order.op = "start" -> clock.status = "NOT_STARTED" /\ clock.last > 0
                  [] a.order.op = "pause" -> clock.status = "RUNNING"
                  [] a.order.op = "resume" -> clock.status = "PAUSED"
                  [] a.order.op = "next" -> Control!Ticking(clock)
                  [] a.order.op = "previous" -> Control!Ticking(clock) /\ clock.level > 1
                  [] a.order.op = "edit" ->
                       a.order.level <= clock.last /\ a.order.value # Bad
          BY DEF Control!Accepted
        <5>2. Control!Ticking(a.seen) => Control!Ticking(clock)
          BY <4>3 DEF Control!Ticking
        <5>3. CASE a.order.op = "start"
          BY <3>2, <4>1, <4>2, <4>3, <5>1, <5>3 DEF ControlOffers
        <5>4. CASE a.order.op \in {"pause", "resume"}
          BY <3>2, <4>1, <4>3, <5>1, <5>4 DEF ControlOffers
        <5>5. CASE a.order.op \in {"next", "previous"}
          BY <3>2, <4>1, <4>3, <5>1, <5>2, <5>5 DEF ControlOffers
        <5> QED
          BY <4>1, <5>3, <5>4, <5>5 DEF Control!Actions
      <4> QED
        BY <4>3 DEF ControlExcused
    <3> QED
      BY <1>5, <3>1, <3>2
  <2>2. clock' \in ControlRows /\ clock'.age >= clock.age
    BY <1>1, <1>2, <1>5
  <2>3. asked' \in [Slots -> ControlCommands \cup {None}] /\ ControlCommandsSound'
    BY <1>3, <1>5, <2>1, <2>2
  <2>4. ControlPageSound' /\ ControlFormSound'
    BY <1>1, <1>5 DEF ControlIInv, ControlPageSound, ControlFormSound
  <2> QED
    BY <1>1, <1>5, <2>3, <2>4 DEF ControlIInv, ControlTyping
<1> QED
  BY <1>4, <1>5 DEF Control!Handle

\* The answer goes on the page, and the clock is asked for anew.
LEMMA ControlAppliedKept ==
  ASSUME ControlIInv, NEW s \in Slots, Control!Applied(s)
  PROVE  ControlIInv' /\ asked' # asked
<1> DEFINE c == asked[s].answer.clock
<1>1. asked[s] # None /\ asked[s] \in ControlCommands /\ asked[s].answer \in ControlAnswers
        /\ c \in ControlRows /\ c.age <= clock.age
  BY DEF Control!Applied, ControlIInv, ControlTyping, ControlCommandsSound,
     ControlCommandSound, ControlCommands, ControlAnswers
<1>2. /\ Control!Show(c) /\ latest' \in {latest, c.age} /\ poll' = [read |-> None]
      /\ asked' = [asked EXCEPT ![s] = None] /\ UNCHANGED clock
  BY DEF Control!Applied, Control!AskedAgain
<1> HIDE DEF c
<1>3. shown' = c /\ shown' \in ControlRows \cup {None} /\ form' \in ControlForms \cup {None}
        /\ ControlFormSound'
  BY <1>1, <1>2, ControlShowKept
<1>4. clock.age \in Nat /\ c.age \in Nat
  BY <1>1 DEF ControlIInv, ControlTyping, ControlRows, Control!Clocks
<1>5. ControlPageSound' /\ latest' \in Nat
  BY <1>1, <1>2, <1>4 DEF ControlIInv, ControlTyping, ControlPageSound
<1>6. ControlCommandsSound'
  BY <1>2, ControlPageStep DEF ControlIInv, ControlTyping, ControlCommandsSound
<1>7. asked' # asked
  BY <1>1, <1>2 DEF ControlIInv, ControlTyping
<1> QED
  BY <1>2, <1>3, <1>5, <1>6, <1>7 DEF ControlIInv, ControlTyping

\* A command whose answer never comes.
LEMMA ControlFailedKept ==
  ASSUME ControlIInv, NEW s \in Slots, Control!Failed(s)
  PROVE  ControlIInv'
<1>1. asked' = [asked EXCEPT ![s] = None] /\ UNCHANGED <<clock, shown, poll, form, latest>>
  BY DEF Control!Failed
<1>2. ControlCommandsSound'
  BY <1>1, ControlPageStep DEF ControlIInv, ControlTyping, ControlCommandsSound
<1>3. ControlPageSound' /\ ControlFormSound'
  BY <1>1 DEF ControlIInv, ControlPageSound, ControlFormSound
<1> QED
  BY <1>1, <1>2, <1>3 DEF ControlIInv, ControlTyping

-----------------------------------------------------------------------------

\* The page has asked for nothing yet.
LEMMA ControlInitially ==
  ASSUME Control!Init
  PROVE  ControlIInv
<1>1. PICK n \in 0 .. LastLevel, v \in Values :
        clock = [status |-> "NOT_STARTED", level |-> 0, last |-> n,
                 fields |-> [l \in Control!Levels |-> v], version |-> 0, age |-> 0]
  BY DEF Control!Init
<1>2. clock \in ControlRows
  BY <1>1, ControlConstants DEF ControlRows, Control!Clocks
<1>3. poll = [read |-> None] /\ poll \in [read : ControlRows \cup {None}]
  BY DEF Control!Init
<1>4. ControlTyping
  BY <1>2, <1>3 DEF ControlTyping, Control!Init
<1> QED
  BY <1>1, <1>3, <1>4 DEF ControlIInv, Control!Init, ControlPageSound, ControlFormSound,
     ControlCommandsSound

\* One action at a time; only a poll and an own answer change what the page shows.
LEMMA ControlEveryStep ==
  ASSUME ControlIInv, [Control!Next]_(Control!vars)
  PROVE  ControlIInv' /\ Control!PollsKeepUp
<1>1. CASE UNCHANGED Control!vars
  BY <1>1 DEF Control!vars, ControlIInv, ControlTyping, ControlPageSound, ControlFormSound,
     ControlCommandsSound, ControlCommandSound, ControlOffers, ControlExcused,
     Control!PollsKeepUp
<1>2. CASE Control!Elsewhere
  BY <1>2, ControlElsewhereKept DEF Control!Elsewhere, Control!PollsKeepUp
<1>3. CASE Control!Poll \/ Control!ReadClock \/ Control!PollLost
  BY <1>3, ControlPollKept DEF Control!Poll, Control!ReadClock, Control!PollLost,
     Control!PollsKeepUp
<1>4. CASE Control!PollAnswered
  BY <1>4, ControlPollAnsweredKept DEF Control!PollsKeepUp
<1>5. CASE Control!Type
  BY <1>5, ControlTypeKept DEF Control!Type, Control!PollsKeepUp
<1>6. ASSUME NEW s \in Slots,
             Control!Click(s) \/ Control!Submit(s) \/ Control!Handle(s)
               \/ Control!Applied(s) \/ Control!Failed(s)
      PROVE  ControlIInv' /\ Control!PollsKeepUp
  <2>1. CASE Control!Click(s) \/ Control!Submit(s)
    BY <2>1, ControlClickKept, ControlSubmitKept DEF Control!Click, Control!Submit, Control!Send,
       Control!PollsKeepUp
  <2>2. CASE Control!Handle(s)
    BY <2>2, ControlHandleKept DEF Control!Handle, Control!PollsKeepUp
  <2>3. CASE Control!Applied(s)
    BY <2>3, ControlAppliedKept DEF Control!PollsKeepUp
  <2>4. CASE Control!Failed(s)
    BY <2>4, ControlFailedKept DEF Control!Failed, Control!PollsKeepUp
  <2> QED
    BY <1>6, <2>1, <2>2, <2>3, <2>4
<1> QED
  BY <1>1, <1>2, <1>3, <1>4, <1>5, <1>6 DEF Control!Next

\* What was read or typed for one level is never saved as another, whatever other
\* operators and time do to the level meanwhile (the key of the page's form).
THEOREM ControlEditsKeepTheirLevel ==
  Control!Spec => []Control!EditKeepsItsLevel
<1>1. Control!Init => ControlIInv
  BY ControlInitially
<1>2. ControlIInv /\ [Control!Next]_(Control!vars) => ControlIInv'
  BY ControlEveryStep
<1>3. ControlIInv => Control!EditKeepsItsLevel
  BY ControlPropertiesFollow
<1> QED
  BY <1>1, <1>2, <1>3, PTL DEF Control!Spec

\* No poll puts a row on the page that is older than an answer to a command that was
\* there before (applyClock).
THEOREM ControlOwnCommandsStayShown ==
  Control!Spec => Control!OwnCommandStaysShown
<1>1. Control!Init => ControlIInv
  BY ControlInitially
<1>2. ControlIInv /\ [Control!Next]_(Control!vars) => ControlIInv'
  BY ControlEveryStep
<1>3. ControlIInv /\ [Control!Next]_(Control!vars) =>
        [asked' = asked /\ shown' # shown => shown'.age >= latest]_(Control!vars)
  BY ControlEveryStep DEF Control!PollsKeepUp
<1> QED
  BY <1>1, <1>2, <1>3, PTL DEF Control!Spec, Control!OwnCommandStaysShown, Control!PollsKeepUp

\* A button that the page offers is refused only when the clock moved since, when the row
\* was written again and again meanwhile, or when there are no levels to start
\* (ALLOWED_FROM and the service's own table agree on all else).
THEOREM ControlOffersAreGood ==
  Control!Spec => []Control!RefusedOnlyIfMoved
<1>1. Control!Init => ControlIInv
  BY ControlInitially
<1>2. ControlIInv /\ [Control!Next]_(Control!vars) => ControlIInv'
  BY ControlEveryStep
<1>3. ControlIInv => Control!RefusedOnlyIfMoved
  BY ControlPropertiesFollow
<1> QED
  BY <1>1, <1>2, <1>3, PTL DEF Control!Spec

-----------------------------------------------------------------------------
FormPayloads ==
  [terms : Terms \cup {Setup!Empty}, structure : Structures \cup {Setup!Empty}, reentry : BOOLEAN,
   most : Limits \cup {Setup!Empty}, until : Limits \cup {Setup!Empty},
     bonus : Limits \cup {Setup!Empty}]

FormForms ==
  [terms : Terms \cup {Setup!Empty}, structure : Structures \cup {Setup!Empty}, reentry : BOOLEAN,
   most : Limits \cup {Setup!Empty}, until : Limits \cup {Setup!Empty}, offers : BOOLEAN,
   bonus : Limits \cup {Setup!Empty}]

FormViews ==
  [op : {"create",
    "edit"}, terms : Terms \cup {Setup!Empty}, structure : Structures \cup {Setup!Empty},
   reentry : BOOLEAN, most : Limits \cup {Setup!Empty}, until : Limits \cup {Setup!Empty},
   bonus : Limits \cup {Setup!Empty}]

FormRequests ==
  [op : {"create", "edit"}, payload : FormPayloads, onShow : FormViews,
   answer : {None, "checked", "saved", "refused"}]

FormTyping ==
  /\ clock \in Setup!Tours \cup {None} /\ shown \in Setup!Tours \cup {None}
  /\ latest \in FormViews \cup {None}
  /\ poll \in {None, "create", "edit"}
  /\ form \in FormForms
  /\ asked \in FormRequests \cup {None}
  /\ gone \subseteq Structures

\* What a form sends is what it shows.
FormFaithful(op, payload, looks) ==
  /\ looks.op = op /\ payload.terms = looks.terms /\ payload.reentry = looks.reentry
  /\ payload.structure = looks.structure /\ payload.most = looks.most
  /\ payload.until = looks.until /\ payload.bonus = looks.bonus

\* Why the form of a new tournament may be refused.
FormRefusedFor(p) ==
  p.structure # Setup!Empty /\ (p.structure \in gone \/ p.until > p.structure)

\* A request carries what its form showed, with no limits unless re-entry is ticked, and
\* a new tournament is refused only for a structure that was deleted or is too short.
FormRequestSound ==
  asked # None =>
    /\ FormFaithful(asked.op, asked.payload, asked.onShow)
    /\ ~asked.payload.reentry => asked.payload.most = Setup!Empty
         /\ asked.payload.until = Setup!Empty
    /\ asked.op = "create" /\ asked.answer = "refused" => FormRefusedFor(asked.payload)

\* Only a tournament there is is shown and changed.
FormExists ==
  shown # None \/ poll = "edit" \/ (asked # None /\ asked.op = "edit") => clock # None

FormIInv == FormTyping /\ FormRequestSound /\ FormExists /\ Setup!StoredAsShown

-----------------------------------------------------------------------------

\* The form of the tournament on the page.
LEMMA FormInitialTyped ==
  ASSUME NEW t \in Setup!Tours
  PROVE  Setup!Initial(t) \in FormForms
BY DEF Setup!Initial, Setup!Tours, FormForms, Setup!Empty

\* Typing leaves a form.
LEMMA FormTypedForms ==
  ASSUME NEW f \in FormForms
  PROVE  Setup!Typed(f) \subseteq FormForms
<1>1. \A v \in Terms : [f EXCEPT !.terms = v] \in FormForms
  BY DEF FormForms
<1>2. \A v \in Structures \cup {Setup!Empty} : [f EXCEPT !.structure = v] \in FormForms
  BY DEF FormForms
<1>3. \A v \in BOOLEAN : [f EXCEPT !.reentry = v] \in FormForms
        /\ [f EXCEPT !.offers = v] \in FormForms
  BY DEF FormForms
<1>4. \A v \in Limits \cup {Setup!Empty} :
        /\ [f EXCEPT !.most = v] \in FormForms /\ [f EXCEPT !.until = v] \in FormForms
        /\ [f EXCEPT !.bonus = v] \in FormForms
  BY DEF FormForms
<1>5. ASSUME NEW g \in Setup!Typed(f)
      PROVE  g \in FormForms
  <2>1. CASE g \in {[f EXCEPT !.terms = v] : v \in Terms}
    BY <1>1, <2>1, Zenon
  <2>2. CASE g \in {[f EXCEPT !.structure = v] : v \in Structures \cup {Setup!Empty}}
    BY <1>2, <2>2, Zenon
  <2>3. CASE g \in {[f EXCEPT !.reentry = v] : v \in BOOLEAN}
    BY <1>3, <2>3, Zenon
  <2>4. CASE g \in {[f EXCEPT !.offers = v] : v \in BOOLEAN}
    BY <1>3, <2>4, Zenon
  <2>5. CASE g \in {[f EXCEPT !.most = v] : v \in Limits \cup {Setup!Empty}}
    BY <1>4, <2>5, Zenon
  <2>6. CASE g \in {[f EXCEPT !.until = v] : v \in Limits \cup {Setup!Empty}}
    BY <1>4, <2>6, Zenon
  <2>7. CASE g \in {[f EXCEPT !.bonus = v] : v \in Limits}
    BY <1>4, <2>7, Zenon
  <2> QED
    BY <2>1, <2>2, <2>3, <2>4, <2>5, <2>6, <2>7, Zenon DEF Setup!Typed
<1> QED
  BY <1>5, Zenon

\* What a form sends is what it shows, and has no limits unless re-entry is ticked.
LEMMA FormSentAsShown ==
  ASSUME NEW f \in FormForms, NEW op \in {"create", "edit"}
  PROVE  /\ Setup!ToPayload(f) \in FormPayloads /\ Setup!OnShow(op, f) \in FormViews
         /\ FormFaithful(op, Setup!ToPayload(f), Setup!OnShow(op, f))
         /\ ~Setup!ToPayload(f).reentry => Setup!ToPayload(f).most = Setup!Empty
              /\ Setup!ToPayload(f).until = Setup!Empty
BY DEF Setup!ToPayload, Setup!LimitSent, Setup!BonusSent, Setup!OnShow, FormFaithful,
   FormForms, FormPayloads, FormViews

\* The tournament that is stored has what the form showed, but for the optional fields
\* that an edit showed empty.
LEMMA FormStoreFaithful ==
  ASSUME NEW op \in {"create", "edit"}, NEW p \in FormPayloads, NEW w \in FormViews,
         FormFaithful(op, p, w), op = "edit" => clock \in Setup!Tours
  PROVE  /\ Setup!Stored(op, p) \in Setup!Tours
         /\ Setup!Stored(op, p).terms = w.terms /\ Setup!Stored(op, p).reentry = w.reentry
         /\ \A field \in {"structure", "most", "until", "bonus"} :
              w[field] = Setup!Stored(op, p)[field] \/ (w.op = "edit" /\ w[field] = Setup!Empty)
<1>1. CASE op = "create"
  BY <1>1 DEF Setup!Stored, Setup!Created, FormFaithful, FormPayloads, Setup!Tours
<1>2. CASE op = "edit"
  <2> DEFINE kept(old, new) == IF new = Setup!Empty THEN old ELSE new
             structure == kept(clock.structure, p.structure)
             most == kept(clock.most, p.most)
             until == kept(clock.until, p.until)
             bonus == kept(clock.bonus, p.bonus)
             t == [clock EXCEPT !.terms = p.terms, !.reentry = p.reentry,
                               !.structure = structure, !.most = most, !.until = until,
                               !.bonus = bonus]
  <2>1. Setup!Stored(op, p) = t
    BY <1>2 DEF Setup!Stored, Setup!Merged
  <2>2. /\ structure \in Structures \cup {Setup!Empty} /\ most \in Limits \cup {Setup!Empty}
        /\ until \in Limits \cup {Setup!Empty} /\ bonus \in Limits \cup {Setup!Empty}
        /\ p.terms \in Terms \cup {Setup!Empty} /\ p.reentry \in BOOLEAN
    BY <1>2 DEF Setup!Tours, FormPayloads
  <2>3. /\ p.structure = Setup!Empty \/ p.structure = structure
        /\ p.most = Setup!Empty \/ p.most = most
        /\ p.until = Setup!Empty \/ p.until = until
        /\ p.bonus = Setup!Empty \/ p.bonus = bonus
    OBVIOUS
  <2> HIDE DEF structure, most, until, bonus
  <2>4. t \in Setup!Tours
    BY <1>2, <2>2 DEF Setup!Tours
  <2>5. /\ t.terms = p.terms /\ t.reentry = p.reentry /\ t.structure = structure
        /\ t.most = most /\ t.until = until /\ t.bonus = bonus
    BY <1>2 DEF Setup!Tours
  <2> HIDE DEF t
  <2> QED
    BY <1>2, <2>1, <2>3, <2>4, <2>5 DEF FormFaithful
<1> QED
  BY <1>1, <1>2

\* A step that stores a form as it was shown.
LEMMA FormStoreKept ==
  ASSUME NEW op \in {"create", "edit"}, NEW p \in FormPayloads, NEW w \in FormViews,
         FormFaithful(op, p, w), op = "edit" => clock \in Setup!Tours,
         clock' = Setup!Stored(op, p), latest' = w
  PROVE  clock' \in Setup!Tours /\ latest' \in FormViews /\ clock' # None /\ Setup!StoredAsShown'
BY FormStoreFaithful, FormConstants DEF Setup!StoredAsShown

\* A new tournament that is not coherent has a last level of re-entry beyond its structure.
LEMMA FormIncoherent ==
  ASSUME NEW p \in FormPayloads, ~Setup!Coherent(Setup!Created(p)),
         ~p.reentry => p.most = Setup!Empty /\ p.until = Setup!Empty
  PROVE  p.structure # Setup!Empty /\ p.until > p.structure
<1>1. p.structure \in Nat /\ p.until \in Nat
  <2>1. p.structure \in Structures \cup {Setup!Empty} /\ p.until \in Limits \cup {Setup!Empty}
    BY DEF FormPayloads
  <2>2. Structures \subseteq Nat /\ Limits \subseteq Nat /\ Setup!Empty \in Nat
    BY FormConstants DEF Setup!Empty
  <2> QED
    BY <2>1, <2>2
<1>2. /\ Setup!Created(p).reentry = p.reentry /\ Setup!Created(p).most = p.most
      /\ Setup!Created(p).until = p.until /\ Setup!Created(p).structure = p.structure
  BY DEF Setup!Created
<1>3. p.structure # Setup!Empty /\ ~(p.until <= p.structure)
  BY <1>2 DEF Setup!Coherent
<1> QED
  BY <1>1, <1>3

-----------------------------------------------------------------------------

\* What happens on the page while it does not send anything.
LEMMA FormPageKept ==
  ASSUME FormIInv, Setup!OpenCreate \/ Setup!OpenEdit \/ Setup!Cancel \/ Setup!Type \/ Setup!Refresh
  PROVE  FormIInv'
<1>1. UNCHANGED <<clock, latest, asked, gone>>
  BY DEF Setup!OpenCreate, Setup!OpenEdit, Setup!Cancel, Setup!Type, Setup!Refresh
<1>2. Setup!Blank \in FormForms
  BY DEF Setup!Blank, FormForms
<1>3. form' \in FormForms
  <2>1. CASE Setup!OpenEdit
    BY <2>1, FormInitialTyped DEF Setup!OpenEdit, FormIInv, FormTyping
  <2>2. CASE Setup!Cancel
    BY <2>2, <1>2 DEF Setup!Cancel, Setup!Closed, FormIInv, FormTyping
  <2>3. CASE Setup!Type
    BY <2>3, FormTypedForms DEF Setup!Type, FormIInv, FormTyping
  <2>4. CASE Setup!OpenCreate \/ Setup!Refresh
    BY <2>4 DEF Setup!OpenCreate, Setup!Refresh, FormIInv, FormTyping
  <2> QED
    BY <2>1, <2>2, <2>3, <2>4
<1>4. poll' \in {None, "create", "edit"} /\ shown' \in Setup!Tours \cup {None}
  BY DEF Setup!OpenCreate, Setup!OpenEdit, Setup!Cancel, Setup!Type, Setup!Refresh, FormIInv,
     FormTyping
<1>5. FormExists'
  BY <1>1, FormConstants DEF Setup!OpenCreate, Setup!OpenEdit, Setup!Cancel, Setup!Type,
     Setup!Refresh, FormIInv, FormExists
<1> QED
  BY <1>1, <1>3, <1>4, <1>5 DEF FormIInv, FormTyping, FormRequestSound, FormRefusedFor,
     Setup!StoredAsShown

\* The form is sent.
LEMMA FormSubmitKept ==
  ASSUME FormIInv, Setup!Submit
  PROVE  FormIInv'
<1> DEFINE p == Setup!ToPayload(form)
           w == Setup!OnShow(poll, form)
           q == [op |-> poll, payload |-> p, onShow |-> w, answer |-> None]
<1>1. poll \in {"create", "edit"} /\ form \in FormForms
  BY DEF Setup!Submit, FormIInv, FormTyping
<1>2. /\ p \in FormPayloads /\ w \in FormViews /\ FormFaithful(poll, p, w)
      /\ ~p.reentry => p.most = Setup!Empty /\ p.until = Setup!Empty
  BY <1>1, FormSentAsShown
<1>3. asked' = q /\ UNCHANGED <<clock, latest, shown, poll, form, gone>>
  BY DEF Setup!Submit
<1> HIDE DEF p, w
<1>4. q \in FormRequests
  BY <1>1, <1>2 DEF FormRequests
<1>5. q.answer # "refused"
  BY FormConstants
<1>6. FormRequestSound'
  BY <1>2, <1>3, <1>5 DEF FormRequestSound
<1> QED
  BY <1>3, <1>4, <1>6 DEF FormIInv, FormTyping, FormExists, Setup!StoredAsShown

\* The service checks what came.
LEMMA FormCheckKept ==
  ASSUME FormIInv, Setup!Check
  PROVE  FormIInv'
<1> DEFINE verdict == IF Setup!Accepted(asked.op, asked.payload) THEN "checked" ELSE "refused"
<1>1. asked \in FormRequests /\ asked # None
  BY DEF Setup!Check, FormIInv, FormTyping
<1>2. asked' = [asked EXCEPT !.answer = verdict]
      /\ UNCHANGED <<clock, latest, shown, poll, form, gone>>
  BY DEF Setup!Check
<1>3. verdict \in {"checked", "refused"}
  OBVIOUS
<1>4. asked.op = "create" /\ verdict = "refused" =>
        ~Setup!Found(asked.payload) \/ ~Setup!Coherent(Setup!Created(asked.payload))
  BY DEF Setup!Accepted
<1> HIDE DEF verdict
<1>5. asked' \in FormRequests /\ asked'.op = asked.op /\ asked'.payload = asked.payload
      /\ asked'.onShow = asked.onShow /\ asked'.answer = verdict
  BY <1>1, <1>2, <1>3 DEF FormRequests
<1>6. asked.payload \in FormPayloads
  BY <1>1 DEF FormRequests
<1>7. /\ FormFaithful(asked.op, asked.payload, asked.onShow)
      /\ ~asked.payload.reentry => asked.payload.most = Setup!Empty
           /\ asked.payload.until = Setup!Empty
  BY <1>1 DEF FormIInv, FormRequestSound
<1>8. asked.op = "create" /\ verdict = "refused" => FormRefusedFor(asked.payload)
  BY <1>4, <1>6, <1>7, FormIncoherent DEF Setup!Found, FormRefusedFor
<1>9. FormRequestSound'
  BY <1>2, <1>5, <1>7, <1>8 DEF FormRequestSound, FormFaithful, FormRefusedFor
<1> QED
  BY <1>1, <1>2, <1>5, <1>9 DEF FormIInv, FormTyping, FormExists, Setup!StoredAsShown

\* The service stores what it has checked, unless somebody has entered or its
\* structure is gone.
LEMMA FormWriteKept ==
  ASSUME FormIInv, Setup!Write
  PROVE  FormIInv'
<1>1. asked \in FormRequests /\ asked # None /\ asked.answer = "checked"
  BY DEF Setup!Write, FormIInv, FormTyping
<1>2. /\ asked.op \in {"create", "edit"} /\ asked.payload \in FormPayloads
      /\ asked.onShow \in FormViews /\ FormFaithful(asked.op, asked.payload, asked.onShow)
  BY <1>1 DEF FormRequests, FormIInv, FormRequestSound
<1>3. PICK answer \in {"saved", "refused"} :
        /\ asked' = [asked EXCEPT !.answer = answer]
        /\ asked.op = "create" /\ answer = "refused" => ~Setup!Found(asked.payload)
  BY DEF Setup!Write
<1>4. asked' \in FormRequests /\ asked'.op = asked.op /\ asked'.payload = asked.payload
      /\ asked'.onShow = asked.onShow /\ asked'.answer = answer
  BY <1>1, <1>3 DEF FormRequests
<1>5. FormRequestSound'
  <2>1. gone' = gone
    BY DEF Setup!Write
  <2>2. asked.op = "create" /\ answer = "refused" => FormRefusedFor(asked.payload)
    BY <1>3 DEF Setup!Found, FormRefusedFor
  <2> QED
    BY <1>1, <1>4, <2>1, <2>2 DEF FormIInv, FormRequestSound, FormFaithful, FormRefusedFor
<1>6. UNCHANGED <<shown, poll, form, gone>>
  BY DEF Setup!Write
<1>7. asked.op = "edit" => clock \in Setup!Tours
  BY <1>1 DEF FormIInv, FormExists, FormTyping
<1>8. CASE (asked.op = "create" \/ ~clock.entered) /\ Setup!Found(asked.payload)
  <2>1. clock' = Setup!Stored(asked.op, asked.payload) /\ latest' = asked.onShow
    BY <1>8 DEF Setup!Write
  <2>2. clock' \in Setup!Tours /\ latest' \in FormViews /\ clock' # None /\ Setup!StoredAsShown'
    BY <1>2, <1>7, <2>1, FormStoreKept
  <2> QED
    BY <1>4, <1>5, <1>6, <2>2 DEF FormIInv, FormTyping, FormExists
<1>9. CASE ~((asked.op = "create" \/ ~clock.entered) /\ Setup!Found(asked.payload))
  <2>1. UNCHANGED <<clock, latest>>
    BY <1>9 DEF Setup!Write
  <2> QED
    BY <1>1, <1>4, <1>5, <1>6, <2>1 DEF FormIInv, FormTyping, FormExists, Setup!StoredAsShown
<1> QED
  BY <1>8, <1>9

\* Another administrator's form is stored as it was shown too.
LEMMA FormElsewhereKept ==
  ASSUME FormIInv, Setup!Elsewhere
  PROVE  FormIInv'
<1>1. clock \in Setup!Tours /\ clock # None
  BY DEF Setup!Elsewhere, FormIInv, FormTyping
<1>2. PICK terms \in Terms, limit \in Limits :
        LET f == [Setup!Initial(clock) EXCEPT !.terms = terms, !.reentry = TRUE, !.most = limit]
        IN  clock' = Setup!Stored("edit", Setup!ToPayload(f)) /\ latest' = Setup!OnShow("edit", f)
  BY DEF Setup!Elsewhere
<1> DEFINE f == [Setup!Initial(clock) EXCEPT !.terms = terms, !.reentry = TRUE, !.most = limit]
<1>3. f \in FormForms
  BY <1>1, FormInitialTyped DEF FormForms
<1>4. clock' = Setup!Stored("edit", Setup!ToPayload(f)) /\ latest' = Setup!OnShow("edit", f)
  BY <1>2
<1> HIDE DEF f
<1>5. /\ Setup!ToPayload(f) \in FormPayloads /\ Setup!OnShow("edit", f) \in FormViews
      /\ FormFaithful("edit", Setup!ToPayload(f), Setup!OnShow("edit", f))
  BY <1>3, FormSentAsShown
<1>6. clock' \in Setup!Tours /\ latest' \in FormViews /\ clock' # None /\ Setup!StoredAsShown'
  BY <1>1, <1>4, <1>5, FormStoreKept
<1>7. UNCHANGED <<shown, poll, form, asked, gone>>
  BY DEF Setup!Elsewhere
<1> QED
  BY <1>6, <1>7 DEF FormIInv, FormTyping, FormRequestSound, FormRefusedFor, FormExists

\* The tournament goes on with the terms it has.
LEMMA FormGoOnKept ==
  ASSUME FormIInv, Setup!GoOn
  PROVE  FormIInv'
<1>1. clock \in Setup!Tours /\ UNCHANGED <<latest, shown, poll, form, asked, gone>>
  BY DEF Setup!GoOn, FormIInv, FormTyping
<1>2. clock' = [clock EXCEPT !.entered = TRUE] \/ clock' = [clock EXCEPT !.started = TRUE]
  BY DEF Setup!GoOn
<1>3. /\ clock' \in Setup!Tours /\ clock'.terms = clock.terms /\ clock'.reentry = clock.reentry
      /\ clock'.structure = clock.structure /\ clock'.most = clock.most
      /\ clock'.until = clock.until /\ clock'.bonus = clock.bonus
  BY <1>1, <1>2 DEF Setup!Tours
<1>4. clock' # None /\ clock # None
  BY <1>1, <1>3, FormConstants
<1>5. Setup!StoredAsShown'
  BY <1>1, <1>3, <1>4 DEF FormIInv, Setup!StoredAsShown
<1> QED
  BY <1>1, <1>3, <1>4, <1>5 DEF FormIInv, FormTyping, FormRequestSound, FormRefusedFor, FormExists

\* A preset that is deleted is one more reason to be refused.
LEMMA FormDeleteKept ==
  ASSUME FormIInv, Setup!DeletePreset
  PROVE  FormIInv'
<1>1. UNCHANGED <<clock, latest, shown, poll, form, asked>> /\ gone \subseteq gone'
      /\ gone' \subseteq Structures
  BY DEF Setup!DeletePreset, FormIInv, FormTyping
<1>2. FormRequestSound'
  BY <1>1 DEF FormIInv, FormRequestSound, FormFaithful, FormRefusedFor
<1> QED
  BY <1>1, <1>2 DEF FormIInv, FormTyping, FormExists, Setup!StoredAsShown

\* The answer, or none, ends the request.
LEMMA FormAnswerKept ==
  ASSUME FormIInv, Setup!Saved \/ Setup!Failed
  PROVE  FormIInv'
<1>1. UNCHANGED <<clock, latest, shown, gone>> /\ asked' = None
  BY DEF Setup!Saved, Setup!Failed
<1>2. Setup!Blank \in FormForms
  BY DEF Setup!Blank, FormForms
<1>3. form' \in FormForms /\ poll' \in {None, "create", "edit"} /\ (poll' = poll \/ poll' = None)
  BY <1>2 DEF Setup!Saved, Setup!Failed, Setup!Closed, FormIInv, FormTyping
<1>4. FormExists'
  BY <1>1, <1>3, FormConstants DEF FormIInv, FormExists
<1> QED
  BY <1>1, <1>3, <1>4 DEF FormIInv, FormTyping, FormRequestSound, Setup!StoredAsShown

-----------------------------------------------------------------------------

\* There is no tournament, and an empty form.
LEMMA FormInitially ==
  ASSUME Setup!Init
  PROVE  FormIInv
<1>1. Setup!Blank \in FormForms
  BY DEF Setup!Blank, FormForms
<1> QED
  BY <1>1, FormConstants DEF Setup!Init, FormIInv, FormTyping, FormRequestSound, FormExists,
     Setup!StoredAsShown

\* One action at a time.
LEMMA FormEveryStep ==
  ASSUME FormIInv, [Setup!Next]_(Setup!vars)
  PROVE  FormIInv'
<1>1. CASE UNCHANGED Setup!vars
  BY <1>1 DEF Setup!vars, FormIInv, FormTyping, FormRequestSound, FormRefusedFor, FormExists,
     Setup!StoredAsShown
<1>2. CASE Setup!OpenCreate \/ Setup!OpenEdit \/ Setup!Cancel \/ Setup!Type \/ Setup!Refresh
  BY <1>2, FormPageKept
<1>3. CASE Setup!Submit
  BY <1>3, FormSubmitKept
<1>4. CASE Setup!Check
  BY <1>4, FormCheckKept
<1>5. CASE Setup!Write
  BY <1>5, FormWriteKept
<1>6. CASE Setup!Elsewhere
  BY <1>6, FormElsewhereKept
<1>7. CASE Setup!GoOn
  BY <1>7, FormGoOnKept
<1>8. CASE Setup!Saved \/ Setup!Failed
  BY <1>8, FormAnswerKept
<1>9. CASE Setup!DeletePreset
  BY <1>9, FormDeleteKept
<1> QED
  BY <1>1, <1>2, <1>3, <1>4, <1>5, <1>6, <1>7, <1>8, <1>9 DEF Setup!Next

\* What is stored is one form as a whole, the one that was saved last, whatever others
\* saved meanwhile and whatever an edit leaves out (toPayload, updateTournament).
THEOREM FormStoredAsItWasShown ==
  Setup!Spec => []Setup!StoredAsShown
<1>1. Setup!Init => FormIInv
  BY FormInitially
<1>2. FormIInv /\ [Setup!Next]_(Setup!vars) => FormIInv'
  BY FormEveryStep
<1>3. FormIInv => Setup!StoredAsShown
  BY DEF FormIInv
<1> QED
  BY <1>1, <1>2, <1>3, PTL DEF Setup!Spec

\* The form sends nothing that the service refuses in a new tournament, but a structure
\* that was deleted since it was listed, or that does not have the last level of re-entry
\* (copyBlindLevels, assertCoherentReentryConfig).
THEOREM FormNewOnesAreCoherent ==
  Setup!Spec => []Setup!CreationIsCoherent
<1>1. Setup!Init => FormIInv
  BY FormInitially
<1>2. FormIInv /\ [Setup!Next]_(Setup!vars) => FormIInv'
  BY FormEveryStep
<1>3. FormIInv => Setup!CreationIsCoherent
  BY DEF FormIInv, FormRequestSound, FormRefusedFor, Setup!CreationIsCoherent
<1> QED
  BY <1>1, <1>2, <1>3, PTL DEF Setup!Spec

-----------------------------------------------------------------------------
(* The seats of a cash table.                                              *)

\* What a request has.
GridIsRequest(q) == q \in Grid!Requests /\ q.typed \in 0 .. Len(typed)

GridHalls == [status : {"OPEN", "CLOSED"}, at : [Seats -> Nat]]

GridTyping ==
  /\ hall \in GridHalls /\ view \in GridHalls
  /\ players \in Seq(Others \cup {Me, Walkin, None})
  /\ typed \in Seq(Seats \cup {None}) /\ Len(typed) <= MaxTyped
  /\ DOMAIN page = {"admin", "seat", "amounts", "mode", "confirming", "report", "left"}
  /\ page.seat \in Seats \cup {None}
  /\ page.amounts \in [Grid!Amounts -> 0 .. Len(typed)]
  /\ sent = [m \in Grid!Mutations |-> sent[m]]
  /\ \A m \in Grid!Mutations : sent[m] # None => GridIsRequest(sent[m])

\* The field whose amount a mutation books.
GridField(m) == IF m \in Grid!Sitting THEN "buyIn" ELSE m

\* What is in a field was typed in the dialog that is open, and in that field.
GridPageSound ==
  \A a \in Grid!Amounts : page.amounts[a] # 0 =>
    /\ page.seat # None /\ typed[page.amounts[a]] = page.seat
    /\ \A b \in Grid!Amounts : page.amounts[b] = page.amounts[a] => a = b

\* What is sent was typed for its seat, and in the field of its mutation.
GridSentSound ==
  \A m \in Grid!Mutations : sent[m] # None /\ sent[m].typed # 0 =>
    /\ typed[sent[m].typed] = sent[m].seat
    /\ GridField(m) \in Grid!Amounts
    /\ \A a \in Grid!Amounts : page.amounts[a] = sent[m].typed => a = GridField(m)
    /\ \A n \in Grid!Mutations : sent[n] # None /\ sent[n].typed = sent[m].typed =>
         GridField(n) = GridField(m)

GridIInv == GridTyping /\ GridPageSound /\ GridSentSound

\* The three fields of the page, and the mutations that book them.
LEMMA GridFields ==
  /\ \A m \in Grid!Sitting : m \in Grid!Mutations /\ GridField(m) = "buyIn"
  /\ GridField("rebuy") = "rebuy" /\ GridField("adjust") = "adjust"
  /\ {"buyIn", "rebuy", "adjust"} = Grid!Amounts
  /\ {"rebuy", "adjust", "close", "reopen", "cashOut", "adminCashOut"} \subseteq Grid!Mutations
<1>1. "rebuy" \notin Grid!Sitting /\ "adjust" \notin Grid!Sitting
  BY DEF Grid!Sitting
<1> QED
  BY <1>1 DEF Grid!Amounts, Grid!Mutations, Grid!Leaving, GridField

\* A step that types nothing: fields are kept, or cleared, and the dialog of those that
\* are kept stays; requests are kept, or end.
LEMMA GridKept ==
  ASSUME GridIInv, typed' = typed,
         DOMAIN page' = DOMAIN page, page'.seat \in Seats \cup {None},
         page'.amounts = [a \in Grid!Amounts |-> page'.amounts[a]],
         \A a \in Grid!Amounts :
           page'.amounts[a] = 0 \/ (page'.amounts[a] = page.amounts[a] /\ page'.seat = page.seat),
         sent' = [m \in Grid!Mutations |-> sent'[m]],
         \A m \in Grid!Mutations : sent'[m] # None =>
           /\ sent[m] # None /\ sent'[m] \in Grid!Requests
           /\ sent'[m].typed = sent[m].typed /\ sent'[m].seat = sent[m].seat,
         hall' \in GridHalls /\ view' \in GridHalls /\ players' \in Seq(Others \cup {Me, Walkin, None})
  PROVE  GridIInv'
<1>1. GridTyping'
  <2>1. page'.amounts \in [Grid!Amounts -> 0 .. Len(typed)]
    <3>1. \A a \in Grid!Amounts : page.amounts[a] \in 0 .. Len(typed)
      BY DEF GridIInv, GridTyping
    <3>2. 0 \in 0 .. Len(typed)
      BY DEF GridIInv, GridTyping
    <3>3. \A a \in Grid!Amounts : page'.amounts[a] \in 0 .. Len(typed)
      BY <3>1, <3>2
    <3> QED
      BY <3>3
  <2>2. \A m \in Grid!Mutations : sent'[m] # None => GridIsRequest(sent[m])'
    BY DEF GridIInv, GridTyping, GridIsRequest
  <2> QED
    BY <2>1, <2>2 DEF GridIInv, GridTyping
<1>2. GridPageSound'
  BY DEF GridIInv, GridPageSound
<1>3. GridSentSound'
  <2> SUFFICES ASSUME NEW m \in Grid!Mutations, sent'[m] # None, sent'[m].typed # 0
               PROVE  /\ typed'[sent'[m].typed] = sent'[m].seat
                      /\ GridField(m) \in Grid!Amounts
                      /\ \A a \in Grid!Amounts : page'.amounts[a] = sent'[m].typed => a = GridField(m)
                      /\ \A n \in Grid!Mutations : sent'[n] # None /\ sent'[n].typed = sent'[m].typed =>
                           GridField(n) = GridField(m)
    BY DEF GridSentSound
  <2>1. sent[m] # None /\ sent[m].typed # 0 /\ sent'[m].typed = sent[m].typed
    OBVIOUS
  <2>2. \A a \in Grid!Amounts : page'.amounts[a] = sent'[m].typed => page.amounts[a] = sent[m].typed
    BY <2>1
  <2> QED
    BY <2>1, <2>2 DEF GridIInv, GridSentSound
<1> QED
  BY <1>1, <1>2, <1>3 DEF GridIInv

\* A step of the page alone.
LEMMA GridOnPage ==
  ASSUME GridIInv, NEW b, Grid!OnPage(b), DOMAIN b = DOMAIN page, b.seat \in Seats \cup {None},
         b.amounts = [a \in Grid!Amounts |-> b.amounts[a]],
         \A a \in Grid!Amounts :
           b.amounts[a] = 0 \/ (b.amounts[a] = page.amounts[a] /\ b.seat = page.seat)
  PROVE  GridIInv'
<1>1. page' = b /\ typed' = typed /\ sent' = sent
      /\ hall' \in GridHalls /\ view' \in GridHalls /\ players' \in Seq(Others \cup {Me, Walkin, None})
  BY DEF Grid!OnPage, GridIInv, GridTyping
<1>2. sent = [m \in Grid!Mutations |-> sent[m]]
      /\ \A m \in Grid!Mutations : sent[m] # None => sent[m] \in Grid!Requests
  BY DEF GridIInv, GridTyping, GridIsRequest
<1> QED
  BY <1>1, <1>2, GridKept

\* A click sends what is in the field of its dialog, or nothing that was typed.
LEMMA GridMutateKept ==
  ASSUME GridIInv, NEW m \in Grid!Mutations, NEW seat \in Seats \cup {None}, NEW session \in Nat,
         NEW player \in Others \cup {Me, Walkin, None}, NEW amount \in 0 .. Len(typed),
         Grid!Mutate(m, seat, session, player, amount),
         \/ amount = 0
         \/ /\ GridField(m) \in Grid!Amounts
            /\ amount = page.amounts[GridField(m)] /\ amount # 0 /\ seat = page.seat
  PROVE  GridIInv'
<1> DEFINE q == [seat |-> seat, session |-> session, player |-> player,
                 typed |-> amount, outcome |-> "open"]
<1>1. sent' = [sent EXCEPT ![m] = q] /\ page' = page /\ typed' = typed
  BY DEF Grid!Mutate
<1>2. q.typed = amount /\ q.seat = seat /\ q.outcome = "open"
      /\ (amount \in Nat => q \in Grid!Requests)
  BY DEF Grid!Requests
<1> HIDE DEF q
<1>3. sent = [n \in Grid!Mutations |-> sent[n]]
  BY DEF GridIInv, GridTyping
<1>4. sent' = [n \in Grid!Mutations |-> IF n = m THEN q ELSE sent[n]]
  BY <1>1, <1>3
<1>5. amount \in 0 .. Len(typed) /\ amount \in Nat
  BY DEF GridIInv, GridTyping
<1>6. GridTyping'
  <2>1. \A n \in Grid!Mutations : sent'[n] # None => GridIsRequest(sent[n])'
    BY <1>1, <1>2, <1>4, <1>5 DEF GridIInv, GridTyping, GridIsRequest
  <2>2. UNCHANGED <<hall, view, players>>
    BY DEF Grid!Mutate
  <2> QED
    BY <1>1, <1>4, <2>1, <2>2 DEF GridIInv, GridTyping
<1>7. GridPageSound'
  BY <1>1 DEF GridIInv, GridPageSound
<1>8. GridSentSound'
  <2>1. amount # 0 =>
          /\ typed[amount] = seat /\ GridField(m) \in Grid!Amounts
          /\ \A a \in Grid!Amounts : page.amounts[a] = amount => a = GridField(m)
          /\ \A n \in Grid!Mutations : sent[n] # None /\ sent[n].typed = amount =>
               GridField(n) = GridField(m)
    BY DEF GridIInv, GridPageSound, GridSentSound
  <2> SUFFICES ASSUME NEW n \in Grid!Mutations, sent'[n] # None, sent'[n].typed # 0
               PROVE  /\ typed[sent'[n].typed] = sent'[n].seat
                      /\ GridField(n) \in Grid!Amounts
                      /\ \A a \in Grid!Amounts : page.amounts[a] = sent'[n].typed => a = GridField(n)
                      /\ \A o \in Grid!Mutations : sent'[o] # None /\ sent'[o].typed = sent'[n].typed =>
                           GridField(o) = GridField(n)
    BY <1>1 DEF GridSentSound
  <2>2. CASE n = m
    BY <1>2, <1>4, <2>1, <2>2
  <2>3. CASE n # m
    <3>1. sent'[n] = sent[n]
      BY <1>4, <2>3
    <3>2. \A o \in Grid!Mutations : o # m => sent'[o] = sent[o]
      BY <1>4
    <3>3. sent'[m].typed = sent[n].typed => GridField(m) = GridField(n)
      BY <1>2, <1>4, <2>1, <3>1
    <3> QED
      BY <3>1, <3>2, <3>3 DEF GridIInv, GridSentSound
  <2> QED
    BY <2>2, <2>3
<1> QED
  BY <1>6, <1>7, <1>8 DEF GridIInv

\* What is typed has a number of its own.
LEMMA GridTypeKept ==
  ASSUME GridIInv, NEW a \in Grid!Amounts, Grid!Type(a)
  PROVE  GridIInv'
<1> DEFINE k == Len(typed) + 1
<1>1. page.seat # None /\ Len(typed) < MaxTyped
      /\ page' = [page EXCEPT !.amounts[a] = k] /\ typed' = Append(typed, page.seat) /\ sent' = sent
      /\ UNCHANGED <<hall, view, players>>
  BY DEF Grid!Type, Grid!ShowsField, Grid!SelfForm, Grid!MemberForm, Grid!GuestForm,
         Grid!AdminForms, Grid!DialogOpen
<1>2. typed \in Seq(Seats \cup {None}) /\ page.seat \in Seats \cup {None} /\ Len(typed) \in Nat
  BY DEF GridIInv, GridTyping
<1>3. /\ typed' \in Seq(Seats \cup {None}) /\ Len(typed') = k
      /\ typed'[k] = page.seat /\ \A i \in 1 .. Len(typed) : typed'[i] = typed[i]
  BY <1>1, <1>2
<1>4. /\ DOMAIN page' = DOMAIN page /\ page'.seat = page.seat
      /\ page'.amounts = [b \in Grid!Amounts |-> IF b = a THEN k ELSE page.amounts[b]]
  BY <1>1 DEF GridIInv, GridTyping
<1>5. \A b \in Grid!Amounts : page.amounts[b] \in 0 .. Len(typed)
  BY DEF GridIInv, GridTyping
<1> HIDE DEF k
<1>6. k = Len(typed) + 1
  BY DEF k
<1>7. GridTyping'
  <2>1. page'.amounts \in [Grid!Amounts -> 0 .. Len(typed')]
    BY <1>2, <1>3, <1>4, <1>5, <1>6
  <2>2. \A m \in Grid!Mutations : sent'[m] # None => GridIsRequest(sent[m])'
    BY <1>1, <1>2, <1>3, <1>6 DEF GridIInv, GridTyping, GridIsRequest
  <2>3. Len(typed') <= MaxTyped
    BY <1>1, <1>2, <1>3, <1>6, GridConstants
  <2> QED
    BY <1>1, <1>2, <1>3, <1>4, <2>1, <2>2, <2>3 DEF GridIInv, GridTyping
<1>8. GridPageSound'
  <2> SUFFICES ASSUME NEW b \in Grid!Amounts, page'.amounts[b] # 0
               PROVE  /\ page'.seat # None /\ typed'[page'.amounts[b]] = page'.seat
                      /\ \A c \in Grid!Amounts : page'.amounts[c] = page'.amounts[b] => b = c
    BY DEF GridPageSound
  <2>1. CASE b = a
    BY <1>1, <1>2, <1>3, <1>4, <1>5, <1>6, <2>1
  <2>2. CASE b # a
    <3>1. page'.amounts[b] = page.amounts[b] /\ page.amounts[b] \in 1 .. Len(typed)
      BY <1>2, <1>4, <1>5, <2>2
    <3>2. page'.amounts[a] = k /\ page'.amounts[a] # page'.amounts[b]
      BY <1>2, <1>4, <1>6, <3>1
    <3>3. typed[page.amounts[b]] = page.seat
          /\ \A c \in Grid!Amounts : page.amounts[c] = page.amounts[b] => b = c
      BY <3>1 DEF GridIInv, GridPageSound
    <3> QED
      BY <1>1, <1>3, <1>4, <3>1, <3>2, <3>3
  <2> QED
    BY <2>1, <2>2
<1>9. GridSentSound'
  <2> SUFFICES ASSUME NEW m \in Grid!Mutations, sent[m] # None, sent[m].typed # 0
               PROVE  /\ typed'[sent[m].typed] = sent[m].seat
                      /\ GridField(m) \in Grid!Amounts
                      /\ \A b \in Grid!Amounts : page'.amounts[b] = sent[m].typed => b = GridField(m)
                      /\ \A n \in Grid!Mutations : sent[n] # None /\ sent[n].typed = sent[m].typed =>
                           GridField(n) = GridField(m)
    BY <1>1 DEF GridSentSound
  <2>1. sent[m].typed \in 1 .. Len(typed)
    BY <1>2 DEF GridIInv, GridTyping, GridIsRequest
  <2>2. \A b \in Grid!Amounts : page'.amounts[b] = sent[m].typed => page.amounts[b] = sent[m].typed
    BY <1>2, <1>4, <1>6, <2>1
  <2> QED
    BY <1>3, <2>1, <2>2 DEF GridIInv, GridSentSound
<1> QED
  BY <1>7, <1>8, <1>9 DEF GridIInv

\* The buttons that send something.
GridButton ==
  \/ Grid!Sit \/ Grid!SitForUser \/ Grid!SitGuest \/ Grid!CashOut \/ Grid!AdminCashOut
  \/ Grid!Rebuy \/ Grid!Adjust \/ Grid!CloseTable \/ Grid!ReopenTable

\* What is sent is in the field of its mutation, for the seat whose dialog is open.
GridSends ==
  \E m \in Grid!Mutations, seat \in Seats \cup {None}, session \in Nat,
     player \in Others \cup {Me, Walkin, None}, amount \in 0 .. Len(typed) :
    /\ Grid!Mutate(m, seat, session, player, amount)
    /\ \/ amount = 0
       \/ /\ GridField(m) \in Grid!Amounts
          /\ amount = page.amounts[GridField(m)] /\ amount # 0 /\ seat = page.seat

\* What a button sends is a request of the page.
LEMMA GridButtonSends ==
  ASSUME GridIInv, GridButton
  PROVE  GridSends
<1>1. page.seat \in Seats \cup {None} /\ Len(typed) \in Nat /\ 0 \in 0 .. Len(typed)
      /\ \A a \in Grid!Amounts : page.amounts[a] \in 0 .. Len(typed)
  BY DEF GridIInv, GridTyping
<1>2. ASSUME Grid!DialogOpen PROVE Grid!ShownSession \in Nat
  BY <1>1, <1>2 DEF Grid!DialogOpen, Grid!ShownSession, GridIInv, GridTyping, GridHalls
<1>3. CASE Grid!Sit \/ Grid!SitForUser \/ Grid!SitGuest
  <2>1. PICK m \in Grid!Sitting :
          /\ page.amounts.buyIn # 0
          /\ \E player \in Others \cup {Me, Walkin, None} :
               Grid!Mutate(m, page.seat, 0, player, page.amounts.buyIn)
    <3>1. "sit" \in Grid!Sitting /\ "sitForUser" \in Grid!Sitting /\ "sitGuest" \in Grid!Sitting
      BY DEF Grid!Sitting
    <3> QED
      BY <1>3, <3>1 DEF Grid!Sit, Grid!SitForUser, Grid!SitGuest, Grid!BuyIn, Grid!Candidates
  <2>2. m \in Grid!Mutations /\ GridField(m) = "buyIn" /\ "buyIn" \in Grid!Amounts
    BY GridFields
  <2> QED
    BY <1>1, <2>1, <2>2, GridFields DEF GridSends
<1>4. CASE Grid!CashOut \/ Grid!AdminCashOut
  <2>1. PICK m \in {"cashOut", "adminCashOut"} :
          \E player \in Others \cup {Me, Walkin, None} :
            Grid!Mutate(m, page.seat, Grid!ShownSession, player, 0)
    BY <1>4 DEF Grid!CashOut, Grid!AdminCashOut
  <2>2. Grid!ShownSession \in Nat
    BY <1>2, <1>4 DEF Grid!CashOut, Grid!AdminCashOut, Grid!OwnSeat, Grid!AdminForms
  <2> QED
    BY <1>1, <2>1, <2>2, GridFields DEF GridSends
<1>5. CASE Grid!Rebuy \/ Grid!Adjust
  <2>1. PICK m \in {"rebuy", "adjust"} :
          Grid!Mutate(m, page.seat, Grid!ShownSession, None, page.amounts[m]) /\ page.amounts[m] # 0
    BY <1>5 DEF Grid!Rebuy, Grid!Adjust
  <2>2. m \in Grid!Mutations /\ GridField(m) = m /\ m \in Grid!Amounts
    BY GridFields
  <2>3. Grid!ShownSession \in Nat
    BY <1>2, <1>5 DEF Grid!Rebuy, Grid!Adjust, Grid!AdminForms
  <2> QED
    BY <1>1, <2>1, <2>2, <2>3, GridFields DEF GridSends
<1>6. CASE Grid!CloseTable \/ Grid!ReopenTable
  <2>1. PICK m \in {"close", "reopen"} : Grid!Mutate(m, None, 0, None, 0)
    BY <1>6 DEF Grid!CloseTable, Grid!ReopenTable
  <2> QED
    BY <2>1, GridFields, SMTT(40) DEF GridSends
<1> QED
  BY <1>3, <1>4, <1>5, <1>6 DEF GridButton

\* What a user of the page does.
LEMMA GridClickKept ==
  ASSUME GridIInv, Grid!Click
  PROVE  GridIInv'
<1> DEFINE Clears(b) ==
      /\ DOMAIN b = DOMAIN page /\ b.seat \in Seats \cup {None}
      /\ b.amounts = [a \in Grid!Amounts |-> b.amounts[a]]
      /\ \A a \in Grid!Amounts :
           b.amounts[a] = 0 \/ (b.amounts[a] = page.amounts[a] /\ b.seat = page.seat)
<1>1. DOMAIN page = {"admin", "seat", "amounts", "mode", "confirming", "report", "left"}
      /\ page.seat \in Seats \cup {None}
      /\ page.amounts = [a \in Grid!Amounts |-> page.amounts[a]]
  BY DEF GridIInv, GridTyping
<1>2. CASE Grid!Dismiss
  <2>1. Clears(Grid!CloseSeatDialog(page))
    BY <1>1 DEF Grid!CloseSeatDialog, Grid!NothingTyped
  <2> QED
    BY <1>2, <2>1, GridOnPage DEF Grid!Dismiss
<1>3. CASE Grid!ChooseMode
  <2>1. PICK m \in Modes : Grid!OnPage([page EXCEPT !.mode = m])
    BY <1>3 DEF Grid!ChooseMode
  <2>2. Clears([page EXCEPT !.mode = m])
    BY <1>1
  <2> QED
    BY <2>1, <2>2, GridOnPage
<1>4. ASSUME NEW s \in Seats, Grid!SelectSeat(s)
      PROVE  GridIInv'
  <2>1. \A a \in Grid!Amounts : page.amounts[a] = 0
    BY <1>4 DEF Grid!SelectSeat, GridIInv, GridPageSound
  <2>2. Clears([page EXCEPT !.seat = s])
    BY <1>1, <2>1
  <2> QED
    BY <1>4, <2>2, GridOnPage DEF Grid!SelectSeat
<1>5. CASE \E a \in Grid!Amounts : Grid!Type(a)
  BY <1>5, GridTypeKept
<1>6. CASE GridButton
  BY <1>6, GridButtonSends, GridMutateKept DEF GridSends
<1>7. CASE Grid!AskToClose \/ Grid!CancelClose
  <2>1. PICK c \in BOOLEAN : Grid!OnPage([page EXCEPT !.confirming = c])
    BY <1>7 DEF Grid!AskToClose, Grid!CancelClose
  <2>2. Clears([page EXCEPT !.confirming = c])
    BY <1>1
  <2> QED
    BY <2>1, <2>2, GridOnPage
<1>8. CASE Grid!CloseReportAndLeave
  <2>1. Clears([page EXCEPT !.report = FALSE, !.left = TRUE])
    BY <1>1
  <2> QED
    BY <1>8, <2>1, GridOnPage DEF Grid!CloseReportAndLeave
<1> QED
  BY <1>2, <1>3, <1>4, <1>5, <1>6, <1>7, <1>8 DEF Grid!Click, GridButton

\* An answer leaves of the fields what the page still shows, or clears them; the
\* mutation it is for is free again.
LEMMA GridAnswered ==
  ASSUME GridIInv, NEW m \in Grid!Mutations, Grid!Answered(m) \/ Grid!AnswerLost(m)
  PROVE  /\ sent[m] # None /\ sent' = [sent EXCEPT ![m] = None]
         /\ UNCHANGED <<typed, hall, view, players>>
         /\ DOMAIN page' = DOMAIN page /\ page'.seat \in Seats \cup {None}
         /\ page'.amounts = [a \in Grid!Amounts |-> page'.amounts[a]]
         /\ \A a \in Grid!Amounts :
              page'.amounts[a] = 0 \/ (page'.amounts[a] = page.amounts[a] /\ page'.seat = page.seat)
<1>1. DOMAIN page = {"admin", "seat", "amounts", "mode", "confirming", "report", "left"}
      /\ page.seat \in Seats \cup {None}
      /\ page.amounts = [a \in Grid!Amounts |-> page.amounts[a]]
  BY DEF GridIInv, GridTyping
<1> DEFINE Clears(b) ==
      /\ DOMAIN b = DOMAIN page /\ b.seat \in Seats \cup {None}
      /\ b.amounts = [a \in Grid!Amounts |-> b.amounts[a]]
      /\ \A a \in Grid!Amounts :
           b.amounts[a] = 0 \/ (b.amounts[a] = page.amounts[a] /\ b.seat = page.seat)
<1>2. Clears(page)
  BY <1>1
<1>3. Clears(Grid!AfterError(m))
  BY <1>1 DEF Grid!AfterError
<1>4. Clears(Grid!CloseSeatDialog(page))
  BY <1>1 DEF Grid!CloseSeatDialog, Grid!NothingTyped
<1>5. m \in {"rebuy", "adjust"} => Clears(Grid!SpentAmount(page, m))
  <2>1. ASSUME m \in {"rebuy", "adjust"} PROVE m \in Grid!Amounts
    BY <2>1, GridFields
  <2>2. Grid!SpentAmount(page, m) = [page EXCEPT !.amounts = [page.amounts EXCEPT ![m] = 0]]
    BY DEF Grid!SpentAmount
  <2>3. DOMAIN Grid!SpentAmount(page, m) = DOMAIN page /\ Grid!SpentAmount(page, m).seat = page.seat
        /\ Grid!SpentAmount(page, m).amounts = [page.amounts EXCEPT ![m] = 0]
    BY <1>1, <2>2
  <2> QED
    BY <1>1, <2>1, <2>3
<1>6. ASSUME NEW outcome PROVE
        Clears([page EXCEPT !.confirming = FALSE, !.report = (outcome = "done"),
                            !.left = (outcome = "doneEmpty")])
  BY <1>1
<1>7. ASSUME NEW outcome PROVE Clears(Grid!AfterSuccess(m, outcome))
  <2>1. CASE m \in Grid!Sitting \cup Grid!Leaving
    <3>1. m \notin {"rebuy", "adjust"} /\ m # "close"
      BY <2>1 DEF Grid!Sitting, Grid!Leaving
    <3>2. Grid!AfterSuccess(m, outcome) = Grid!CloseSeatDialog(page)
      BY <2>1, <3>1 DEF Grid!AfterSuccess
    <3> QED
      BY <1>4, <3>2
  <2>2. CASE m \in {"rebuy", "adjust"}
    <3>1. m \notin Grid!Sitting \cup Grid!Leaving
      BY <2>2 DEF Grid!Sitting, Grid!Leaving
    <3>2. Grid!AfterSuccess(m, outcome) = Grid!SpentAmount(page, m)
      BY <2>2, <3>1 DEF Grid!AfterSuccess
    <3> QED
      BY <1>5, <2>2, <3>2
  <2>3. CASE m = "close"
    <3>1. m \notin Grid!Sitting \cup Grid!Leaving /\ m \notin {"rebuy", "adjust"}
      BY <2>3 DEF Grid!Sitting, Grid!Leaving
    <3>2. Grid!AfterSuccess(m, outcome) =
            [page EXCEPT !.confirming = FALSE, !.report = (outcome = "done"),
                         !.left = (outcome = "doneEmpty")]
      BY <2>3, <3>1 DEF Grid!AfterSuccess
    <3> QED
      BY <1>6, <3>2
  <2>4. CASE m \notin Grid!Sitting \cup Grid!Leaving /\ m \notin {"rebuy", "adjust"} /\ m # "close"
    BY <1>2, <2>4 DEF Grid!AfterSuccess
  <2> QED
    BY <2>1, <2>2, <2>3, <2>4
<1>8. Clears(page')
  BY <1>3, <1>7 DEF Grid!Answered, Grid!AnswerLost
<1> QED
  BY <1>8 DEF Grid!Answered, Grid!AnswerLost

\* What was done with an amount clears its field.
LEMMA GridSpent ==
  ASSUME GridIInv, NEW m \in Grid!Mutations, Grid!Answered(m),
         sent[m].outcome \in {"done", "doneEmpty"}, GridField(m) \in Grid!Amounts
  PROVE  page'.amounts[GridField(m)] = 0
<1>1. page' = Grid!AfterSuccess(m, sent[m].outcome)
  BY DEF Grid!Answered
<1>2. DOMAIN page = {"admin", "seat", "amounts", "mode", "confirming", "report", "left"}
      /\ page.amounts = [a \in Grid!Amounts |-> page.amounts[a]]
  BY DEF GridIInv, GridTyping
<1>3. CASE m \in Grid!Sitting
  <2>1. m \notin {"rebuy", "adjust"} /\ m # "close"
    BY <1>3 DEF Grid!Sitting
  <2>2. page' = Grid!CloseSeatDialog(page)
    BY <1>1, <1>3, <2>1 DEF Grid!AfterSuccess
  <2>3. page'.amounts = [a \in Grid!Amounts |-> 0]
    BY <1>2, <2>2 DEF Grid!CloseSeatDialog, Grid!NothingTyped
  <2> QED
    BY <2>3
<1>4. CASE m \notin Grid!Sitting
  <2>1. GridField(m) = m /\ m \in {"rebuy", "adjust"}
    BY <1>4, GridFields DEF GridField, Grid!Mutations, Grid!Leaving, Grid!Amounts
  <2>2. m \notin Grid!Sitting \cup Grid!Leaving
    BY <2>1 DEF Grid!Sitting, Grid!Leaving
  <2>3. page' = [page EXCEPT !.amounts = [page.amounts EXCEPT ![m] = 0]]
    BY <1>1, <2>1, <2>2 DEF Grid!AfterSuccess, Grid!SpentAmount
  <2>4. page'.amounts = [page.amounts EXCEPT ![m] = 0]
    BY <1>2, <2>3
  <2> QED
    BY <1>2, <2>1, <2>4
<1> QED
  BY <1>3, <1>4

\* A seat that is taken or left leaves a hall.
LEMMA GridSeatChanges ==
  ASSUME GridTyping, NEW s, NEW n \in Nat, hall' = [hall EXCEPT !.at[s] = n]
  PROVE  hall' \in GridHalls
<1> DEFINE f == [hall.at EXCEPT ![s] = n]
<1>1. hall' = [hall EXCEPT !.at = f]
  OBVIOUS
<1>2. f \in [Seats -> Nat]
  BY DEF GridTyping, GridHalls
<1> HIDE DEF f
<1> QED
  BY <1>1, <1>2 DEF GridTyping, GridHalls

\* A session sits at a seat by its number.
LEMMA GridTakesTyped ==
  ASSUME GridTyping, NEW s, NEW p \in Others \cup {Me, Walkin, None}, Grid!Takes(s, p)
  PROVE  hall' \in GridHalls /\ players' \in Seq(Others \cup {Me, Walkin, None})
<1>1. players \in Seq(Others \cup {Me, Walkin, None}) /\ Len(players) + 1 \in Nat
  BY DEF GridTyping
<1>2. players' \in Seq(Others \cup {Me, Walkin, None})
  BY <1>1 DEF Grid!Takes
<1>3. hall' = [hall EXCEPT !.at[s] = Len(players) + 1]
  BY Zenon DEF Grid!Takes
<1>4. hall' \in GridHalls
  BY ONLY GridTyping, <1>1, <1>3, GridSeatChanges, Zenon
<1> QED
  BY <1>2, <1>4

\* What others do to the table.
LEMMA GridElsewhereTyped ==
  ASSUME GridTyping, Grid!Elsewhere
  PROVE  hall' \in GridHalls /\ players' \in Seq(Others \cup {Me, Walkin, None})
<1>1. CASE \E s \in Seats, p \in Others : Grid!Takes(s, p)
  <2>1. PICK s \in Seats, p \in Others : Grid!Takes(s, p)
    BY <1>1
  <2>2. p \in Others \cup {Me, Walkin, None}
    OBVIOUS
  <2> QED
    BY <2>1, <2>2, GridTakesTyped
<1>2. CASE \E s \in Seats : hall' = [hall EXCEPT !.at[s] = 0] /\ UNCHANGED players
  <2>1. PICK s \in Seats : hall' = [hall EXCEPT !.at[s] = 0]
    BY <1>2, Zenon
  <2>2. 0 \in Nat
    OBVIOUS
  <2>3. hall' \in GridHalls
    BY ONLY GridTyping, <2>1, <2>2, GridSeatChanges, Zenon
  <2> QED
    BY <1>2, <2>3 DEF GridTyping
<1>3. CASE /\ hall' = IF hall.status = "OPEN" THEN [status |-> "CLOSED", at |-> [s \in Seats |-> 0]]
                                              ELSE [hall EXCEPT !.status = "OPEN"]
           /\ UNCHANGED players
  BY <1>3 DEF GridTyping, GridHalls
<1> QED
  BY <1>1, <1>2, <1>3 DEF Grid!Elsewhere

\* What a request does to it.
LEMMA GridServeTyped ==
  ASSUME GridTyping, NEW m \in Grid!Mutations, Grid!Serve(m)
  PROVE  hall' \in GridHalls /\ players' \in Seq(Others \cup {Me, Walkin, None})
<1> DEFINE q == sent[m]
<1>1. CASE ~Grid!Accepts(m, q)
  BY <1>1 DEF Grid!Serve, GridTyping
<1>2. CASE Grid!Accepts(m, q)
  <2>1. Grid!CarryOut(m, q)
    BY <1>2 DEF Grid!Serve
  <2>2. q.player \in Others \cup {Me, Walkin, None}
    BY DEF Grid!Serve, GridTyping, GridIsRequest, Grid!Requests
  <2>3. \/ Grid!Takes(q.seat, q.player)
        \/ hall' = [hall EXCEPT !.at[Grid!SeatOf(q.session)] = 0] /\ UNCHANGED players
        \/ hall' = [status |-> "CLOSED", at |-> [s \in Seats |-> 0]] /\ UNCHANGED players
        \/ hall' = [hall EXCEPT !.status = "OPEN"] /\ UNCHANGED players
        \/ UNCHANGED <<hall, players>>
    <3>1. CASE m \in Grid!Sitting
      BY <2>1, <3>1 DEF Grid!CarryOut, Grid!Sitting, Grid!Leaving
    <3>2. CASE m \in Grid!Leaving
      BY <2>1, <3>2 DEF Grid!CarryOut, Grid!Sitting, Grid!Leaving
    <3>3. CASE m \notin Grid!Sitting /\ m \notin Grid!Leaving
      BY <2>1, <3>3 DEF Grid!CarryOut
    <3> QED
      BY <3>1, <3>2, <3>3
  <2> HIDE DEF q
  <2>4. CASE Grid!Takes(q.seat, q.player)
    BY <2>2, <2>4, GridTakesTyped
  <2>5. CASE hall' = [hall EXCEPT !.at[Grid!SeatOf(q.session)] = 0] /\ UNCHANGED players
    <3>1. 0 \in Nat /\ hall' = [hall EXCEPT !.at[Grid!SeatOf(q.session)] = 0]
      BY <2>5, Zenon
    <3>2. hall' \in GridHalls
      BY ONLY GridTyping, <3>1, GridSeatChanges, Zenon
    <3> QED
      BY <2>5, <3>2 DEF GridTyping
  <2>6. CASE \/ hall' = [status |-> "CLOSED", at |-> [s \in Seats |-> 0]] /\ UNCHANGED players
             \/ hall' = [hall EXCEPT !.status = "OPEN"] /\ UNCHANGED players
             \/ UNCHANGED <<hall, players>>
    BY <2>6 DEF GridTyping, GridHalls
  <2> QED
    BY <2>3, <2>4, <2>5, <2>6
<1> QED
  BY <1>1, <1>2

\* Every step.
LEMMA GridEveryStep ==
  ASSUME GridIInv, [Grid!Next]_(Grid!vars)
  PROVE  GridIInv'
<1>1. /\ DOMAIN page = DOMAIN page /\ page.seat \in Seats \cup {None}
      /\ page.amounts = [a \in Grid!Amounts |-> page.amounts[a]]
      /\ sent = [m \in Grid!Mutations |-> sent[m]]
      /\ \A m \in Grid!Mutations : sent[m] # None => GridIsRequest(sent[m])
      /\ hall \in GridHalls /\ view \in GridHalls /\ players \in Seq(Others \cup {Me, Walkin, None})
  BY DEF GridIInv, GridTyping
<1>2. CASE Grid!Poll \/ Grid!Elsewhere \/ UNCHANGED Grid!vars
  <2>1. page' = page /\ typed' = typed /\ sent' = sent
        /\ hall' \in GridHalls /\ view' \in GridHalls /\ players' \in Seq(Others \cup {Me, Walkin, None})
    <3>1. CASE Grid!Elsewhere
      BY <1>1, <3>1, GridElsewhereTyped DEF Grid!Elsewhere, GridIInv
    <3> QED
      BY <1>1, <1>2, <3>1 DEF Grid!Poll, Grid!vars
  <2> QED
    BY <1>1, <2>1, GridKept DEF GridIsRequest
<1>3. CASE Grid!Click
  BY <1>3, GridClickKept
<1>4. ASSUME NEW m \in Grid!Mutations, Grid!Serve(m)
      PROVE  GridIInv'
  <2>1. PICK outcome \in {"done", "doneEmpty", "refused"} :
          sent' = [sent EXCEPT ![m].outcome = outcome]
    BY <1>4 DEF Grid!Serve
  <2>2. sent[m] # None /\ page' = page /\ typed' = typed
    BY <1>4 DEF Grid!Serve
  <2>3. sent' = [n \in Grid!Mutations |->
           IF n = m THEN [sent[m] EXCEPT !.outcome = outcome] ELSE sent[n]]
    BY <1>1, <2>1
  <2>4. \A n \in Grid!Mutations : sent'[n] # None =>
           /\ sent[n] # None /\ sent'[n] \in Grid!Requests
           /\ sent'[n].typed = sent[n].typed /\ sent'[n].seat = sent[n].seat
    BY <1>1, <2>2, <2>3 DEF GridIsRequest, Grid!Requests
  <2>5. hall' \in GridHalls /\ players' \in Seq(Others \cup {Me, Walkin, None}) /\ view' = view
    BY <1>4, GridServeTyped DEF Grid!Serve, GridIInv
  <2> QED
    BY <1>1, <2>2, <2>3, <2>4, <2>5, GridKept
<1>5. ASSUME NEW m \in Grid!Mutations, Grid!Answered(m) \/ Grid!AnswerLost(m)
      PROVE  GridIInv'
  <2>1. /\ sent' = [sent EXCEPT ![m] = None] /\ UNCHANGED <<typed, hall, view, players>>
        /\ DOMAIN page' = DOMAIN page /\ page'.seat \in Seats \cup {None}
        /\ page'.amounts = [a \in Grid!Amounts |-> page'.amounts[a]]
        /\ \A a \in Grid!Amounts :
             page'.amounts[a] = 0 \/ (page'.amounts[a] = page.amounts[a] /\ page'.seat = page.seat)
    BY <1>5, GridAnswered
  <2>2. sent' = [n \in Grid!Mutations |-> IF n = m THEN None ELSE sent[n]]
    BY <1>1, <2>1
  <2>3. \A n \in Grid!Mutations : sent'[n] # None => sent[n] # None /\ sent'[n] = sent[n]
    BY <2>2
  <2> QED
    BY <1>1, <2>1, <2>2, <2>3, GridKept DEF GridIsRequest
<1> QED
  BY <1>2, <1>3, <1>4, <1>5 DEF Grid!Next

\* In the beginning nothing is typed and nothing sent.
LEMMA GridInitially ==
  ASSUME Grid!Init
  PROVE  GridIInv
<1>1. typed = <<>> /\ Len(typed) = 0
  BY DEF Grid!Init
<1>2. DOMAIN page = {"admin", "seat", "amounts", "mode", "confirming", "report", "left"}
      /\ page.seat = None /\ page.amounts = [a \in Grid!Amounts |-> 0]
  BY DEF Grid!Init, Grid!NothingTyped
<1>3. sent = [m \in Grid!Mutations |-> None]
  BY DEF Grid!Init
<1>4. hall \in GridHalls /\ view = hall /\ players = <<>>
  BY DEF Grid!Init, GridHalls
<1>5. GridTyping
  BY <1>1, <1>2, <1>3, <1>4, GridConstants DEF GridTyping
<1> QED
  BY <1>2, <1>3, <1>5 DEF GridIInv, GridPageSound, GridSentSound

\* What is sent for a seat was typed for it.
LEMMA GridSeatsFollow == GridIInv => Grid!AmountsKeepTheirSeat
BY DEF GridIInv, GridSentSound, Grid!AmountsKeepTheirSeat

-----------------------------------------------------------------------------
(* What the seats book.                                                    *)

\* The requests that are under way with an amount, and those of them that the service has
\* not carried out.
GridPending(n) == {m \in Grid!Mutations : sent[m] # None /\ sent[m].typed = n}
GridWaiting(n) == {m \in GridPending(n) : sent[m].outcome \in {"open", "refused"}}
GridShown(n) == \E a \in Grid!Amounts : page.amounts[a] = n

\* What was booked of an amount and what may still be is one, and one more for every answer
\* that was lost and every click that crossed another; an amount that can be sent anew
\* and is not under way has that one left.
GridBooks ==
  /\ booked \in [1 .. MaxTyped -> Nat] /\ crossed \in [1 .. MaxTyped -> Nat] /\ lost \in Nat
  /\ \A n \in 1 .. MaxTyped :
       /\ booked[n] + Cardinality(GridWaiting(n)) <= 1 + lost + crossed[n]
       /\ GridShown(n) /\ GridPending(n) = {} => booked[n] <= lost + crossed[n]
       /\ n > Len(typed) => booked[n] = 0

\* There are nine mutations.
LEMMA GridMutationsFinite == IsFiniteSet(Grid!Mutations)
<1>1. IsFiniteSet({}) /\ \A S, x : IsFiniteSet(S) => IsFiniteSet(S \cup {x})
  BY FS_EmptySet, FS_AddElement
<1> DEFINE S1 == {} \cup {"sit"}
           S2 == S1 \cup {"sitForUser"}
           S3 == S2 \cup {"sitGuest"}
           S4 == S3 \cup {"cashOut"}
           S5 == S4 \cup {"adminCashOut"}
           S6 == S5 \cup {"rebuy"}
           S7 == S6 \cup {"adjust"}
           S8 == S7 \cup {"close"}
           S9 == S8 \cup {"reopen"}
<1>2. IsFiniteSet(S1) /\ (IsFiniteSet(S1) => IsFiniteSet(S2)) /\ (IsFiniteSet(S2) => IsFiniteSet(S3))
  BY <1>1, Zenon
<1>3. (IsFiniteSet(S3) => IsFiniteSet(S4)) /\ (IsFiniteSet(S4) => IsFiniteSet(S5))
      /\ (IsFiniteSet(S5) => IsFiniteSet(S6))
  BY <1>1, Zenon
<1>4. (IsFiniteSet(S6) => IsFiniteSet(S7)) /\ (IsFiniteSet(S7) => IsFiniteSet(S8))
      /\ (IsFiniteSet(S8) => IsFiniteSet(S9))
  BY <1>1, Zenon
<1>5. Grid!Mutations = S9
  BY DEF Grid!Mutations, Grid!Sitting, Grid!Leaving
<1> QED
  BY <1>2, <1>3, <1>4, <1>5

\* So that what waits can be counted.
LEMMA GridWaitingFinite ==
  ASSUME NEW n
  PROVE  /\ IsFiniteSet(GridWaiting(n)) /\ Cardinality(GridWaiting(n)) \in Nat
         /\ \A S : S \subseteq GridWaiting(n) =>
              Cardinality(S) \in Nat /\ Cardinality(S) <= Cardinality(GridWaiting(n))
<1>1. GridWaiting(n) \subseteq Grid!Mutations
  BY DEF GridWaiting, GridPending
<1>2. IsFiniteSet(GridWaiting(n))
  BY <1>1, GridMutationsFinite, FS_Subset
<1>3. Cardinality(GridWaiting(n)) \in Nat
  BY <1>2, FS_CardinalityType
<1>4. ASSUME NEW S, S \subseteq GridWaiting(n)
      PROVE  Cardinality(S) \in Nat /\ Cardinality(S) <= Cardinality(GridWaiting(n))
  <2>1. IsFiniteSet(S) /\ Cardinality(S) <= Cardinality(GridWaiting(n))
    BY <1>2, <1>4, FS_Subset
  <2> QED
    BY <2>1, FS_CardinalityType
<1> QED
  BY <1>2, <1>3, <1>4

\* A step that books nothing: of the amounts that can be sent anew after it and are not
\* under way, it leaves those that were before, or it ends the last request of one.
LEMMA GridBooksKept ==
  ASSUME GridIInv, GridBooks, booked' = booked, crossed' = crossed, lost' \in {lost, lost + 1},
         Len(typed') \in Nat, Len(typed') >= Len(typed),
         \A n \in 1 .. MaxTyped : GridWaiting(n)' \subseteq GridWaiting(n),
         \A n \in 1 .. MaxTyped : GridShown(n)' /\ GridPending(n)' = {} =>
           \/ GridShown(n) /\ GridPending(n) = {}
           \/ GridWaiting(n) # {} \/ n > Len(typed) \/ lost' = lost + 1
  PROVE  GridBooks'
<1>1. Len(typed) \in Nat /\ MaxTyped \in Nat /\ lost \in Nat
      /\ booked \in [1 .. MaxTyped -> Nat] /\ crossed \in [1 .. MaxTyped -> Nat]
  BY GridConstants DEF GridBooks, GridIInv, GridTyping
<1>2. ASSUME NEW n \in 1 .. MaxTyped
      PROVE  /\ booked[n] + Cardinality(GridWaiting(n)') <= 1 + lost' + crossed[n]
             /\ GridShown(n)' /\ GridPending(n)' = {} => booked[n] <= lost' + crossed[n]
             /\ n > Len(typed') => booked[n] = 0
  <2> DEFINE w == Cardinality(GridWaiting(n))
             v == Cardinality(GridWaiting(n)')
  <2>1. booked[n] \in Nat /\ crossed[n] \in Nat
    BY <1>1
  <2>2. w \in Nat /\ v \in Nat /\ v <= w
    BY <1>2, GridWaitingFinite
  <2>3. booked[n] + w <= 1 + lost + crossed[n]
        /\ (GridShown(n) /\ GridPending(n) = {} => booked[n] <= lost + crossed[n])
        /\ (n > Len(typed) => booked[n] = 0)
    BY DEF GridBooks
  <2>4. GridWaiting(n) # {} => w # 0
    BY GridWaitingFinite, FS_EmptySet
  <2> HIDE DEF w, v
  <2>5. booked[n] + v <= 1 + lost' + crossed[n]
    <3>1. lost' \in Nat /\ lost <= lost'
      BY <1>1
    <3> QED
      BY <1>1, <2>1, <2>2, <2>3, <3>1
  <2>6. ASSUME GridShown(n)', GridPending(n)' = {}
        PROVE  booked[n] <= lost' + crossed[n]
    <3>1. CASE GridShown(n) /\ GridPending(n) = {}
      BY <1>1, <2>1, <2>3, <3>1
    <3>2. CASE GridWaiting(n) # {}
      BY <1>1, <2>1, <2>2, <2>3, <2>4, <3>2
    <3>3. CASE n > Len(typed)
      BY <1>1, <2>1, <2>3, <3>3
    <3>4. CASE lost' = lost + 1
      BY <1>1, <2>1, <2>2, <2>3, <3>4
    <3> QED
      BY <2>6, <3>1, <3>2, <3>3, <3>4
  <2>7. n > Len(typed') => booked[n] = 0
    BY <1>1, <2>3
  <2> QED
    BY <2>5, <2>6, <2>7 DEF v
<1>3. lost' \in Nat
  BY <1>1
<1>4. ASSUME NEW n \in 1 .. MaxTyped
      PROVE  /\ booked'[n] + Cardinality(GridWaiting(n)') <= 1 + lost' + crossed'[n]
             /\ GridShown(n)' /\ GridPending(n)' = {} => booked'[n] <= lost' + crossed'[n]
             /\ n > Len(typed') => booked'[n] = 0
  BY <1>2
<1> QED
  BY <1>1, <1>3, <1>4 DEF GridBooks

\* A step of the page, of the table or of a poll.
LEMMA GridBooksOnPage ==
  ASSUME GridIInv, GridBooks, UNCHANGED <<typed, sent, booked, crossed, lost>>,
         \A a \in Grid!Amounts : page'.amounts[a] = 0 \/ page'.amounts[a] = page.amounts[a]
  PROVE  GridBooks'
<1>1. \A n : GridPending(n)' = GridPending(n) /\ GridWaiting(n)' = GridWaiting(n)
  BY DEF GridPending, GridWaiting
<1>2. \A n \in 1 .. MaxTyped : GridShown(n)' => GridShown(n)
  BY GridConstants DEF GridShown
<1>3. Len(typed) \in Nat
  BY DEF GridIInv, GridTyping
<1> QED
  BY <1>1, <1>2, <1>3, GridBooksKept

\* One more request is under way, with what is in the field: the first one, or it crosses
\* another.
LEMMA GridBooksMutate ==
  ASSUME GridIInv, GridBooks,
         NEW m \in Grid!Mutations, NEW seat \in Seats \cup {None}, NEW session \in Nat,
         NEW player \in Others \cup {Me, Walkin, None}, NEW amount \in 0 .. Len(typed),
         Grid!Mutate(m, seat, session, player, amount),
         amount = 0 \/ (GridField(m) \in Grid!Amounts /\ amount = page.amounts[GridField(m)])
  PROVE  GridBooks'
<1> DEFINE q == [seat |-> seat, session |-> session, player |-> player,
                 typed |-> amount, outcome |-> "open"]
<1>1. /\ sent[m] = None /\ sent' = [sent EXCEPT ![m] = q]
      /\ UNCHANGED <<page, typed, booked, lost>>
      /\ crossed' = IF amount # 0 /\ Grid!UnderWay(amount)
                    THEN [crossed EXCEPT ![amount] = @ + 1] ELSE crossed
  BY DEF Grid!Mutate
<1>2. q.typed = amount /\ q.outcome = "open" /\ q # None
  <2>1. q \in Grid!Requests
    BY DEF Grid!Requests, GridIInv, GridTyping
  <2> QED
    BY <2>1, GridConstants
<1> HIDE DEF q
<1>3. sent = [n \in Grid!Mutations |-> sent[n]] /\ Len(typed) \in Nat /\ Len(typed) <= MaxTyped
      /\ MaxTyped \in Nat
  BY GridConstants DEF GridIInv, GridTyping
<1>4. sent' = [n \in Grid!Mutations |-> IF n = m THEN q ELSE sent[n]]
  BY <1>1, <1>3
<1>5. /\ booked \in [1 .. MaxTyped -> Nat] /\ crossed \in [1 .. MaxTyped -> Nat] /\ lost \in Nat
  BY DEF GridBooks
<1>6. crossed' \in [1 .. MaxTyped -> Nat]
  <2>1. CASE amount # 0 /\ Grid!UnderWay(amount)
    <3>1. amount \in 1 .. MaxTyped
      BY <1>3, <2>1
    <3>2. crossed[amount] + 1 \in Nat
      BY <1>5, <3>1
    <3>3. crossed' = [crossed EXCEPT ![amount] = crossed[amount] + 1]
      BY <1>1, <2>1
    <3> QED
      BY <1>5, <3>1, <3>2, <3>3
  <2>2. CASE ~(amount # 0 /\ Grid!UnderWay(amount))
    BY <1>1, <1>5, <2>2
  <2> QED
    BY <2>1, <2>2
<1>7. ASSUME NEW n \in 1 .. MaxTyped
      PROVE  /\ booked[n] + Cardinality(GridWaiting(n)') <= 1 + lost + crossed'[n]
             /\ GridShown(n)' /\ GridPending(n)' = {} => booked[n] <= lost + crossed'[n]
             /\ n > Len(typed) => booked[n] = 0
  <2>1. /\ booked[n] + Cardinality(GridWaiting(n)) <= 1 + lost + crossed[n]
        /\ GridShown(n) /\ GridPending(n) = {} => booked[n] <= lost + crossed[n]
        /\ n > Len(typed) => booked[n] = 0
    BY DEF GridBooks
  <2>2. booked[n] \in Nat /\ crossed[n] \in Nat /\ Cardinality(GridWaiting(n)) \in Nat
    BY <1>5, GridWaitingFinite
  <2>3. CASE n = amount
    <3>1. GridWaiting(n)' = GridWaiting(n) \cup {m} /\ m \in GridPending(n)'
      BY <1>2, <1>4, <2>3 DEF GridWaiting, GridPending
    <3>2. m \notin GridWaiting(n)
      BY <1>1 DEF GridWaiting, GridPending
    <3>3. Cardinality(GridWaiting(n)') = Cardinality(GridWaiting(n)) + 1
      BY <3>1, <3>2, GridWaitingFinite, FS_AddElement
    <3>4. CASE Grid!UnderWay(amount)
      <4>1. crossed'[n] = crossed[n] + 1
        BY <1>1, <1>5, <2>3, <3>4
      <4> QED
        BY <1>5, <2>1, <2>2, <3>1, <3>3, <4>1
    <3>5. CASE ~Grid!UnderWay(amount)
      <4>1. GridPending(n) = {} /\ GridWaiting(n) = {}
        BY <2>3, <3>5 DEF Grid!UnderWay, GridPending, GridWaiting
      <4>2. GridShown(n) /\ crossed'[n] = crossed[n]
        BY <1>1, <2>3, <3>5 DEF GridShown
      <4>3. Cardinality(GridWaiting(n)) = 0
        BY <4>1, FS_EmptySet
      <4> QED
        BY <1>5, <2>1, <2>2, <3>1, <3>3, <4>1, <4>2, <4>3
    <3> QED
      BY <3>4, <3>5
  <2>4. CASE n # amount
    <3>1. GridWaiting(n)' = GridWaiting(n) /\ GridPending(n)' = GridPending(n)
      BY <1>1, <1>2, <1>4, <2>4 DEF GridWaiting, GridPending
    <3>2. crossed'[n] = crossed[n] /\ (GridShown(n)' <=> GridShown(n))
      BY <1>1, <1>5, <2>4 DEF GridShown
    <3> QED
      BY <2>1, <3>1, <3>2
  <2> QED
    BY <2>3, <2>4
<1>8. ASSUME NEW n \in 1 .. MaxTyped
      PROVE  /\ booked'[n] + Cardinality(GridWaiting(n)') <= 1 + lost' + crossed'[n]
             /\ GridShown(n)' /\ GridPending(n)' = {} => booked'[n] <= lost' + crossed'[n]
             /\ n > Len(typed') => booked'[n] = 0
  BY <1>1, <1>7
<1> QED
  BY <1>1, <1>5, <1>6, <1>8 DEF GridBooks

\* What is typed is a new amount, that was never booked.
LEMMA GridBooksType ==
  ASSUME GridIInv, GridBooks, NEW a \in Grid!Amounts, Grid!Type(a)
  PROVE  GridBooks'
<1> DEFINE k == Len(typed) + 1
<1>1. page' = [page EXCEPT !.amounts[a] = k] /\ typed' = Append(typed, page.seat)
      /\ UNCHANGED <<sent, booked, crossed, lost>>
  BY DEF Grid!Type
<1>2. typed \in Seq(Seats \cup {None}) /\ page.seat \in Seats \cup {None} /\ Len(typed) \in Nat
      /\ DOMAIN page = {"admin", "seat", "amounts", "mode", "confirming", "report", "left"}
      /\ page.amounts = [b \in Grid!Amounts |-> page.amounts[b]]
  BY DEF GridIInv, GridTyping
<1>3. Len(typed') = k /\ k \in Nat /\ k > Len(typed)
  BY <1>1, <1>2
<1>4. page'.amounts = [b \in Grid!Amounts |-> IF b = a THEN k ELSE page.amounts[b]]
  BY <1>1, <1>2
<1> HIDE DEF k
<1>5. ASSUME NEW n \in 1 .. MaxTyped, GridShown(n)'
      PROVE  GridShown(n) \/ n > Len(typed)
  BY <1>3, <1>4, <1>5 DEF GridShown
<1>6. \A n : GridPending(n)' = GridPending(n) /\ GridWaiting(n)' = GridWaiting(n)
  BY <1>1 DEF GridPending, GridWaiting
<1> QED
  BY <1>1, <1>2, <1>3, <1>5, <1>6, GridBooksKept

\* What is carried out waits no longer, and is booked; what is refused still waits.
LEMMA GridBooksServe ==
  ASSUME GridIInv, GridBooks, NEW m \in Grid!Mutations, Grid!Serve(m)
  PROVE  GridBooks'
<1>1. /\ sent[m] # None /\ sent[m].outcome = "open"
      /\ UNCHANGED <<page, typed, crossed, lost>>
      /\ sent = [n \in Grid!Mutations |-> sent[n]] /\ sent[m] \in Grid!Requests
      /\ sent[m].typed \in 0 .. Len(typed) /\ Len(typed) \in Nat /\ Len(typed) <= MaxTyped
  BY DEF Grid!Serve, GridIInv, GridTyping, GridIsRequest
<1>2. PICK outcome \in {"done", "doneEmpty", "refused"} :
        /\ sent' = [sent EXCEPT ![m].outcome = outcome]
        /\ outcome = "refused" => booked' = booked
        /\ outcome # "refused" =>
             booked' = IF sent[m].typed = 0 THEN booked
                       ELSE [booked EXCEPT ![sent[m].typed] = @ + 1]
  BY DEF Grid!Serve, Grid!CarryOut
<1>3. sent' = [n \in Grid!Mutations |->
         IF n = m THEN [sent[m] EXCEPT !.outcome = outcome] ELSE sent[n]]
  BY <1>1, <1>2
<1>4. /\ sent'[m] # None /\ sent'[m].typed = sent[m].typed /\ sent'[m].outcome = outcome
      /\ \A n \in Grid!Mutations : n # m => sent'[n] = sent[n]
  <2>1. [sent[m] EXCEPT !.outcome = outcome] \in Grid!Requests
    BY <1>1 DEF Grid!Requests
  <2> QED
    BY <1>1, <1>3, <2>1, GridConstants DEF Grid!Requests
<1>5. \A n : GridPending(n)' = GridPending(n) /\ (GridShown(n)' <=> GridShown(n))
  BY <1>1, <1>4 DEF GridPending, GridShown
<1> DEFINE Waits(q) == q.outcome \in {"open", "refused"}
<1>6. \A n : /\ GridPending(n) \subseteq Grid!Mutations
              /\ GridWaiting(n) = {k \in GridPending(n) : Waits(sent[k])}
              /\ GridWaiting(n)' = {k \in GridPending(n) : Waits(sent'[k])}
  <2>1. \A n : GridWaiting(n)' = {k \in GridPending(n)' : Waits(sent'[k])}
    BY DEF GridWaiting
  <2> QED
    BY <1>5, <2>1 DEF GridWaiting, GridPending
<1>7. CASE outcome = "refused"
  <2>1. \A n : GridWaiting(n)' = GridWaiting(n)
    <3>1. \A k \in Grid!Mutations : Waits(sent'[k]) <=> Waits(sent[k])
      BY <1>1, <1>4, <1>7
    <3> HIDE DEF Waits
    <3> QED
      BY <1>6, <3>1
  <2> QED
    BY <1>1, <1>2, <1>5, <1>7, <2>1, GridBooksKept
<1>8. CASE outcome # "refused"
  <2>1. /\ booked \in [1 .. MaxTyped -> Nat] /\ crossed \in [1 .. MaxTyped -> Nat] /\ lost \in Nat
    BY DEF GridBooks
  <2>2. booked' \in [1 .. MaxTyped -> Nat]
    BY <1>2, <1>8, <2>1
  <2>3. \A n : GridWaiting(n)' = GridWaiting(n) \ {m}
    <3>1. ~Waits(sent'[m]) /\ \A k \in Grid!Mutations : k # m => (Waits(sent'[k]) <=> Waits(sent[k]))
      BY <1>4, <1>8
    <3> HIDE DEF Waits
    <3> QED
      BY <1>6, <3>1
  <2>4. ASSUME NEW n \in 1 .. MaxTyped
        PROVE  /\ booked'[n] + Cardinality(GridWaiting(n)') <= 1 + lost + crossed[n]
               /\ GridShown(n)' /\ GridPending(n)' = {} => booked'[n] <= lost + crossed[n]
               /\ n > Len(typed) => booked'[n] = 0
    <3>1. /\ booked[n] + Cardinality(GridWaiting(n)) <= 1 + lost + crossed[n]
          /\ GridShown(n) /\ GridPending(n) = {} => booked[n] <= lost + crossed[n]
          /\ n > Len(typed) => booked[n] = 0
      BY DEF GridBooks
    <3>2. booked[n] \in Nat /\ crossed[n] \in Nat /\ Cardinality(GridWaiting(n)) \in Nat
      BY <2>1, GridWaitingFinite
    <3>3. CASE n = sent[m].typed
      <4>0. m \in GridPending(n)
        BY <1>1, <3>3 DEF GridPending
      <4>1. m \in GridWaiting(n) /\ m \in GridPending(n)'
        BY <1>1, <1>5, <4>0 DEF GridWaiting
      <4>2. Cardinality(GridWaiting(n)') = Cardinality(GridWaiting(n)) - 1
        BY <2>3, <4>1, GridWaitingFinite, FS_RemoveElement
      <4>3. booked'[n] = booked[n] + 1
        <5>1. booked' = [booked EXCEPT ![n] = booked[n] + 1]
          BY <1>2, <1>8, <3>3
        <5> QED
          BY <2>1, <5>1
      <4> QED
        BY <1>1, <2>1, <3>1, <3>2, <3>3, <4>1, <4>2, <4>3
    <3>4. CASE n # sent[m].typed
      <4>1. GridWaiting(n)' = GridWaiting(n)
        BY <2>3, <3>4 DEF GridWaiting, GridPending
      <4>2. booked'[n] = booked[n]
        BY <1>2, <1>8, <2>1, <3>4
      <4> QED
        BY <1>5, <3>1, <4>1, <4>2
    <3> QED
      BY <3>3, <3>4
  <2>5. ASSUME NEW n \in 1 .. MaxTyped
        PROVE  /\ booked'[n] + Cardinality(GridWaiting(n)') <= 1 + lost' + crossed'[n]
               /\ GridShown(n)' /\ GridPending(n)' = {} => booked'[n] <= lost' + crossed'[n]
               /\ n > Len(typed') => booked'[n] = 0
    BY <1>1, <2>4
  <2> QED
    BY <1>1, <2>1, <2>2, <2>5 DEF GridBooks
<1> QED
  BY <1>7, <1>8

\* What is answered is not under way any more, and no longer in its field if it was done;
\* if the answer is lost it may be done again.
LEMMA GridBooksAnswered ==
  ASSUME GridIInv, GridBooks, NEW m \in Grid!Mutations,
         Grid!Answered(m) \/ Grid!AnswerLost(m)
  PROVE  GridBooks'
<1>1. /\ sent[m] # None /\ sent' = [sent EXCEPT ![m] = None] /\ typed' = typed
      /\ \A a \in Grid!Amounts : page'.amounts[a] = 0 \/ page'.amounts[a] = page.amounts[a]
  BY GridAnswered
<1>2. booked' = booked /\ crossed' = crossed /\ Len(typed) \in Nat
  BY DEF Grid!Answered, Grid!AnswerLost, GridIInv, GridTyping
<1>3. \A n \in Grid!Mutations : sent'[n] = IF n = m THEN None ELSE sent[n]
  <2>1. sent = [n \in Grid!Mutations |-> sent[n]]
    BY DEF GridIInv, GridTyping
  <2> QED
    BY <1>1, <2>1
<1>4. \A n : GridPending(n)' = GridPending(n) \ {m} /\ GridWaiting(n)' = GridWaiting(n) \ {m}
  BY <1>3 DEF GridPending, GridWaiting
<1>5. \A n \in 1 .. MaxTyped : GridShown(n)' => GridShown(n)
  BY <1>1, GridConstants DEF GridShown
<1>6. CASE Grid!AnswerLost(m)
  <2>1. lost' = lost + 1
    BY <1>6 DEF Grid!AnswerLost
  <2> QED
    BY <1>1, <1>2, <1>4, <2>1, GridBooksKept
<1>7. CASE Grid!Answered(m)
  <2>1. lost' = lost /\ sent[m].outcome # "open" /\ sent[m] \in Grid!Requests
    BY <1>1, <1>7 DEF Grid!Answered, GridIInv, GridTyping, GridIsRequest
  <2>2. ASSUME NEW n \in 1 .. MaxTyped, GridShown(n)', GridPending(n)' = {}
        PROVE  (GridShown(n) /\ GridPending(n) = {}) \/ GridWaiting(n) # {}
    <3>1. CASE sent[m].typed # n
      BY <1>4, <1>5, <2>2, <3>1 DEF GridPending
    <3>2. CASE sent[m].typed = n /\ sent[m].outcome = "refused"
      <4>1. m \in GridWaiting(n)
        BY <1>1, <3>2 DEF GridWaiting, GridPending
      <4> QED
        BY <4>1
    <3>3. CASE sent[m].typed = n /\ sent[m].outcome \in {"done", "doneEmpty"}
      <4>1. n # 0 /\ GridField(m) \in Grid!Amounts
            /\ \A a \in Grid!Amounts : page.amounts[a] = n => a = GridField(m)
        BY <1>1, <3>3, GridConstants DEF GridIInv, GridSentSound
      <4>2. page'.amounts[GridField(m)] = 0
        BY <1>7, <3>3, <4>1, GridSpent
      <4>3. ~GridShown(n)'
        BY <1>1, <4>1, <4>2 DEF GridShown
      <4> QED
        BY <2>2, <4>3
    <3> QED
      BY <2>1, <3>1, <3>2, <3>3 DEF Grid!Requests
  <2> QED
    BY <1>1, <1>2, <1>4, <2>1, <2>2, GridBooksKept
<1> QED
  BY <1>6, <1>7

\* Every step.
LEMMA GridBooksStep ==
  ASSUME GridIInv, GridBooks, [Grid!Next]_(Grid!vars)
  PROVE  GridBooks'
<1>1. CASE Grid!Poll \/ Grid!Elsewhere \/ UNCHANGED Grid!vars
  <2>1. UNCHANGED <<page, typed, sent, booked, crossed, lost>>
    BY <1>1 DEF Grid!Poll, Grid!Elsewhere, Grid!vars
  <2> QED
    BY <2>1, GridBooksOnPage
<1>2. CASE Grid!Click
  <2>1. ASSUME NEW b, Grid!OnPage(b),
               \A a \in Grid!Amounts : b.amounts[a] = 0 \/ b.amounts[a] = page.amounts[a]
        PROVE  GridBooks'
    BY <2>1, GridBooksOnPage DEF Grid!OnPage
  <2>2. DOMAIN page = {"admin", "seat", "amounts", "mode", "confirming", "report", "left"}
        /\ page.amounts = [a \in Grid!Amounts |-> page.amounts[a]]
        /\ page.seat \in Seats \cup {None}
    BY DEF GridIInv, GridTyping
  <2>3. CASE Grid!Dismiss
    <3>1. Grid!OnPage(Grid!CloseSeatDialog(page))
      BY <2>3 DEF Grid!Dismiss
    <3>2. Grid!CloseSeatDialog(page).amounts = [a \in Grid!Amounts |-> 0]
      BY <2>2 DEF Grid!CloseSeatDialog, Grid!NothingTyped
    <3> QED
      BY <2>1, <3>1, <3>2
  <2>4. CASE Grid!ChooseMode \/ (\E s \in Seats : Grid!SelectSeat(s))
             \/ Grid!AskToClose \/ Grid!CancelClose \/ Grid!CloseReportAndLeave
    <3>1. ASSUME NEW s, Grid!SelectSeat(s) PROVE GridBooks'
      <4>1. Grid!OnPage([page EXCEPT !.seat = s]) /\ [page EXCEPT !.seat = s].amounts = page.amounts
        BY <2>2, <3>1 DEF Grid!SelectSeat
      <4> QED
        BY <2>1, <4>1
    <3>2. ASSUME NEW m, Grid!OnPage([page EXCEPT !.mode = m]) PROVE GridBooks'
      <4>1. [page EXCEPT !.mode = m].amounts = page.amounts
        BY <2>2
      <4> QED
        BY <2>1, <3>2, <4>1
    <3>3. ASSUME NEW c, Grid!OnPage([page EXCEPT !.confirming = c]) PROVE GridBooks'
      <4>1. [page EXCEPT !.confirming = c].amounts = page.amounts
        BY <2>2
      <4> QED
        BY <2>1, <3>3, <4>1
    <3>4. CASE Grid!CloseReportAndLeave
      <4>1. [page EXCEPT !.report = FALSE, !.left = TRUE].amounts = page.amounts
        BY <2>2
      <4>2. Grid!OnPage([page EXCEPT !.report = FALSE, !.left = TRUE])
        BY <3>4 DEF Grid!CloseReportAndLeave
      <4> QED
        BY <2>1, <4>1, <4>2
    <3> QED
      BY <2>4, <3>1, <3>2, <3>3, <3>4 DEF Grid!ChooseMode, Grid!AskToClose, Grid!CancelClose
  <2>5. CASE \E a \in Grid!Amounts : Grid!Type(a)
    BY <2>5, GridBooksType
  <2>6. CASE GridButton
    BY <2>6, GridButtonSends, GridBooksMutate DEF GridSends
  <2> QED
    BY <1>2, <2>3, <2>4, <2>5, <2>6 DEF Grid!Click, GridButton
<1>3. ASSUME NEW m \in Grid!Mutations, Grid!Serve(m) PROVE GridBooks'
  BY <1>3, GridBooksServe
<1>4. ASSUME NEW m \in Grid!Mutations, Grid!Answered(m) \/ Grid!AnswerLost(m) PROVE GridBooks'
  BY <1>4, GridBooksAnswered
<1> QED
  BY <1>1, <1>2, <1>3, <1>4 DEF Grid!Next

\* Nothing is booked before anything is typed.
LEMMA GridBooksInitially ==
  ASSUME Grid!Init
  PROVE  GridBooks
<1>1. booked = [n \in 1 .. MaxTyped |-> 0] /\ crossed = [n \in 1 .. MaxTyped |-> 0] /\ lost = 0
      /\ sent = [m \in Grid!Mutations |-> None]
  BY DEF Grid!Init
<1>2. \A n : GridWaiting(n) = {}
  BY <1>1 DEF GridWaiting, GridPending
<1>3. \A n : Cardinality(GridWaiting(n)) = 0
  BY <1>2, FS_EmptySet
<1> QED
  BY <1>1, <1>3 DEF GridBooks

-----------------------------------------------------------------------------
(* The page of a tournament.                                               *)

DetailRequest(q) ==
  DOMAIN q = {"number", "newest", "op", "player", "entry", "filled", "outcome"}

DetailTyping ==
  /\ DOMAIN page = {"admin", "eliminating", "place", "confirming", "bonus", "searching"}
  /\ typed \in Nat /\ page.place \in 0 .. typed /\ known \subseteq 1 .. typed
  /\ \A q \in sent : DetailRequest(q)

\* What is in the field is new, and what is ticked is for the member of the dialog.
DetailPageSound ==
  /\ page.place \notin known
  /\ page.confirming # None => page.bonus \in {None, page.confirming}

\* What is sent was ticked for the member, or typed and not answered yet: one
\* elimination at most is under way.
DetailSentSound ==
  /\ \A q \in sent : q.op = "registerForUser" => q.filled \in {None, q.player}
  /\ \A q \in sent : q.op = "eliminate" => q.filled \in (0 .. typed) \ known
  /\ \A q, r \in sent : q.op = "eliminate" /\ r.op = "eliminate" => q = r

DetailIInv == DetailTyping /\ DetailPageSound /\ DetailSentSound

\* Both halves of the property are in the invariant.
LEMMA DetailNothingLeft == DetailIInv => Detail!BonusIsTheirOwn /\ Detail!PlaceIsSpent
BY DEF DetailIInv, DetailSentSound, Detail!BonusIsTheirOwn, Detail!PlaceIsSpent, Detail!Pending

\* A step of the page alone.
LEMMA DetailOnPage ==
  ASSUME DetailIInv, NEW b, Detail!OnPage(b), DOMAIN b = DOMAIN page, b.place = page.place,
         b.confirming # None => b.bonus \in {None, b.confirming}
  PROVE  DetailIInv'
BY DEF DetailIInv, DetailTyping, DetailPageSound, DetailSentSound, DetailRequest, Detail!OnPage

\* A click that sends something.
LEMMA DetailMutateKept ==
  ASSUME DetailIInv, NEW op, NEW player, NEW entry, NEW filled,
         Detail!Mutate(op, player, entry, filled),
         op = "registerForUser" => filled \in {None, player},
         op = "eliminate" => filled = page.place /\ Detail!Pending("eliminate") = {}
  PROVE  DetailIInv'
<1> DEFINE q == [number |-> count, newest |-> TRUE, op |-> op, player |-> player,
                 entry |-> entry, filled |-> filled, outcome |-> "open"]
           old(r) == [r EXCEPT !.newest = r.newest /\ r.op # op]
<1>1. sent' = {old(r) : r \in sent} \cup {q} /\ UNCHANGED <<page, typed, known>>
  BY DEF Detail!Mutate, Detail!Overtaken
<1>2. DetailRequest(q) /\ q.op = op /\ q.filled = filled /\ q.player = player
  BY DEF DetailRequest
<1>3. \A r \in sent : DetailRequest(old(r)) /\ old(r).op = r.op /\ old(r).filled = r.filled
        /\ old(r).player = r.player
  BY DEF DetailIInv, DetailTyping, DetailRequest
<1> HIDE DEF q, old
<1>4. DetailTyping' /\ DetailPageSound'
  BY <1>1, <1>2, <1>3 DEF DetailIInv, DetailTyping, DetailPageSound, DetailRequest
<1>5. ASSUME NEW r \in sent', r.op = "registerForUser"
      PROVE  r.filled \in {None, r.player}
  BY <1>1, <1>2, <1>3, <1>5 DEF DetailIInv, DetailSentSound
<1>6. q.op = "eliminate" => q.filled \in (0 .. typed) \ known
  BY <1>2 DEF DetailIInv, DetailTyping, DetailPageSound
<1>7. q.op = "eliminate" => \A r \in sent : old(r).op # "eliminate"
  BY <1>2, <1>3 DEF Detail!Pending
<1>8. ASSUME NEW r \in sent', r.op = "eliminate"
      PROVE  r.filled \in (0 .. typed) \ known
  BY <1>1, <1>3, <1>6, <1>8 DEF DetailIInv, DetailSentSound
<1>9. ASSUME NEW r \in sent', NEW t \in sent', r.op = "eliminate", t.op = "eliminate"
      PROVE  r = t
  <2>1. CASE q.op = "eliminate"
    BY <1>1, <1>7, <1>9, <2>1
  <2>2. CASE q.op # "eliminate"
    <3>1. PICK u \in sent, v \in sent : r = old(u) /\ t = old(v)
      BY <1>1, <1>9, <2>2
    <3>2. u = v
      BY <1>3, <1>9, <3>1 DEF DetailIInv, DetailSentSound
    <3> QED
      BY <3>1, <3>2
  <2> QED
    BY <2>1, <2>2
<1> QED
  BY <1>1, <1>4, <1>5, <1>8, <1>9 DEF DetailIInv, DetailSentSound

\* What a user of the page does.
LEMMA DetailClickKept ==
  ASSUME DetailIInv, Detail!Click
  PROVE  DetailIInv'
<1>1. DOMAIN page = {"admin", "eliminating", "place", "confirming", "bonus", "searching"}
      /\ (page.confirming # None => page.bonus \in {None, page.confirming})
  BY DEF DetailIInv, DetailTyping, DetailPageSound
<1> DEFINE Fits(b) == /\ DOMAIN b = DOMAIN page /\ b.place = page.place
                      /\ b.confirming # None => b.bonus \in {None, b.confirming}
<1>2. CASE Detail!RegisterMyself \/ Detail!CancelMine \/ Detail!FinishTournament
           \/ Detail!RegisterGuest
  <2>1. PICK op \in {"register", "unregister", "finish", "registerGuest"}, player \in {Me, None} :
          Detail!Mutate(op, player, 0, None)
    BY <1>2 DEF Detail!RegisterMyself, Detail!CancelMine, Detail!FinishTournament,
                Detail!RegisterGuest
  <2> QED
    BY <2>1, DetailMutateKept
<1>3. CASE Detail!Search
  <2>1. Fits([page EXCEPT !.searching = TRUE])
    BY <1>1
  <2> QED
    BY <1>3, <2>1, DetailOnPage DEF Detail!Search
<1>4. ASSUME NEW p, Detail!OpenConfirm(p)
      PROVE  DetailIInv'
  <2>1. Fits(Detail!OpenConfirmRegister(page, p))
    BY <1>1 DEF Detail!OpenConfirmRegister
  <2> QED
    BY <1>4, <2>1, DetailOnPage DEF Detail!OpenConfirm
<1>5. CASE Detail!TickBonus
  <2>1. Fits([page EXCEPT !.bonus = IF page.bonus = None THEN page.confirming ELSE None])
    BY <1>1
  <2> QED
    BY <1>5, <2>1, DetailOnPage DEF Detail!TickBonus
<1>6. CASE Detail!CancelConfirm
  <2>1. Fits([page EXCEPT !.confirming = None])
    BY <1>1
  <2> QED
    BY <1>6, <2>1, DetailOnPage DEF Detail!CancelConfirm
<1>7. CASE Detail!ConfirmMember
  BY <1>1, <1>7, DetailMutateKept DEF Detail!ConfirmMember
<1>8. ASSUME NEW i, Detail!StartEliminate(i)
      PROVE  DetailIInv'
  <2>1. Fits([page EXCEPT !.eliminating = i])
    BY <1>1
  <2> QED
    BY <1>8, <2>1, DetailOnPage DEF Detail!StartEliminate
<1>9. ASSUME NEW i, Detail!CancelEntry(i)
      PROVE  DetailIInv'
  <2>1. PICK p, entry : Detail!Mutate("unregisterForUser", p, entry, None)
    BY <1>9 DEF Detail!CancelEntry
  <2> QED
    BY <2>1, DetailMutateKept
<1>10. CASE Detail!TypePlace
  <2>1. page' = [page EXCEPT !.place = typed + 1] /\ typed' = typed + 1
        /\ UNCHANGED <<sent, known>>
    BY <1>10 DEF Detail!TypePlace
  <2>2. DOMAIN page' = DOMAIN page /\ page'.place = typed + 1
        /\ page'.confirming = page.confirming /\ page'.bonus = page.bonus
    BY <1>1, <2>1
  <2>3. typed \in Nat /\ known \subseteq 1 .. typed
    BY DEF DetailIInv, DetailTyping
  <2>4. DetailTyping' /\ DetailPageSound'
    BY <2>1, <2>2, <2>3 DEF DetailIInv, DetailTyping, DetailPageSound, DetailRequest
  <2>5. DetailSentSound'
    BY <2>1, <2>3 DEF DetailIInv, DetailSentSound
  <2> QED
    BY <2>4, <2>5 DEF DetailIInv
<1>11. CASE Detail!CancelEliminate
  <2>1. Fits([page EXCEPT !.eliminating = 0])
    BY <1>1
  <2> QED
    BY <1>11, <2>1, DetailOnPage DEF Detail!CancelEliminate
<1>12. CASE Detail!SubmitEliminate
  BY <1>12, DetailMutateKept DEF Detail!SubmitEliminate
<1> QED
  BY <1>2, <1>3, <1>4, <1>5, <1>6, <1>7, <1>8, <1>9, <1>10, <1>11, <1>12 DEF Detail!Click

\* A request is served, and stays under way until it is answered.
LEMMA DetailServeKept ==
  ASSUME DetailIInv, NEW q \in sent, Detail!Serve(q)
  PROVE  DetailIInv'
<1>1. PICK outcome : sent' = (sent \ {q}) \cup {[q EXCEPT !.outcome = outcome]}
  BY DEF Detail!Serve
<1> DEFINE s == [q EXCEPT !.outcome = outcome]
<1>2. UNCHANGED <<page, typed, known>>
  BY DEF Detail!Serve
<1>3. DetailRequest(s) /\ s.op = q.op /\ s.filled = q.filled /\ s.player = q.player
  BY DEF DetailIInv, DetailTyping, DetailRequest
<1>4. sent' = (sent \ {q}) \cup {s}
  BY <1>1
<1> HIDE DEF s
<1>5. DetailTyping' /\ DetailPageSound'
  BY <1>2, <1>3, <1>4 DEF DetailIInv, DetailTyping, DetailPageSound, DetailRequest
<1>6. DetailSentSound'
  BY <1>2, <1>3, <1>4 DEF DetailIInv, DetailSentSound
<1> QED
  BY <1>5, <1>6 DEF DetailIInv

\* An answer: a place that was given is known to be, and no longer in the field.
LEMMA DetailAnsweredKept ==
  ASSUME DetailIInv, NEW q \in sent, Detail!Answered(q)
  PROVE  DetailIInv'
<1>1. DOMAIN page = {"admin", "eliminating", "place", "confirming", "bonus", "searching"}
      /\ typed \in Nat /\ known \subseteq 1 .. typed
      /\ (page.confirming # None => page.bonus \in {None, page.confirming})
  BY DEF DetailIInv, DetailTyping, DetailPageSound
<1>2. sent' = sent \ {q} /\ typed' = typed
  BY DEF Detail!Answered
<1>3. CASE q.op = "eliminate" /\ q.outcome = "done"
  <2>1. known' = known \cup ({q.filled} \ {0})
    BY <1>3 DEF Detail!Answered
  <2>2. page' = [page EXCEPT !.eliminating = 0, !.place = 0]
    BY <1>3 DEF Detail!Answered, Detail!AfterSuccess, Detail!Eliminated
  <2>3. DOMAIN page' = DOMAIN page /\ page'.place = 0
        /\ page'.confirming = page.confirming /\ page'.bonus = page.bonus
    BY <1>1, <2>2
  <2>4. q.filled \in 0 .. typed
    BY <1>3 DEF DetailIInv, DetailSentSound
  <2>5. known' \subseteq 1 .. typed /\ 0 \notin known' /\ 0 \in 0 .. typed
    <3>1. q.filled # 0 => q.filled \in 1 .. typed
      BY <1>1, <2>4
    <3>2. 0 \notin 1 .. typed /\ 0 \in 0 .. typed
      BY <1>1
    <3>3. known' \subseteq 1 .. typed
      BY <1>1, <2>1, <3>1
    <3> QED
      BY <3>2, <3>3
  <2>6. DetailTyping' /\ DetailPageSound'
    BY <1>1, <1>2, <2>3, <2>5 DEF DetailIInv, DetailTyping, DetailPageSound, DetailRequest
  <2>7. \A r \in sent' : r.op # "eliminate"
    BY <1>2, <1>3 DEF DetailIInv, DetailSentSound
  <2>8. DetailSentSound'
    BY <1>2, <2>7 DEF DetailIInv, DetailSentSound
  <2> QED
    BY <2>6, <2>8 DEF DetailIInv
<1>4. CASE ~(q.op = "eliminate" /\ q.outcome = "done")
  <2>1. known' = known
    BY <1>4 DEF Detail!Answered
  <2>2. page' = page \/ page' = [page EXCEPT !.searching = FALSE, !.confirming = None]
    BY <1>4 DEF Detail!Answered, Detail!AfterSuccess
  <2>3. DOMAIN page' = DOMAIN page /\ page'.place = page.place
        /\ (page'.confirming # None => page'.bonus \in {None, page'.confirming})
    BY <1>1, <2>2
  <2>4. DetailTyping' /\ DetailPageSound'
    BY <1>2, <2>1, <2>3 DEF DetailIInv, DetailTyping, DetailPageSound, DetailRequest
  <2>5. DetailSentSound'
    BY <1>2, <2>1 DEF DetailIInv, DetailSentSound
  <2> QED
    BY <2>4, <2>5 DEF DetailIInv
<1> QED
  BY <1>3, <1>4

\* Every step.
LEMMA DetailEveryStep ==
  ASSUME DetailIInv, [Detail!Next]_(Detail!vars)
  PROVE  DetailIInv'
<1>1. CASE Detail!Elsewhere \/ Detail!Refetch \/ UNCHANGED Detail!vars
  <2>1. UNCHANGED <<page, sent, typed, known>>
    BY <1>1 DEF Detail!Elsewhere, Detail!Refetch, Detail!vars
  <2> QED
    BY <2>1 DEF DetailIInv, DetailTyping, DetailPageSound, DetailSentSound, DetailRequest
<1>2. CASE Detail!Click
  BY <1>2, DetailClickKept
<1>3. ASSUME NEW q \in sent, Detail!AnswerLost(q)
      PROVE  DetailIInv'
  BY <1>3 DEF Detail!AnswerLost, DetailIInv, DetailTyping, DetailPageSound, DetailSentSound,
              DetailRequest
<1> QED
  BY <1>1, <1>2, <1>3, DetailServeKept, DetailAnsweredKept DEF Detail!Next

\* In the beginning nothing is filled and nothing sent.
LEMMA DetailInitially ==
  ASSUME Detail!Init
  PROVE  DetailIInv
BY DEF Detail!Init, DetailIInv, DetailTyping, DetailPageSound, DetailSentSound

-----------------------------------------------------------------------------
(* The browser.                                                            *)

\* Whoever signed in is there, unless something was renewed meanwhile; a sign-in has an
\* attempt of its own, after that of the hydration.
BrowserTabSound(b) ==
  /\ DOMAIN b = {"loads", "status", "user", "access", "attempt", "clubs", "shown", "sent",
                 "renewal", "signed", "overlap"}
  /\ b.attempt \in Nat \ {0} /\ b.overlap \in BOOLEAN
  /\ b.signed # None => b.attempt > 1
  /\ b.signed # None /\ ~b.overlap => b.status = "authenticated" /\ b.user = b.signed

\* Only a sign-in can find the attempt of a sign-in current.
BrowserFlowSound(q) ==
  /\ DOMAIN q = {"pc", "kind", "stage", "attempt", "who", "bearer", "retried", "call"}
  /\ q.attempt \in Nat
  /\ q.kind = "login" <=> q.attempt > 1

BrowserTabs == tab = [t \in Tabs |-> tab[t]] /\ \A t \in Tabs : BrowserTabSound(tab[t])

BrowserFlows ==
  /\ flow = [t \in Tabs |-> flow[t]]
  /\ \A t \in Tabs : flow[t] = [f \in Slots |-> flow[t][f]]
  /\ \A t \in Tabs, f \in Slots : BrowserFlowSound(flow[t][f])

BrowserIInv == BrowserTabs /\ BrowserFlows

\* The property is in the invariant.
LEMMA BrowserStands == BrowserIInv => Browser!LoginStands
BY DEF BrowserIInv, BrowserTabs, BrowserTabSound, Browser!LoginStands

\* One tab changes.
LEMMA BrowserTabMoves ==
  ASSUME BrowserTabs, NEW t \in Tabs, NEW b, BrowserTabSound(b), tab' = [tab EXCEPT ![t] = b]
  PROVE  BrowserTabs'
<1>1. tab' = [s \in Tabs |-> IF s = t THEN b ELSE tab[s]]
  BY DEF BrowserTabs
<1>2. \A s \in Tabs : BrowserTabSound(tab'[s])
  BY <1>1 DEF BrowserTabs
<1> QED
  BY <1>1, <1>2 DEF BrowserTabs, BrowserTabSound

\* The flows of one tab change.
LEMMA BrowserFlowsMove ==
  ASSUME BrowserFlows, NEW t \in Tabs, NEW g, flow' = [flow EXCEPT ![t] = g],
         g = [f \in Slots |-> g[f]], \A f \in Slots : BrowserFlowSound(g[f])
  PROVE  BrowserFlows'
<1>1. flow' = [s \in Tabs |-> IF s = t THEN g ELSE flow[s]]
  BY DEF BrowserFlows
<1>2. \A s \in Tabs : flow'[s] = [f \in Slots |-> flow'[s][f]]
  BY <1>1 DEF BrowserFlows
<1>3. \A s \in Tabs, f \in Slots : BrowserFlowSound(flow'[s][f])
  BY <1>1 DEF BrowserFlows
<1> QED
  BY <1>1, <1>2, <1>3 DEF BrowserFlows, BrowserFlowSound

\* Only a flow moves.
LEMMA BrowserTabsStay ==
  ASSUME BrowserTabs, UNCHANGED tab
  PROVE  BrowserTabs'
BY DEF BrowserTabs, BrowserTabSound

\* One flow changes.
LEMMA BrowserFlowMoves ==
  ASSUME BrowserFlows, NEW t \in Tabs, NEW f \in Slots, NEW q, BrowserFlowSound(q),
         flow' = [flow EXCEPT ![t][f] = q]
  PROVE  BrowserFlows'
<1> DEFINE g == [flow[t] EXCEPT ![f] = q]
<1>1. flow' = [flow EXCEPT ![t] = g]
  OBVIOUS
<1>2. g = [s \in Slots |-> IF s = f THEN q ELSE flow[t][s]]
  BY DEF BrowserFlows
<1>3. g = [s \in Slots |-> g[s]] /\ \A s \in Slots : BrowserFlowSound(g[s])
  BY <1>2 DEF BrowserFlows
<1> HIDE DEF g
<1> QED
  BY <1>1, <1>3, BrowserFlowsMove

\* What becomes of a flow, and of a tab.
LEMMA BrowserNoFlow == BrowserFlowSound(Browser!NoFlow)
BY TokenConstants DEF BrowserFlowSound, Browser!NoFlow

\* A flow that goes on asking is that of the same attempt.
LEMMA BrowserSendSound ==
  ASSUME NEW b, NEW q, NEW stage, BrowserFlowSound(q)
  PROVE  /\ BrowserFlowSound(Browser!Send(b, q, stage))
         /\ BrowserFlowSound([Browser!Send(b, q, stage) EXCEPT !.retried = TRUE])
<1> DEFINE s == Browser!Send(b, q, stage)
<1>1. /\ DOMAIN s = {"pc", "kind", "stage", "attempt", "who", "bearer", "retried", "call"}
      /\ s.attempt = q.attempt /\ s.kind = q.kind
  BY DEF BrowserFlowSound, Browser!Send
<1> HIDE DEF s
<1>2. BrowserFlowSound(s) /\ BrowserFlowSound([s EXCEPT !.retried = TRUE])
  BY <1>1 DEF BrowserFlowSound
<1> QED
  BY <1>1, <1>2 DEF s

\* A flow that throws can only end a hydration.
LEMMA BrowserThrownSound ==
  ASSUME NEW b, NEW flows, BrowserTabSound(b)
  PROVE  BrowserTabSound(Browser!Thrown(b, flows))
<1>1. CASE Browser!Thrown(b, flows) = b
  BY <1>1
<1>2. CASE /\ b.status = "loading"
           /\ Browser!Thrown(b, flows) = [b EXCEPT !.status = "unauthenticated"]
  BY <1>2 DEF BrowserTabSound
<1> QED
  BY <1>1, <1>2 DEF Browser!Thrown

\* A flow ends.
LEMMA BrowserEndKept ==
  ASSUME BrowserIInv, NEW t \in Tabs, NEW f \in Slots, NEW b, BrowserTabSound(b),
         Browser!End(t, f, b)
  PROVE  BrowserIInv'
BY BrowserTabMoves, BrowserFlowMoves, BrowserNoFlow DEF BrowserIInv, Browser!End

\* A request is asked for.
LEMMA BrowserBeginKept ==
  ASSUME BrowserIInv, NEW t \in Tabs, NEW f \in Slots,
         Browser!Query(t, f) \/ Browser!RefreshClubes(t, f)
  PROVE  BrowserIInv'
<1>1. PICK kind \in {"query", "refreshClubes"}, stage \in {"query", "clubs"} :
        Browser!Begin(t, f, kind, stage)
  BY DEF Browser!Query, Browser!RefreshClubes
<1> DEFINE q == Browser!Send(tab[t], [Browser!NoFlow EXCEPT !.kind = kind], stage)
<1>2. flow' = [flow EXCEPT ![t][f] = q] /\ tab' = tab
  BY <1>1 DEF Browser!Begin
<1>3. BrowserFlowSound(q)
  BY DEF BrowserFlowSound, Browser!Send, Browser!NoFlow
<1> HIDE DEF q
<1>4. BrowserFlows'
  BY <1>2, <1>3, BrowserFlowMoves DEF BrowserIInv
<1>5. BrowserTabs'
  BY <1>2, BrowserTabsStay DEF BrowserIInv
<1> QED
  BY <1>4, <1>5 DEF BrowserIInv

\* A request gets no answer.
LEMMA BrowserUnansweredKept ==
  ASSUME BrowserIInv, NEW t \in Tabs, NEW f \in Slots, Browser!Unanswered(t, f)
  PROVE  BrowserIInv'
BY BrowserEndKept, BrowserThrownSound DEF Browser!Unanswered, BrowserIInv, BrowserTabs

\* A request is not authorized.
LEMMA BrowserUnauthorizedKept ==
  ASSUME BrowserIInv, NEW t \in Tabs, NEW f \in Slots, Browser!Unauthorized(t, f)
  PROVE  BrowserIInv'
<1> DEFINE q == flow[t][f]
<1>1. BrowserFlowSound(q) /\ BrowserTabSound(tab[t]) /\ q.pc = "sent"
  BY DEF BrowserIInv, BrowserTabs, BrowserFlows, Browser!Unauthorized, Browser!AtApi
<1>2. CASE q.retried
  <2>1. Browser!End(t, f, Browser!Thrown(tab[t], {q}))
    BY <1>2 DEF Browser!Unauthorized
  <2> QED
    BY <1>1, <2>1, BrowserEndKept, BrowserThrownSound
<1>3. CASE ~q.retried
  <2>1. flow' = [flow EXCEPT ![t][f] = [q EXCEPT !.pc = "renewing"]]
    BY <1>3 DEF Browser!Unauthorized
  <2>2. BrowserFlowSound([q EXCEPT !.pc = "renewing"])
    BY <1>1 DEF BrowserFlowSound
  <2>3. BrowserFlows'
    BY <2>1, <2>2, BrowserFlowMoves DEF BrowserIInv
  <2>4. CASE tab[t].renewal = None
    <3>1. \E c \in Calls : tab' = [tab EXCEPT ![t] =
              [tab[t] EXCEPT !.renewal = [call |-> c, attempt |-> tab[t].attempt],
                             !.overlap = tab[t].overlap \/ Browser!SigningIn(t)]]
      BY <1>3, <2>4, Zenon DEF Browser!Unauthorized
    <3>2. PICK c \in Calls : tab' = [tab EXCEPT ![t] =
              [tab[t] EXCEPT !.renewal = [call |-> c, attempt |-> tab[t].attempt],
                             !.overlap = tab[t].overlap \/ Browser!SigningIn(t)]]
      BY <3>1, Zenon
    <3> DEFINE b == [tab[t] EXCEPT !.renewal = [call |-> c, attempt |-> tab[t].attempt],
                                   !.overlap = tab[t].overlap \/ Browser!SigningIn(t)]
    <3>3. BrowserTabSound(b)
      BY <1>1 DEF BrowserTabSound
    <3>4. tab' = [tab EXCEPT ![t] = b]
      BY <3>2
    <3> HIDE DEF b
    <3> QED
      BY <2>3, <3>3, <3>4, BrowserTabMoves DEF BrowserIInv
  <2>5. CASE tab[t].renewal # None
    <3>1. UNCHANGED tab
      BY <1>3, <2>5 DEF Browser!Unauthorized
    <3> QED
      BY <2>3, <3>1, BrowserTabsStay DEF BrowserIInv
  <2> QED
    BY <2>4, <2>5
<1> QED
  BY <1>2, <1>3

\* The handler of the 401s ends, and those that waited go on or throw.
LEMMA BrowserSettleKept ==
  ASSUME BrowserIInv, NEW t \in Tabs, NEW b, BrowserTabSound(b), NEW renewed \in BOOLEAN,
         Browser!Settle(t, b, renewed)
  PROVE  BrowserIInv'
<1> DEFINE waiting == {f \in Slots : flow[t][f].pc = "renewing"}
           done == [b EXCEPT !.renewal = None]
<1>1. BrowserTabSound(done)
  BY DEF BrowserTabSound
<1>2. \A f \in Slots : BrowserFlowSound(flow[t][f])
  BY DEF BrowserIInv, BrowserFlows
<1>3. flow[t] = [f \in Slots |-> flow[t][f]] /\ flow = [s \in Tabs |-> flow[s]]
  BY DEF BrowserIInv, BrowserFlows
<1>4. CASE renewed
  <2> DEFINE g == [f \in Slots |->
        IF f \in waiting
        THEN [Browser!Send(done, flow[t][f], flow[t][f].stage) EXCEPT !.retried = TRUE]
        ELSE flow[t][f]]
  <2>1. tab' = [tab EXCEPT ![t] = done] /\ flow' = [flow EXCEPT ![t] = g]
    BY <1>4 DEF Browser!Settle
  <2>2. \A f \in Slots : BrowserFlowSound(g[f])
    BY <1>2, BrowserSendSound
  <2>3. g = [f \in Slots |-> g[f]]
    OBVIOUS
  <2> HIDE DEF g, done
  <2> QED
    BY <1>1, <2>1, <2>2, <2>3, BrowserTabMoves, BrowserFlowsMove DEF BrowserIInv
<1>5. CASE ~renewed
  <2> DEFINE g == [f \in Slots |-> IF f \in waiting THEN Browser!NoFlow ELSE flow[t][f]]
             d == Browser!Thrown(done, {flow[t][f] : f \in waiting})
  <2>1. tab' = [tab EXCEPT ![t] = d] /\ flow' = [flow EXCEPT ![t] = g]
    BY <1>5 DEF Browser!Settle
  <2>2. \A f \in Slots : BrowserFlowSound(g[f])
    BY <1>2, BrowserNoFlow
  <2>3. g = [f \in Slots |-> g[f]]
    OBVIOUS
  <2>4. BrowserTabSound(d)
    BY <1>1, BrowserThrownSound
  <2> HIDE DEF g, d
  <2> QED
    BY <2>1, <2>2, <2>3, <2>4, BrowserTabMoves, BrowserFlowsMove DEF BrowserIInv
<1> QED
  BY <1>4, <1>5

\* A renewal that was refused ends the session of its own attempt, and only that.
LEMMA BrowserRenewalKept ==
  ASSUME BrowserIInv, NEW t \in Tabs, Browser!Renewal(t)
  PROVE  BrowserIInv'
<1> DEFINE b == tab[t]
<1>1. BrowserTabSound(b)
  BY DEF BrowserIInv, BrowserTabs
<1>2. CASE Browser!RenewalLost(t)
  BY <1>1, <1>2, BrowserSettleKept DEF Browser!RenewalLost
<1>3. CASE Browser!Renewed(t)
  <2> DEFINE answer == call[b.renewal.call]
             current == Browser!IsCurrentAttempt(b, b.renewal.attempt)
             own == b.renewal.attempt = b.attempt /\ ~b.overlap
             kept == IF current THEN [b EXCEPT !.access = tokens[answer.issued].user] ELSE b
             ended == IF current /\ answer.status = 401
                      THEN [Browser!Cleared(b) EXCEPT !.signed = IF own THEN None ELSE b.signed]
                      ELSE b
  <2>1. CASE answer.status = 200
    <3>1. Browser!Settle(t, kept, TRUE)
      BY <1>3, <2>1 DEF Browser!Renewed
    <3>2. BrowserTabSound(kept)
      BY <1>1 DEF BrowserTabSound
    <3> HIDE DEF kept
    <3> QED
      BY <3>1, <3>2, BrowserSettleKept
  <2>2. CASE answer.status # 200
    <3> DEFINE cleared == Browser!Cleared(b)
    <3>1. /\ DOMAIN cleared = DOMAIN b /\ cleared.signed = b.signed
          /\ cleared.attempt = b.attempt /\ cleared.overlap = b.overlap
      BY <1>1 DEF BrowserTabSound, Browser!Cleared
    <3>2. ended = IF current /\ answer.status = 401
                  THEN [cleared EXCEPT !.signed = IF own THEN None ELSE cleared.signed] ELSE b
      BY <3>1
    <3>3. Browser!Settle(t, ended, FALSE)
      BY <1>3, <2>2, <3>1 DEF Browser!Renewed
    <3>4. current => (own <=> ~b.overlap)
      BY DEF Browser!IsCurrentAttempt
    <3> HIDE DEF cleared
    <3>5. BrowserTabSound(ended)
      <4>1. CASE current /\ answer.status = 401
        <5>1. CASE own
          <6>1. ended = [cleared EXCEPT !.signed = None]
            BY <3>2, <4>1, <5>1
          <6> QED
            BY <1>1, <3>1, <6>1 DEF BrowserTabSound
        <5>2. CASE ~own
          <6>1. ended = [cleared EXCEPT !.signed = cleared.signed]
            BY <3>2, <4>1, <5>2
          <6>2. b.overlap
            BY <1>1, <3>4, <4>1, <5>2 DEF BrowserTabSound
          <6> HIDE DEF ended
          <6>3. /\ DOMAIN ended = DOMAIN b /\ ended.attempt = b.attempt
                /\ ended.overlap = b.overlap /\ ended.signed = b.signed
            <7>1. DOMAIN cleared = DOMAIN b /\ "signed" \in DOMAIN cleared
              BY <1>1, <3>1 DEF BrowserTabSound
            <7> QED
              BY ONLY <3>1, <6>1, <7>1
          <6> QED
            BY <1>1, <6>2, <6>3 DEF BrowserTabSound
        <5> QED
          BY <5>1, <5>2
      <4>2. CASE ~(current /\ answer.status = 401)
        BY <1>1, <4>2
      <4> QED
        BY <4>1, <4>2
    <3> HIDE DEF ended
    <3> QED
      BY <3>3, <3>5, BrowserSettleKept
  <2> QED
    BY <2>1, <2>2
<1> QED
  BY <1>2, <1>3 DEF Browser!Renewal

\* A request succeeds; the session is that of a sign-in only while its attempt is current.
LEMMA BrowserSucceedKept ==
  ASSUME BrowserIInv, NEW t \in Tabs, NEW f \in Slots, Browser!Succeed(t, f)
  PROVE  BrowserIInv'
<1> DEFINE q == flow[t][f]
           clubs == ClubsOf[q.bearer]
           club == Browser!Current(clubs)
           b == [tab[t] EXCEPT !.sent = club]
           applied == Browser!ApplyClubes(b, clubs)
           signedIn == [applied EXCEPT
                          !.user = q.who, !.status = "authenticated",
                          !.signed = IF q.kind = "login" THEN q.who ELSE applied.signed]
<1>1. BrowserFlowSound(q) /\ BrowserTabSound(tab[t])
  BY DEF BrowserIInv, BrowserTabs, BrowserFlows
<1>2. CASE q.stage = "query" /\ Browser!End(t, f, tab[t])
  BY <1>1, <1>2, BrowserEndKept
<1>3. CASE flow' = [flow EXCEPT ![t][f] =
             Browser!Send(tab[t], [q EXCEPT !.who = q.bearer], "clubs")]
           /\ UNCHANGED tab
  <2> DEFINE told == [q EXCEPT !.who = q.bearer]
             next == Browser!Send(tab[t], told, "clubs")
  <2>1. BrowserFlowSound(told)
    BY <1>1 DEF BrowserFlowSound
  <2> HIDE DEF told
  <2>2. BrowserFlowSound(next)
    BY <2>1, BrowserSendSound
  <2>3. flow' = [flow EXCEPT ![t][f] = next]
    BY <1>3 DEF told
  <2> HIDE DEF next
  <2>4. BrowserFlows /\ BrowserTabs
    BY DEF BrowserIInv
  <2>5. BrowserFlows'
    BY ONLY <2>2, <2>3, <2>4, t \in Tabs, f \in Slots, BrowserFlowMoves, Zenon
  <2>6. BrowserTabs'
    BY ONLY <1>3, <2>4, BrowserTabsStay, Zenon
  <2> QED
    BY ONLY <2>5, <2>6 DEF BrowserIInv
<1>4. CASE Browser!End(t, f, IF q.kind = "refreshClubes" THEN applied
                             ELSE IF Browser!IsCurrentAttempt(b, q.attempt) THEN signedIn ELSE b)
  <2>1. BrowserTabSound(b) /\ b.attempt = tab[t].attempt
    BY <1>1 DEF BrowserTabSound
  <2> HIDE DEF b
  <2>2. BrowserTabSound(applied) /\ applied.attempt = tab[t].attempt
    BY <2>1 DEF BrowserTabSound, Browser!ApplyClubes
  <2> HIDE DEF applied
  <2>3. ASSUME Browser!IsCurrentAttempt(b, q.attempt) PROVE BrowserTabSound(signedIn)
    <3>1. q.attempt = tab[t].attempt
      BY <2>1, <2>3 DEF Browser!IsCurrentAttempt
    <3>2. CASE q.kind = "login"
      <4>1. signedIn = [applied EXCEPT !.user = q.who, !.status = "authenticated", !.signed = q.who]
        BY <3>2
      <4> QED
        BY <1>1, <2>2, <3>1, <3>2, <4>1 DEF BrowserTabSound, BrowserFlowSound
    <3>3. CASE q.kind # "login"
      <4>1. signedIn = [applied EXCEPT !.user = q.who, !.status = "authenticated",
                                       !.signed = applied.signed]
        BY <3>3
      <4>2. applied.signed = None
        BY <1>1, <2>2, <3>1, <3>3 DEF BrowserTabSound, BrowserFlowSound
      <4> QED
        BY <2>2, <4>1, <4>2 DEF BrowserTabSound
    <3> QED
      BY <3>2, <3>3
  <2> HIDE DEF signedIn
  <2> DEFINE done == IF q.kind = "refreshClubes" THEN applied
                     ELSE IF Browser!IsCurrentAttempt(b, q.attempt) THEN signedIn ELSE b
  <2>4. BrowserTabSound(done)
    BY <2>1, <2>2, <2>3
  <2>5. Browser!End(t, f, done)
    BY <1>4
  <2> HIDE DEF done
  <2> QED
    BY <2>4, <2>5, BrowserEndKept
<1> QED
  BY <1>2, <1>3, <1>4 DEF Browser!Succeed, Browser!ApplyClubes

\* A sign-in begins a new attempt.
LEMMA BrowserLoginClickKept ==
  ASSUME BrowserIInv, NEW t \in Tabs, NEW f \in Slots, NEW u \in Users, Browser!LoginClick(t, f, u)
  PROVE  BrowserIInv'
<1> DEFINE b == [tab[t] EXCEPT !.attempt = tab[t].attempt + 1, !.signed = None, !.overlap = FALSE]
<1>1. BrowserTabSound(tab[t])
  BY DEF BrowserIInv, BrowserTabs
<1>2. BrowserTabSound(b)
  BY <1>1 DEF BrowserTabSound
<1>3. tab' = [tab EXCEPT ![t] = b]
  BY <1>1, Zenon DEF Browser!LoginClick, BrowserIInv, BrowserTabs
<1>4. PICK c \in Calls : flow' = [flow EXCEPT ![t][f] =
          [Browser!NoFlow EXCEPT !.pc = "sent", !.kind = "login", !.stage = "login", !.who = u,
                                 !.attempt = tab[t].attempt + 1, !.call = c]]
  BY Zenon DEF Browser!LoginClick
<1> DEFINE q == [Browser!NoFlow EXCEPT !.pc = "sent", !.kind = "login", !.stage = "login",
                     !.who = u, !.attempt = tab[t].attempt + 1, !.call = c]
<1>5. BrowserFlowSound(q)
  BY <1>1 DEF BrowserTabSound, BrowserFlowSound, Browser!NoFlow
<1>6. flow' = [flow EXCEPT ![t][f] = q]
  BY <1>4, Zenon
<1> HIDE DEF b, q
<1> QED
  BY <1>2, <1>3, <1>5, <1>6, BrowserTabMoves, BrowserFlowMoves DEF BrowserIInv

\* The answer to a sign-in, or none.
LEMMA BrowserLoginEndsKept ==
  ASSUME BrowserIInv, NEW t \in Tabs, NEW f \in Slots,
         Browser!LoginAnswered(t, f) \/ Browser!LoginLost(t, f)
  PROVE  BrowserIInv'
<1> DEFINE q == flow[t][f]
           b == [tab[t] EXCEPT !.access = q.who]
           next == Browser!Send(b, q, "me")
<1>1. BrowserFlowSound(q) /\ BrowserTabSound(tab[t])
  BY DEF BrowserIInv, BrowserTabs, BrowserFlows
<1>2. CASE Browser!End(t, f, tab[t])
  BY <1>1, <1>2, BrowserEndKept
<1>3. CASE tab' = [tab EXCEPT ![t] = b] /\ flow' = [flow EXCEPT ![t][f] = next]
  <2>1. BrowserTabSound(b)
    BY <1>1 DEF BrowserTabSound
  <2>2. BrowserFlowSound(next)
    BY <1>1, BrowserSendSound
  <2> HIDE DEF b, next
  <2> QED
    BY <1>3, <2>1, <2>2, BrowserTabMoves, BrowserFlowMoves DEF BrowserIInv
<1> QED
  BY <1>2, <1>3 DEF Browser!LoginAnswered, Browser!LoginLost

\* Signing out.
LEMMA BrowserLogoutKept ==
  ASSUME BrowserIInv, NEW t \in Tabs, NEW f \in Slots,
         Browser!LogoutClick(t, f) \/ Browser!LogoutEnds(t, f)
  PROVE  BrowserIInv'
<1>1. BrowserTabSound(tab[t])
  BY DEF BrowserIInv, BrowserTabs
<1>2. CASE Browser!LogoutClick(t, f)
  <2>1. PICK c \in Calls : flow' = [flow EXCEPT ![t][f] =
            [Browser!NoFlow EXCEPT !.pc = "sent", !.kind = "logout", !.stage = "logout",
                                   !.call = c]]
    BY <1>2, Zenon DEF Browser!LogoutClick
  <2> DEFINE q == [Browser!NoFlow EXCEPT !.pc = "sent", !.kind = "logout", !.stage = "logout",
                                         !.call = c]
  <2>2. BrowserFlowSound(q)
    BY DEF BrowserFlowSound, Browser!NoFlow
  <2>3. tab' = tab
    BY <1>2, Zenon DEF Browser!LogoutClick
  <2>4. flow' = [flow EXCEPT ![t][f] = q]
    BY <2>1, Zenon
  <2> HIDE DEF q
  <2>5. BrowserFlows'
    BY <2>2, <2>4, BrowserFlowMoves DEF BrowserIInv
  <2>6. BrowserTabs'
    BY <2>3, BrowserTabsStay DEF BrowserIInv
  <2> QED
    BY <2>5, <2>6 DEF BrowserIInv
<1>3. CASE Browser!LogoutEnds(t, f)
  <2> DEFINE b == [Browser!Cleared(tab[t]) EXCEPT !.signed = None]
  <2>1. BrowserTabSound(b)
    BY <1>1 DEF BrowserTabSound, Browser!Cleared
  <2>2. Browser!End(t, f, b)
    BY <1>3 DEF Browser!LogoutEnds
  <2> HIDE DEF b
  <2> QED
    BY <2>1, <2>2, BrowserEndKept
<1> QED
  BY <1>2, <1>3

\* Another club is chosen.
LEMMA BrowserSwitchKept ==
  ASSUME BrowserIInv, NEW t \in Tabs, Browser!SwitchClube(t)
  PROVE  BrowserIInv'
<1>1. BrowserTabSound(tab[t]) /\ tab = [s \in Tabs |-> tab[s]]
  BY DEF BrowserIInv, BrowserTabs
<1>2. PICK i \in DOMAIN tab[t].clubs : tab' = [tab EXCEPT
        ![t].sent = tab[t].clubs[i], ![t].shown = tab[t].clubs[i]]
  BY Zenon DEF Browser!SwitchClube
<1> DEFINE b == [tab[t] EXCEPT !.sent = tab[t].clubs[i], !.shown = tab[t].clubs[i]]
<1>3. BrowserTabSound(b)
  BY <1>1 DEF BrowserTabSound
<1>4. tab' = [tab EXCEPT ![t] = b]
  BY <1>1, <1>2
<1>5. flow' = flow
  BY DEF Browser!SwitchClube
<1> HIDE DEF b
<1> QED
  BY <1>3, <1>4, <1>5, BrowserTabMoves DEF BrowserIInv, BrowserFlows, BrowserFlowSound

\* A page is opened, or loaded again.
LEMMA BrowserOpened ==
  ASSUME NEW n
  PROVE  /\ BrowserTabSound([Browser!Opened EXCEPT !.loads = n])
         /\ BrowserTabSound(Browser!Opened)
         /\ Browser!Hydrating = [f \in Slots |-> Browser!Hydrating[f]]
         /\ \A f \in Slots : BrowserFlowSound(Browser!Hydrating[f])
<1>1. BrowserTabSound([Browser!Opened EXCEPT !.loads = n]) /\ BrowserTabSound(Browser!Opened)
  BY DEF BrowserTabSound, Browser!Opened
<1>2. Browser!Hydrating = [f \in Slots |-> Browser!Hydrating[f]]
  BY DEF Browser!Hydrating
<1> DEFINE q == [Browser!NoFlow EXCEPT !.pc = "sent", !.kind = "hydrate", !.stage = "me",
                                       !.attempt = 1]
<1>3. BrowserFlowSound(q)
  BY DEF BrowserFlowSound, Browser!NoFlow
<1>4. \A f \in Slots : Browser!Hydrating[f] = q \/ Browser!Hydrating[f] = Browser!NoFlow
  BY DEF Browser!Hydrating
<1> QED
  BY <1>1, <1>2, <1>3, <1>4, BrowserNoFlow

\* The page is loaded again.
LEMMA BrowserReloadKept ==
  ASSUME BrowserIInv, NEW t \in Tabs, Browser!Reload(t)
  PROVE  BrowserIInv'
<1> DEFINE b == [Browser!Opened EXCEPT !.loads = tab[t].loads + 1]
<1>1. tab' = [tab EXCEPT ![t] = b] /\ flow' = [flow EXCEPT ![t] = Browser!Hydrating]
  BY Zenon DEF Browser!Reload
<1>2. BrowserTabSound(b)
  BY BrowserOpened
<1> HIDE DEF b
<1> QED
  BY <1>1, <1>2, BrowserOpened, BrowserTabMoves, BrowserFlowsMove DEF BrowserIInv

\* Every step of a browser in front of its server.
LEMMA BrowserEveryStep ==
  ASSUME BrowserIInv, [Browser!BrowserNext]_(Browser!vars)
  PROVE  BrowserIInv'
<1>1. CASE Browser!Server \/ UNCHANGED Browser!vars
  BY <1>1 DEF Browser!Server, Browser!vars, Browser!browserVars, BrowserIInv, BrowserTabs,
              BrowserTabSound, BrowserFlows, BrowserFlowSound
<1>2. ASSUME NEW t \in Tabs, Browser!Renewal(t) \/ Browser!SwitchClube(t) \/ Browser!Reload(t)
      PROVE  BrowserIInv'
  BY <1>2, BrowserRenewalKept, BrowserSwitchKept, BrowserReloadKept
<1>3. ASSUME NEW t \in Tabs, NEW f \in Slots, Browser!Proceed(t, f)
      PROVE  BrowserIInv'
  BY <1>3, BrowserUnansweredKept, BrowserUnauthorizedKept, BrowserSucceedKept,
     BrowserLoginEndsKept, BrowserLogoutKept DEF Browser!Proceed
<1>4. ASSUME NEW t \in Tabs, NEW f \in Slots,
             Browser!Query(t, f) \/ Browser!RefreshClubes(t, f) \/ Browser!LogoutClick(t, f)
      PROVE  BrowserIInv'
  BY <1>4, BrowserBeginKept, BrowserLogoutKept
<1>5. ASSUME NEW t \in Tabs, NEW f \in Slots, NEW u \in Users, Browser!LoginClick(t, f, u)
      PROVE  BrowserIInv'
  BY <1>5, BrowserLoginClickKept
<1> QED
  BY <1>1, <1>2, <1>3, <1>4, <1>5, Zenon DEF Browser!BrowserNext

\* The page loads of a browser.
LEMMA BrowserInitially ==
  ASSUME Browser!Init
  PROVE  BrowserIInv
<1>1. tab = [t \in Tabs |-> Browser!Opened] /\ flow = [t \in Tabs |-> Browser!Hydrating]
  BY DEF Browser!Init
<1>2. BrowserTabs
  BY <1>1, BrowserOpened DEF BrowserTabs
<1>3. BrowserFlows
  BY <1>1, BrowserOpened DEF BrowserFlows
<1> QED
  BY <1>2, <1>3 DEF BrowserIInv

-----------------------------------------------------------------------------
(* In the house.                                                           *)

\* A behaviour of the house is about one part, whose steps are those of its module.
LEMMA PartBegins ==
  Init =>
    /\ part = "browser" => Browser!Init
    /\ part = "grid" => Grid!Init
    /\ part = "detail" => Detail!Init
    /\ part = "control" => Control!Init
    /\ part = "form" => Setup!Init
BY DEF Init

\* And no step changes which part that is.
LEMMA PartMoves ==
  [Next]_vars =>
    /\ part' = part
    /\ part = "browser" => [Browser!BrowserNext]_(Browser!vars)
    /\ part = "grid" => [Grid!Next]_(Grid!vars)
    /\ part = "detail" => [Detail!Next]_(Detail!vars)
    /\ part = "control" => [Control!Next]_(Control!vars)
    /\ part = "form" => [Setup!Next]_(Setup!vars)
<1>1. CASE SeatingStep
  BY <1>1 DEF SeatingStep
<1>2. CASE StructuresStep
  BY <1>2 DEF StructuresStep
<1>3. CASE TokensStep
  BY <1>3 DEF TokensStep
<1>4. CASE BrowserStep
  BY <1>4 DEF BrowserStep
<1>5. CASE ClubsStep
  BY <1>5 DEF ClubsStep
<1>6. CASE GridStep
  BY <1>6 DEF GridStep
<1>7. CASE DetailStep
  BY <1>7 DEF DetailStep
<1>8. CASE GatewayStep
  BY <1>8 DEF GatewayStep
<1>9. CASE HistoryStep
  BY <1>9 DEF HistoryStep
<1>10. CASE ControlStep
  BY <1>10 DEF ControlStep
<1>11. CASE SetupStep
  BY <1>11 DEF SetupStep
<1>12. CASE UNCHANGED vars
  BY <1>12 DEF vars, Control!vars, Setup!vars, formVars, Browser!vars, Browser!serverVars,
               Browser!browserVars, serverVars, browserVars, Grid!vars, tableVars, pageVars,
               Detail!vars, detailVars
<1> QED
  BY <1>1, <1>2, <1>3, <1>4, <1>5, <1>6, <1>7, <1>8, <1>9, <1>10, <1>11, <1>12 DEF Next

\* The invariants of the parts, for behaviours that are about them.
BrowserPart == part = "browser" => BrowserIInv
GridPart == part = "grid" => GridIInv
DetailPart == part = "detail" => DetailIInv
ControlPart == part = "control" => ControlIInv
FormPart == part = "form" => FormIInv

\* What was typed for one level is never saved as another (handleLevelSubmit).
THEOREM LevelsAreNotMixed == Spec => []EditKeepsItsLevel
<1>1. Init => ControlPart
  BY PartBegins, ControlInitially DEF ControlPart
<1>2. ControlPart /\ [Next]_vars => ControlPart'
  BY PartMoves, ControlEveryStep DEF ControlPart
<1>3. ControlPart => EditKeepsItsLevel
  BY ControlPropertiesFollow DEF ControlPart, EditKeepsItsLevel
<1> QED
  BY <1>1, <1>2, <1>3, PTL DEF Spec

\* No poll puts a row on the operator's page that is older than an answer to a command that
\* was there before (applyClock).
THEOREM AnswersAreNotUndone == Spec => OwnCommandStaysShown
<1>1. Init => ControlPart
  BY PartBegins, ControlInitially DEF ControlPart
<1>2. ControlPart /\ [Next]_vars => ControlPart'
  BY PartMoves, ControlEveryStep DEF ControlPart
<1>3. ControlPart /\ [Next]_vars => [part = "control" => Control!PollsKeepUp]_vars
  BY PartMoves, ControlEveryStep DEF ControlPart
<1> QED
  BY <1>1, <1>2, <1>3, PTL DEF Spec, OwnCommandStaysShown

\* A button on offer is refused only when the clock moved since what the page shows, when
\* the row was written again and again meanwhile, or when there are no levels to start
\* (ALLOWED_FROM and the service's own table agree on all else).
THEOREM OffersAgree == Spec => []RefusedOnlyIfMoved
<1>1. Init => ControlPart
  BY PartBegins, ControlInitially DEF ControlPart
<1>2. ControlPart /\ [Next]_vars => ControlPart'
  BY PartMoves, ControlEveryStep DEF ControlPart
<1>3. ControlPart => RefusedOnlyIfMoved
  BY ControlPropertiesFollow DEF ControlPart, RefusedOnlyIfMoved
<1> QED
  BY <1>1, <1>2, <1>3, PTL DEF Spec

\* A tournament is what the last saved form showed, and a new one is refused for its
\* structure only: deleted since it was listed, or without the last level of re-entry
\* (toPayload, updateTournament, copyBlindLevels).
THEOREM FormsAreKept == Spec => []FormIsKept
<1>1. Init => FormPart
  BY PartBegins, FormInitially DEF FormPart
<1>2. FormPart /\ [Next]_vars => FormPart'
  BY PartMoves, FormEveryStep DEF FormPart
<1>3. FormPart => FormIsKept
  BY DEF FormPart, FormIsKept, FormIInv, FormRequestSound, FormRefusedFor,
     Setup!CreationIsCoherent
<1> QED
  BY <1>1, <1>2, <1>3, PTL DEF Spec

\* Whoever signed in stays signed in, unless the session was renewed while the sign-in ran
\* (the attempts of session-provider.tsx).
THEOREM LoginsStand == Spec => []LoginStands
<1>1. Init => BrowserPart
  BY PartBegins, BrowserInitially DEF BrowserPart
<1>2. BrowserPart /\ [Next]_vars => BrowserPart'
  BY PartMoves, BrowserEveryStep DEF BrowserPart
<1>3. BrowserPart => LoginStands
  BY BrowserStands DEF BrowserPart, LoginStands
<1> QED
  BY <1>1, <1>2, <1>3, PTL DEF Spec

\* An amount is never sent for another seat than the one in whose dialog it was typed,
\* though who sits there may have changed (SeatGrid).
THEOREM AmountsStayWithTheirSeat == Spec => []AmountsKeepTheirSeat
<1>1. Init => GridPart
  BY PartBegins, GridInitially DEF GridPart
<1>2. GridPart /\ [Next]_vars => GridPart'
  BY PartMoves, GridEveryStep DEF GridPart
<1>3. GridPart => AmountsKeepTheirSeat
  BY GridSeatsFollow DEF GridPart, AmountsKeepTheirSeat
<1> QED
  BY <1>1, <1>2, <1>3, PTL DEF Spec

\* An amount is booked once, and once more at most for every answer that was lost and for
\* every click that sent it while it was under way as another kind of sit (SeatGrid).
THEOREM AmountsBookedOnce == Spec => []BookedOnce
<1> DEFINE IInv == part = "grid" => GridIInv /\ GridBooks
<1>1. Init => IInv
  BY PartBegins, GridInitially, GridBooksInitially
<1>2. IInv /\ [Next]_vars => IInv'
  BY PartMoves, GridEveryStep, GridBooksStep
<1>3. IInv => BookedOnce
  <2>1. ASSUME GridBooks, NEW n \in 1 .. MaxTyped
        PROVE  booked[n] <= 1 + lost + crossed[n]
    <3>1. booked[n] \in Nat /\ crossed[n] \in Nat /\ lost \in Nat
          /\ booked[n] + Cardinality(GridWaiting(n)) <= 1 + lost + crossed[n]
      BY <2>1 DEF GridBooks
    <3>2. Cardinality(GridWaiting(n)) \in Nat
      BY GridWaitingFinite
    <3> QED
      BY <3>1, <3>2
  <2> QED
    BY <2>1 DEF BookedOnce, Grid!BookedOnce
<1> QED
  BY <1>1, <1>2, <1>3, PTL DEF Spec

\* What was ticked or typed for one player never reaches another (TournamentDetail).
THEOREM NothingStays == Spec => []NothingLeftOver
<1>1. Init => DetailPart
  BY PartBegins, DetailInitially DEF DetailPart
<1>2. DetailPart /\ [Next]_vars => DetailPart'
  BY PartMoves, DetailEveryStep DEF DetailPart
<1>3. DetailPart => NothingLeftOver
  BY DetailNothingLeft DEF DetailPart, NothingLeftOver
<1> QED
  BY <1>1, <1>2, <1>3, PTL DEF Spec
=============================================================================
