----------------------- MODULE TournamentClockProofs -----------------------
(***************************************************************************)
(* That the version in the WHERE of its UPDATE keeps every command on the  *)
(* row it was planned for, and that what is read of the clock is LiveClock *)
(* as long as nobody replaces the grid, for any number of requests, grids, *)
(* levels and seconds.  Whoever is about to write holds a plan that is     *)
(* right for the row while the row has the version that was read           *)
(* (PlanSound); all that writes the row raises the version.  What          *)
(* advanceClockToNow computes is a recursive function, known by the        *)
(* equation the ends of the levels satisfy (Ends).  The television shows   *)
(* what the server would say now, but for the delay of its last answer and *)
(* the drift of its device (DInv).                                         *)
(***************************************************************************)
EXTENDS ClockDisplay, SumLemmas, TLAPS

Operations == {"start", "pause", "resume", "next", "previous", "edit"}

\* A request has the fields of Idle.
IsRequest(q) ==
  DOMAIN q = {"pc", "op", "level", "duration", "read", "rows", "plan", "durations", "tries"}

\* A command that can be given, to some grid.
Asked(q) ==
  /\ q.op \in Operations \cap Workload
  /\ q.op = "edit" => q.level \in Nat \ {0} /\ q.duration \in Durations
  /\ q.op # "edit" => q.level = 0 /\ q.duration = 0

\* The plan is what a command makes of the row at that moment.
FollowsAt(time, plan, durations) ==
  \E q \in Commands :
    LET made == PlanOf(q, Advance(clock, grid, time), grid, time)
    IN  ~made.refused /\ plan = made.clock /\ durations = made.durations

\* At some moment up to now.
Follows(plan, durations) == \E time \in 0 .. now : FollowsAt(time, plan, durations)

\* It was when the row was read, and is while the row has the version that was read:
\* at this very moment, unless requests take time.
PlanSound(q) ==
  /\ q.pc \in {"plan", "write"} => Asked(q)
  /\ q.pc = "write" =>
       /\ q.read \in Nat /\ q.read <= version
       /\ q.read = version =>
            /\ Follows(q.plan, q.durations) /\ (q.op # "edit" => q.durations = grid)
            /\ ~lag => FollowsAt(now, q.plan, q.durations)

\* updateTournament brings a grid.
UpdateSound(q) == q.pc = "update" => q.durations \in Seq(Durations)

IInv ==
  /\ version \in Nat /\ now \in Nat
  /\ grid \in Seq(Durations)
  /\ DOMAIN req = Reqs
  /\ \A r \in Reqs : IsRequest(req[r]) /\ PlanSound(req[r]) /\ UpdateSound(req[r])

-----------------------------------------------------------------------------

\* A command that is accepted leaves the grid alone, unless it edits one of its levels.
LEMMA PlanOfGrid ==
  ASSUME grid \in Seq(Durations), NEW q, Asked(q), NEW c, NEW time,
         ~PlanOf(q, c, grid, time).refused
  PROVE  /\ PlanOf(q, c, grid, time).durations \in Seq(Durations)
         /\ q.op # "edit" => PlanOf(q, c, grid, time).durations = grid
         /\ q.op = "edit" => q.level \in 1 .. Len(grid)
<1> DEFINE made == PlanOf(q, c, grid, time)
<1>1. \A d : Accept(d, grid).durations = grid
  BY DEF Accept
<1>2. Refusal.refused
  BY DEF Refusal
<1>3. CASE q.op = "start"
  BY <1>1, <1>2, <1>3 DEF PlanOf, PlanStart
<1>4. CASE q.op = "pause"
  BY <1>1, <1>2, <1>4 DEF PlanOf, PlanPause
<1>5. CASE q.op = "resume"
  BY <1>1, <1>2, <1>5 DEF PlanOf, PlanResume
<1>6. CASE q.op = "next"
  BY <1>1, <1>2, <1>6 DEF PlanOf, PlanStep
<1>7. CASE q.op = "previous"
  BY <1>1, <1>2, <1>7 DEF PlanOf, PlanStep
<1>8. CASE q.op = "edit"
  <2>1. made = PlanEdit(c, grid, q.level, q.duration, time)
    BY <1>8 DEF PlanOf
  <2>2. q.level \in DOMAIN grid /\ made.durations = [grid EXCEPT ![q.level] = q.duration]
    BY <1>2, <2>1 DEF PlanEdit, Accept
  <2>3. q.duration \in Durations
    BY <1>8 DEF Asked
  <2> QED
    BY <1>8, <2>2, <2>3
<1> QED
  BY <1>3, <1>4, <1>5, <1>6, <1>7, <1>8 DEF Asked, Operations

Order(op) == [Idle EXCEPT !.op = op]
Edit(level, duration) == [Idle EXCEPT !.op = "edit", !.level = level, !.duration = duration]

\* The commands, and the fields of each.
LEMMA CommandsAre ==
  /\ \A op : /\ Order(op).op = op /\ Order(op).level = 0 /\ Order(op).duration = 0
             /\ IsRequest(Order(op))
  /\ \A level, duration :
       /\ Edit(level, duration).op = "edit" /\ Edit(level, duration).level = level
       /\ Edit(level, duration).duration = duration /\ IsRequest(Edit(level, duration))
  /\ Commands = {Order(op) : op \in {"start", "pause", "resume", "next", "previous"}
                                       \cap Workload}
                  \cup (IF "edit" \in Workload
                        THEN {Edit(level, duration) : level \in 1 .. Len(grid) + 1,
                                                      duration \in Durations}
                        ELSE {})
<1>1. \A op : /\ Order(op).op = op /\ Order(op).level = 0 /\ Order(op).duration = 0
              /\ IsRequest(Order(op))
  BY DEF Idle, Order, IsRequest
<1>2. \A level, duration :
        /\ Edit(level, duration).op = "edit" /\ Edit(level, duration).level = level
        /\ Edit(level, duration).duration = duration /\ IsRequest(Edit(level, duration))
  BY DEF Idle, Edit, IsRequest
<1>3. Commands = {Order(op) : op \in {"start", "pause", "resume", "next", "previous"}
                                      \cap Workload}
                   \cup (IF "edit" \in Workload
                         THEN {Edit(level, duration) : level \in 1 .. Len(grid) + 1,
                                                       duration \in Durations}
                         ELSE {})
  BY DEF Commands, Order, Edit
<1> QED
  BY <1>1, <1>2, <1>3

\* A command is a request, and can be asked for.
LEMMA CommandsAsked ==
  ASSUME grid \in Seq(Durations), NEW o \in Commands
  PROVE  IsRequest(o) /\ Asked(o)
<1>1. CASE o \in {Order(op) : op \in {"start", "pause", "resume", "next", "previous"}
                                       \cap Workload}
  BY <1>1, CommandsAre DEF Asked, Operations
<1>2. CASE "edit" \in Workload /\
           o \in {Edit(level, duration) : level \in 1 .. Len(grid) + 1, duration \in Durations}
  <2>1. PICK level \in 1 .. Len(grid) + 1, duration \in Durations : o = Edit(level, duration)
    BY <1>2
  <2>2. IsRequest(o) /\ o.op = "edit" /\ o.level = level /\ o.duration = duration
    BY <2>1, CommandsAre
  <2> QED
    BY <1>2, <2>2 DEF Asked, Operations
<1> QED
  BY <1>1, <1>2, CommandsAre

\* What a request asks for can be asked for now, when the grid has the level it edits.
LEMMA AskedNow ==
  ASSUME grid \in Seq(Durations), NEW q, Asked(q), q.op = "edit" => q.level \in 1 .. Len(grid)
  PROVE  \E o \in Commands : o.op = q.op /\ o.level = q.level /\ o.duration = q.duration
<1>4. CASE q.op = "edit"
  <2>1. q.level \in 1 .. Len(grid) + 1 /\ q.duration \in Durations /\ "edit" \in Workload
    BY <1>4 DEF Asked
  <2>2. Edit(q.level, q.duration) \in Commands
    BY <2>1, CommandsAre
  <2> QED
    BY <1>4, <2>2, CommandsAre
<1>5. CASE q.op # "edit"
  <2>1. q.op \in {"start", "pause", "resume", "next", "previous"} \cap Workload
    BY <1>5 DEF Asked, Operations
  <2>2. Order(q.op) \in Commands
    BY <2>1, CommandsAre
  <2> QED
    BY <1>5, <2>2, CommandsAre DEF Asked
<1> QED
  BY <1>4, <1>5

\* A blank request.
LEMMA IdleSound == IsRequest(Idle) /\ PlanSound(Idle) /\ UpdateSound(Idle)
BY DEF IsRequest, PlanSound, UpdateSound, Idle

\* A plan is right for the row it was made of.
LEMMA PlannedSound ==
  ASSUME IInv, NEW q, IsRequest(q), Asked(q)
  PROVE  IsRequest(Planned(q)) /\ PlanSound(Planned(q)) /\ UpdateSound(Planned(q))
<1> DEFINE made == PlanOf(q, Advance(clock, grid, now), grid, now)
           p == [q EXCEPT !.pc = "write", !.plan = made.clock, !.durations = made.durations,
                          !.read = version, !.rows = copies]
<1>1. CASE made.refused
  BY <1>1, IdleSound DEF Planned
<1>2. CASE ~made.refused
  <2>1. Planned(q) = p
    BY <1>2 DEF Planned
  <2>2. /\ p.pc = "write" /\ p.op = q.op /\ p.level = q.level /\ p.duration = q.duration
        /\ p.plan = made.clock /\ p.durations = made.durations /\ p.read = version
        /\ IsRequest(p)
    <3> HIDE DEF made
    <3> QED
      BY DEF IsRequest
  <2>3. /\ q.op # "edit" => made.durations = grid
        /\ q.op = "edit" => q.level \in 1 .. Len(grid)
    BY <1>2, PlanOfGrid DEF IInv
  <2>4. PICK o \in Commands : o.op = q.op /\ o.level = q.level /\ o.duration = q.duration
    BY <2>3, AskedNow DEF IInv
  <2>5. PlanOf(o, Advance(clock, grid, now), grid, now) = made
    BY <2>4 DEF PlanOf
  <2>6. now \in 0 .. now /\ version \in Nat /\ version <= version
    BY DEF IInv
  <2> HIDE DEF p
  <2>7. FollowsAt(now, p.plan, p.durations)
    BY <1>2, <2>2, <2>4, <2>5 DEF FollowsAt
  <2>9. Follows(p.plan, p.durations)
    BY <2>6, <2>7 DEF Follows
  <2>8. Asked(p)
    BY <2>2 DEF Asked
  <2> QED
    BY <2>1, <2>2, <2>3, <2>6, <2>7, <2>8, <2>9 DEF PlanSound, UpdateSound
<1> QED
  BY <1>1, <1>2

-----------------------------------------------------------------------------

\* A step of one request that does not write the row.
LEMMA OnlyRequest ==
  ASSUME IInv, NEW r \in Reqs, NEW q, IsRequest(q), PlanSound(q), UpdateSound(q),
         req' = [req EXCEPT ![r] = q], UNCHANGED <<clock, grid, version, now, lag>>
  PROVE  IInv'
<1>1. \A o \in Reqs : req'[o] = IF o = r THEN q ELSE req[o]
  BY DEF IInv
<1>2. \A p : /\ Follows(p.plan, p.durations)' <=> Follows(p.plan, p.durations)
             /\ FollowsAt(now, p.plan, p.durations)' <=> FollowsAt(now, p.plan, p.durations)
  BY DEF Follows, FollowsAt, Commands
<1>3. \A p : IsRequest(p)' <=> IsRequest(p)
  BY DEF IsRequest
<1>4. \A p : (PlanSound(p)' <=> PlanSound(p)) /\ (UpdateSound(p)' <=> UpdateSound(p))
  BY <1>2 DEF PlanSound, Asked, UpdateSound
<1>5. DOMAIN req' = Reqs
  BY DEF IInv
<1> QED
  BY <1>1, <1>3, <1>4, <1>5 DEF IInv

\* A step that writes the row, and makes every other request's plan stale.
LEMMA RowWritten ==
  ASSUME IInv, version' = version + 1, grid' \in Seq(Durations), UNCHANGED now,
         \/ UNCHANGED req
         \/ \E r \in Reqs : req' = [req EXCEPT ![r] = Idle]
  PROVE  IInv'
<1>1. version \in Nat /\ version' \in Nat /\ now' \in Nat
  BY DEF IInv
<1>2. \A q : PlanSound(q) => PlanSound(q)'
  <2>1. ASSUME NEW q, PlanSound(q)
        PROVE  PlanSound(q)'
    <3>1. q.pc \in {"plan", "write"} => Asked(q)
      BY <2>1 DEF PlanSound
    <3>2. q.pc = "write" => q.read \in Nat /\ q.read <= version
      BY <2>1 DEF PlanSound
    <3>3. q.pc = "write" => q.read <= version' /\ q.read # version'
      BY <1>1, <3>2
    <3> QED
      BY <3>1, <3>2, <3>3 DEF PlanSound, Asked
  <2> QED
    BY <2>1
<1>3. \A q : (IsRequest(q)' <=> IsRequest(q)) /\ (UpdateSound(q)' <=> UpdateSound(q))
  BY DEF IsRequest, UpdateSound
<1>4. DOMAIN req' = Reqs
  BY DEF IInv
<1>5. \A r \in Reqs : req'[r] = req[r] \/ req'[r] = Idle
  BY DEF IInv
<1>6. \A r \in Reqs : IsRequest(req[r])' /\ PlanSound(req[r])' /\ UpdateSound(req[r])'
  BY <1>2, <1>3, <1>5, IdleSound DEF IInv
<1> QED
  BY <1>1, <1>4, <1>6 DEF IInv

-----------------------------------------------------------------------------

\* A command is planned.
LEMMA CommandKept ==
  ASSUME IInv, NEW r \in Reqs, Command(r)
  PROVE  IInv'
<1>1. PICK q \in Commands : req' = [req EXCEPT ![r] = Planned(q)]
  BY DEF Command
<1>2. IsRequest(q) /\ Asked(q)
  BY CommandsAsked DEF IInv
<1>3. IsRequest(Planned(q)) /\ PlanSound(Planned(q)) /\ UpdateSound(Planned(q))
  BY <1>2, PlannedSound
<1> QED
  BY <1>1, <1>3, OnlyRequest DEF Command

\* It is planned again.
LEMMA PlanAgainKept ==
  ASSUME IInv, NEW r \in Reqs, PlanAgain(r)
  PROVE  IInv'
<1>1. IsRequest(req[r]) /\ Asked(req[r])
  BY DEF PlanAgain, IInv, PlanSound
<1>2. /\ IsRequest(Planned(req[r])) /\ PlanSound(Planned(req[r]))
      /\ UpdateSound(Planned(req[r]))
  BY <1>1, PlannedSound
<1> QED
  BY <1>2, OnlyRequest DEF PlanAgain

\* The version was another: it will be planned again, or not at all.
LEMMA WriteAgainKept ==
  ASSUME IInv, NEW r \in Reqs, WriteAgain(r)
  PROVE  IInv'
<1> DEFINE q == req[r]
           p == [q EXCEPT !.pc = "plan", !.tries = @ + 1]
<1>1. IsRequest(q) /\ Asked(q)
  BY DEF WriteAgain, IInv, PlanSound
<1>2. IsRequest(p) /\ p.pc = "plan" /\ p.op = q.op /\ p.level = q.level
      /\ p.duration = q.duration
  BY <1>1 DEF IsRequest
<1>3. IsRequest(p) /\ PlanSound(p) /\ UpdateSound(p)
  BY <1>1, <1>2 DEF PlanSound, Asked, UpdateSound
<1> HIDE DEF p
<1>4. req' = [req EXCEPT ![r] = Idle] \/ req' = [req EXCEPT ![r] = p]
  BY DEF WriteAgain, p
<1> QED
  BY <1>3, <1>4, IdleSound, OnlyRequest DEF WriteAgain

\* The row becomes what was planned, of the row that is still there.
LEMMA WriteFollows ==
  ASSUME IInv, NEW r \in Reqs, Write(r)
  PROVE  Follows(clock', grid') /\ grid' \in Seq(Durations)
<1> DEFINE q == req[r]
<1>1. PlanSound(q) /\ q.pc = "write" /\ q.read = version /\ clock' = q.plan
      /\ grid' = (IF q.op = "edit" THEN q.durations ELSE grid)
  BY DEF Write, SameVersion, IInv
<1>2. Follows(q.plan, q.durations) /\ (q.op # "edit" => q.durations = grid)
  BY <1>1 DEF PlanSound
<1>3. grid' = q.durations
  BY <1>1, <1>2
<1>4. PICK time \in 0 .. now, o \in Commands :
        LET made == PlanOf(o, Advance(clock, grid, time), grid, time)
        IN  ~made.refused /\ q.plan = made.clock /\ q.durations = made.durations
  BY <1>2 DEF Follows, FollowsAt
<1>5. Asked(o)
  BY CommandsAsked DEF IInv
<1>6. q.durations \in Seq(Durations)
  BY <1>4, <1>5, PlanOfGrid DEF IInv
<1> QED
  BY <1>1, <1>2, <1>3, <1>6

\* The command is written.
LEMMA WriteKept ==
  ASSUME IInv, NEW r \in Reqs, Write(r)
  PROVE  IInv'
<1>1. grid' \in Seq(Durations)
  BY WriteFollows
<1>2. version' = version + 1 /\ UNCHANGED now /\ req' = [req EXCEPT ![r] = Idle]
  BY DEF Write
<1> QED
  BY <1>1, <1>2, RowWritten

\* updateTournament comes with another preset's grid.
LEMMA AskUpdateKept ==
  ASSUME IInv, NEW r \in Reqs, AskUpdate(r)
  PROVE  IInv'
<1>1. PICK g \in Grids :
        req' = [req EXCEPT ![r] = [Idle EXCEPT !.pc = "update", !.op = "update",
                                               !.durations = g]]
  BY DEF AskUpdate
<1> DEFINE q == [Idle EXCEPT !.pc = "update", !.op = "update", !.durations = g]
<1>2. IsRequest(q) /\ q.pc = "update" /\ q.durations = g
  BY DEF IsRequest, Idle
<1>3. PlanSound(q)
  BY <1>2 DEF PlanSound
<1> HIDE DEF q
<1>4. UpdateSound(q)
  BY <1>2, ClockConstants DEF UpdateSound
<1>5. req' = [req EXCEPT ![r] = q]
  BY <1>1 DEF q
<1> QED
  BY <1>2, <1>3, <1>4, <1>5, OnlyRequest DEF AskUpdate

\* A request that dies.
LEMMA FailKept ==
  ASSUME IInv, NEW r \in Reqs, Fail(r)
  PROVE  IInv'
BY IdleSound, OnlyRequest DEF Fail

\* Entries, cancellations and an edit of the tournament write the row too.
LEMMA OthersKept ==
  ASSUME IInv, Register \/ Unregister \/ \E r \in Reqs : ApplyUpdate(r)
  PROVE  IInv'
<1>1. version' = version + 1 /\ UNCHANGED now
  BY DEF Register, Unregister, ApplyUpdate
<1>2. grid' \in Seq(Durations)
  BY DEF Register, Unregister, ApplyUpdate, IInv, UpdateSound
<1>3. UNCHANGED req \/ \E r \in Reqs : req' = [req EXCEPT ![r] = Idle]
  BY DEF Register, Unregister, ApplyUpdate
<1> QED
  BY <1>1, <1>2, <1>3, RowWritten

\* A plan of an earlier moment is still one.
LEMMA TimeKept ==
  ASSUME IInv, TimePasses
  PROVE  IInv'
<1>1. now \in Nat /\ now' = now + 1 /\ UNCHANGED <<clock, grid, version, req, lag>>
  BY DEF TimePasses, IInv
<1>2. 0 .. now \subseteq 0 .. now'
  BY <1>1
<1>3. Commands' = Commands
  BY <1>1 DEF Commands
<1>4. \A plan, durations : Follows(plan, durations) => Follows(plan, durations)'
  BY <1>1, <1>2, <1>3 DEF Follows, FollowsAt
<1>5. \A r \in Reqs : PlanSound(req[r])'
  <2>1. \A r \in Reqs : PlanSound(req[r]) /\ (lag \/ req[r].pc # "write") /\ lag' = lag
    BY DEF IInv, TimePasses
  <2> QED
    BY <1>1, <1>4, <2>1 DEF PlanSound, Asked
<1> QED
  BY <1>1, <1>5 DEF IInv, IsRequest, UpdateSound

-----------------------------------------------------------------------------

\* The clock has not started, and nobody is at it.
LEMMA Initially == Init => IInv
<1> SUFFICES ASSUME Init
             PROVE  IInv
  OBVIOUS
<1>1. grid \in Seq(Durations)
  BY ClockConstants DEF Init
<1>2. \A r \in Reqs : req[r] = Idle
  BY DEF Init
<1> QED
  BY <1>1, <1>2, IdleSound DEF Init, IInv

\* One action at a time.
LEMMA EveryStep ==
  ASSUME IInv, [Next]_vars
  PROVE  IInv'
<1>1. CASE UNCHANGED vars
  <2>1. UNCHANGED <<clock, grid, version, now, lag, req>>
    BY <1>1 DEF vars
  <2>2. Commands' = Commands
    BY <2>1 DEF Commands
  <2>3. \A plan, durations :
          /\ Follows(plan, durations)' <=> Follows(plan, durations)
          /\ FollowsAt(now, plan, durations)' <=> FollowsAt(now, plan, durations)
    BY <2>1, <2>2 DEF Follows, FollowsAt
  <2>4. \A q : PlanSound(q)' <=> PlanSound(q)
    BY <2>1, <2>3 DEF PlanSound, Asked
  <2> QED
    BY <2>1, <2>4 DEF IInv, IsRequest, UpdateSound
<1>2. CASE TimePasses
  BY <1>2, TimeKept
<1>3. CASE Register \/ Unregister
  BY <1>3, OthersKept
<1>4. ASSUME NEW r \in Reqs,
             \/ Command(r) \/ PlanAgain(r) \/ Write(r) \/ WriteAgain(r)
             \/ AskUpdate(r) \/ ApplyUpdate(r) \/ Fail(r)
      PROVE  IInv'
  BY <1>4, CommandKept, PlanAgainKept, WriteKept, WriteAgainKept, AskUpdateKept, OthersKept,
     FailKept
<1> QED
  BY <1>1, <1>2, <1>3, <1>4 DEF Next

\* Only a command that is written changes the clock.
LEMMA OnlyWrites ==
  ASSUME IInv, [Next]_vars, clock' # clock
  PROVE  Follows(clock', grid')
<1>1. PICK r \in Reqs : Write(r)
  BY DEF Next, vars, TimePasses, Register, Unregister, Command, PlanAgain, WriteAgain,
         AskUpdate, ApplyUpdate, Fail
<1> QED
  BY <1>1, WriteFollows, SMTT(30)

\* The row becomes what a command makes of the row it finds, as if given at some moment
\* up to now, however late it is written (mutate's comparison of versions).
THEOREM CommandsFollowTheRow == Spec => WritesFollowTheRow
<1>1. Init => IInv
  BY Initially
<1>2. IInv /\ [Next]_vars => IInv'
  BY EveryStep
<1>3. IInv /\ [Next]_vars =>
        [clock' # clock =>
           \E time \in 0 .. now, q \in Commands :
             LET plan == PlanOf(q, Advance(clock, grid, time), grid, time)
             IN  ~plan.refused /\ clock' = plan.clock /\ grid' = plan.durations]_vars
  BY OnlyWrites DEF Follows, FollowsAt
<1> QED
  BY <1>1, <1>2, <1>3, PTL DEF Spec, WritesFollowTheRow

-----------------------------------------------------------------------------
(* The ends of the levels of a running clock.                              *)

\* The ends of the levels from lo to hi, the first of which ends at x.
Ends(f, lo, hi, x, g) ==
  f = [k \in lo .. hi |-> IF k = lo THEN x ELSE f[k - 1] + g[k]]

\* There are such ends, and they are moments.
LEMMA EndsExist ==
  ASSUME NEW lo \in Nat, NEW hi \in Nat, lo <= hi, NEW x \in Int, NEW g,
         \A k \in lo .. hi : g[k] \in Int
  PROVE  \E f \in [lo .. hi -> Int] : Ends(f, lo, hi, x, g)
<1> DEFINE T == {n \in Nat :
                   lo + n <= hi => \E f \in [lo .. lo + n -> Int] : Ends(f, lo, lo + n, x, g)}
<1>1. 0 \in T
  <2>1. PICK f : f = [k \in lo .. lo + 0 |-> x]
    OBVIOUS
  <2>2. /\ f \in [lo .. lo + 0 -> Int]
        /\ f = [k \in lo .. lo + 0 |-> IF k = lo THEN x ELSE f[k - 1] + g[k]]
    BY <2>1
  <2> QED
    BY <2>2 DEF Ends
<1>2. ASSUME NEW n \in Nat, n \in T PROVE n + 1 \in T
  <2> SUFFICES ASSUME lo + (n + 1) <= hi
               PROVE  \E f \in [lo .. lo + (n + 1) -> Int] : Ends(f, lo, lo + (n + 1), x, g)
    OBVIOUS
  <2>1. PICK f \in [lo .. lo + n -> Int] : Ends(f, lo, lo + n, x, g)
    BY <1>2
  <2>2. PICK z : z = lo + (n + 1)
    OBVIOUS
  <2>3. z \in lo .. hi /\ z - 1 = lo + n /\ z # lo /\ g[z] \in Int /\ z \in Int
    BY <2>2
  <2>4. PICK h : h = [k \in lo .. z |-> IF k = z THEN f[z - 1] + g[z] ELSE f[k]]
    OBVIOUS
  <2>5. h \in [lo .. z -> Int]
    BY <2>3, <2>4
  <2>6. \A k \in lo .. z : h[k] = IF k = lo THEN x ELSE h[k - 1] + g[k]
    <3> SUFFICES ASSUME NEW k \in lo .. z
                 PROVE  h[k] = IF k = lo THEN x ELSE h[k - 1] + g[k]
      OBVIOUS
    <3>1. CASE k = z
      <4>1. h[k] = f[z - 1] + g[z] /\ h[k - 1] = f[z - 1]
        BY <2>3, <2>4, <3>1
      <4> QED
        BY <2>3, <3>1, <4>1
    <3>2. CASE k # z
      <4>1. k \in lo .. lo + n /\ h[k] = f[k]
        BY <2>3, <2>4, <3>2
      <4>2. f[k] = IF k = lo THEN x ELSE f[k - 1] + g[k]
        BY <2>1, <4>1 DEF Ends
      <4>3. k # lo => k - 1 \in lo .. z /\ k - 1 # z
        BY <2>3, <4>1
      <4>4. k # lo => h[k - 1] = f[k - 1]
        BY <2>4, <4>3
      <4> QED
        BY <4>1, <4>2, <4>4
    <3> QED
      BY <3>1, <3>2
  <2>7. h = [k \in lo .. z |-> IF k = lo THEN x ELSE h[k - 1] + g[k]]
    BY <2>5, <2>6
  <2> QED
    BY <2>2, <2>5, <2>7 DEF Ends
<1>3. Nat \subseteq T
  <2> HIDE DEF T
  <2> QED
    BY <1>1, <1>2, NatSetInduction
<1>4. hi - lo \in T
  BY <1>3
<1>5. lo + (hi - lo) = hi
  OBVIOUS
<1> QED
  BY <1>4, <1>5

\* They are determined.
LEMMA EndsUnique ==
  ASSUME NEW lo \in Nat, NEW hi \in Nat, NEW x, NEW g,
         NEW f, Ends(f, lo, hi, x, g), NEW h, Ends(h, lo, hi, x, g)
  PROVE  f = h
<1> DEFINE T == {n \in Nat : lo + n <= hi => f[lo + n] = h[lo + n]}
<1>0. /\ f = [k \in lo .. hi |-> IF k = lo THEN x ELSE f[k - 1] + g[k]]
      /\ h = [k \in lo .. hi |-> IF k = lo THEN x ELSE h[k - 1] + g[k]]
  BY DEF Ends
<1>a. \A k \in lo .. hi : f[k] = (IF k = lo THEN x ELSE f[k - 1] + g[k])
  BY <1>0, Zenon
<1>b. \A k \in lo .. hi : h[k] = (IF k = lo THEN x ELSE h[k - 1] + g[k])
  BY <1>0, Zenon
<1>1. 0 \in T
  <2>1. lo + 0 <= hi => lo \in lo .. hi
    OBVIOUS
  <2> QED
    BY <1>a, <1>b, <2>1
<1>2. ASSUME NEW n \in Nat, n \in T PROVE n + 1 \in T
  <2> SUFFICES ASSUME lo + (n + 1) <= hi
               PROVE  f[lo + (n + 1)] = h[lo + (n + 1)]
    OBVIOUS
  <2>1. PICK z : z = lo + (n + 1)
    OBVIOUS
  <2>2. z \in lo .. hi /\ z - 1 = lo + n /\ z # lo
    BY <2>1
  <2>3. f[z] = f[z - 1] + g[z] /\ h[z] = h[z - 1] + g[z]
    BY <1>a, <1>b, <2>2
  <2>4. f[lo + n] = h[lo + n]
    BY <1>2
  <2> QED
    BY <2>1, <2>2, <2>3, <2>4
<1>3. Nat \subseteq T
  <2> HIDE DEF T
  <2> QED
    BY <1>1, <1>2, NatSetInduction
<1>4. \A k \in lo .. hi : f[k] = h[k]
  <2> SUFFICES ASSUME NEW k \in lo .. hi PROVE f[k] = h[k]
    OBVIOUS
  <2>1. k - lo \in T /\ lo + (k - lo) = k
    BY <1>3
  <2> QED
    BY <2>1
<1>5. DOMAIN f = lo .. hi /\ DOMAIN h = lo .. hi
  BY <1>0, Zenon
<1>6. f = [k \in lo .. hi |-> f[k]] /\ h = [k \in lo .. hi |-> h[k]]
  BY <1>0, <1>5
<1> QED
  BY <1>4, <1>6

\* advanceClockToNow, by the ends of the levels.
LEMMA AdvanceUnfolds ==
  ASSUME NEW c, NEW g, NEW t
  PROVE  Advance(c, g, t) =
           IF c.status # "RUNNING" \/ c.level \notin DOMAIN g \/ c.ends >= t THEN c
           ELSE LET end == CHOOSE f : Ends(f, c.level, Len(g), c.ends, g)
                    lasting == {k \in c.level .. Len(g) : end[k] >= t}
                IN  IF lasting = {} THEN Finished(Len(g))
                    ELSE Running(Min(lasting), end[Min(lasting)])
BY Zenon DEF Advance, Lasts, Ends

\* The least member of a set.
LEMMA MinIs ==
  ASSUME NEW S \in SUBSET Int, NEW m \in S, \A k \in S : m <= k
  PROVE  Min(S) = m
<1>1. PICK n : n = Min(S)
  OBVIOUS
<1>2. n \in S /\ \A k \in S : n <= k
  <2>1. n = CHOOSE x \in S : \A y \in S : x <= y
    BY <1>1, Zenon DEF Min
  <2> QED
    BY <2>1
<1>3. n <= m /\ m <= n
  BY <1>2
<1>4. n \in Int /\ m \in Int
  BY <1>2
<1>5. n = m
  BY <1>3, <1>4
<1> QED
  BY <1>1, <1>5

\* The larger of zero and a number.
LEMMA ClampedIs ==
  ASSUME NEW n \in Int
  PROVE  Max({0, n}) = IF n >= 0 THEN n ELSE 0
<1>1. PICK m : m = Max({0, n})
  OBVIOUS
<1>2. m \in {0, n} /\ \A k \in {0, n} : m >= k
  <2>1. m = CHOOSE x \in {0, n} : \A y \in {0, n} : x >= y
    BY <1>1, Zenon DEF Max
  <2> QED
    BY <2>1
<1> QED
  BY <1>1, <1>2

\* The ends of a running clock's level lo, which ends at x, and of those after it.
AreEnds(f, lo, x, g) ==
  /\ lo \in 1 .. Len(g) /\ x \in Int
  /\ f \in [lo .. Len(g) -> Int] /\ Ends(f, lo, Len(g), x, g)

\* At that time they are all over.
AllOver(f, lo, hi, time) == \A k \in lo .. hi : f[k] < time

\* Level m is the first that lasts.
FirstToLast(f, lo, hi, time, m) ==
  m \in lo .. hi /\ f[m] >= time /\ \A k \in lo .. hi : k < m => f[k] < time

\* What advanceClockToNow makes of a running clock: the first level that lasts, at its end.
LEMMA AdvanceIs ==
  ASSUME NEW g \in Seq(Durations), NEW lo, NEW x, NEW f, AreEnds(f, lo, x, g), NEW t \in Int
  PROVE  /\ AllOver(f, lo, Len(g), t) => Advance(Running(lo, x), g, t) = Finished(Len(g))
         /\ \A m : FirstToLast(f, lo, Len(g), t, m) =>
                     Advance(Running(lo, x), g, t) = Running(m, f[m])
<1>0. /\ lo \in 1 .. Len(g) /\ x \in Int
      /\ f \in [lo .. Len(g) -> Int] /\ Ends(f, lo, Len(g), x, g)
  BY DEF AreEnds
<1>1. PICK c, hi, end : c = Running(lo, x) /\ hi = Len(g) /\ end = CHOOSE h : Ends(h, lo, hi, x, g)
  OBVIOUS
<1>2. /\ c.status = "RUNNING" /\ c.level = lo /\ c.ends = x
  BY <1>1 DEF Running, Clock
<1>3. lo \in Nat /\ hi \in Nat /\ lo <= hi /\ lo \in DOMAIN g
  BY <1>0, <1>1
<1>4. end = f
  <2>1. Ends(f, lo, hi, x, g)
    BY <1>0, <1>1
  <2>2. Ends(end, lo, hi, x, g)
    BY <1>1, <2>1, Zenon
  <2> QED
    BY <1>3, <2>1, <2>2, EndsUnique
<1>5. PICK lasting : lasting = {k \in lo .. hi : f[k] >= t}
  OBVIOUS
<1>6. Advance(c, g, t) = IF x >= t THEN c
                         ELSE IF lasting = {} THEN Finished(hi)
                         ELSE Running(Min(lasting), f[Min(lasting)])
  <2>1. Advance(c, g, t) =
           IF c.status # "RUNNING" \/ c.level \notin DOMAIN g \/ c.ends >= t THEN c
           ELSE LET e == CHOOSE h : Ends(h, c.level, Len(g), c.ends, g)
                    ll == {k \in c.level .. Len(g) : e[k] >= t}
                IN  IF ll = {} THEN Finished(Len(g)) ELSE Running(Min(ll), e[Min(ll)])
    BY AdvanceUnfolds
  <2>2. Advance(c, g, t) =
           IF c.status # "RUNNING" \/ c.level \notin DOMAIN g \/ c.ends >= t THEN c
           ELSE LET ll == {k \in lo .. hi : end[k] >= t}
                IN  IF ll = {} THEN Finished(hi) ELSE Running(Min(ll), end[Min(ll)])
    BY <1>1, <1>2, <2>1, Zenon
  <2>3. Advance(c, g, t) =
           IF c.status # "RUNNING" \/ c.level \notin DOMAIN g \/ c.ends >= t THEN c
           ELSE IF lasting = {} THEN Finished(hi) ELSE Running(Min(lasting), f[Min(lasting)])
    BY <1>4, <1>5, <2>2, Zenon
  <2> QED
    BY <1>2, <1>3, <2>3, Zenon
<1>7. f[lo] = x
  <2>1. f = [k \in lo .. hi |-> IF k = lo THEN x ELSE f[k - 1] + g[k]]
    BY <1>0, <1>1, Zenon DEF Ends
  <2>2. lo \in lo .. hi
    BY <1>3
  <2> QED
    BY <2>1, <2>2, Zenon
<1>8. ASSUME AllOver(f, lo, hi, t)
      PROVE  Advance(c, g, t) = Finished(hi)
  <2>0. \A k \in lo .. hi : f[k] < t /\ f[k] \in Int
    BY <1>0, <1>1, <1>8 DEF AllOver
  <2>1. f[lo] < t /\ lasting = {}
    BY <1>3, <1>5, <2>0
  <2> QED
    BY <1>0, <1>6, <1>7, <2>1
<1>9. ASSUME NEW m, FirstToLast(f, lo, hi, t, m)
      PROVE  Advance(c, g, t) = Running(m, f[m])
  <2>0. m \in lo .. hi /\ f[m] >= t /\ \A k \in lo .. hi : k < m => f[k] < t
    BY <1>9 DEF FirstToLast
  <2>1. CASE x >= t
    <3>1. m = lo
      <4>1. lo < m => f[lo] < t
        BY <1>3, <2>0
      <4> QED
        BY <1>0, <1>3, <1>7, <2>0, <4>1, <2>1
    <3> QED
      BY <1>1, <1>6, <1>7, <2>1, <3>1
  <2>2. CASE ~(x >= t)
    <3>1. lasting \in SUBSET Int /\ m \in lasting
      BY <1>3, <1>5, <2>0
    <3>2. \A k \in lasting : m <= k
      <4> SUFFICES ASSUME NEW k \in lasting PROVE m <= k
        OBVIOUS
      <4>1. k \in lo .. hi /\ f[k] >= t /\ f[k] \in Int /\ k \in Int /\ m \in Int
        BY <1>0, <1>1, <1>3, <1>5, <2>0
      <4>2. ~(k < m)
        BY <2>0, <4>1
      <4> QED
        BY <4>1, <4>2
    <3>3. Min(lasting) = m /\ lasting # {}
      BY <3>1, <3>2, MinIs
    <3> QED
      BY <1>6, <2>2, <3>3
  <2> QED
    BY <2>1, <2>2
<1> QED
  BY <1>1, <1>8, <1>9

-----------------------------------------------------------------------------
(* The rows a clock can be.                                                *)

NotStarted == Clock("NOT_STARTED", None, None, None)

\* A row of columns as the CHECK tournaments_clock_state_coherent has them.
IsRow(c) ==
  \/ c = NotStarted
  \/ \E level \in Nat, ends \in Int : c = Running(level, ends)
  \/ \E level \in Nat, left \in Nat : c = Paused(level, left)
  \/ \E level \in Nat : c = Finished(level)

\* The level that is played is one of the grid's.
Fits(c, g) == Ticking(c) => c.level \in DOMAIN g

\* And has not ended.
UpToDate(c, g, time) == Fits(c, g) /\ (c.status = "RUNNING" => c.ends >= time)

\* The columns of each row.
LEMMA Columns ==
  /\ NotStarted.status = "NOT_STARTED" /\ NotStarted.level = None
  /\ NotStarted.ends = None /\ NotStarted.left = None
  /\ \A level, ends : /\ Running(level, ends).status = "RUNNING"
                      /\ Running(level, ends).level = level
                      /\ Running(level, ends).ends = ends /\ Running(level, ends).left = None
  /\ \A level, left : /\ Paused(level, left).status = "PAUSED"
                      /\ Paused(level, left).level = level
                      /\ Paused(level, left).ends = None /\ Paused(level, left).left = left
  /\ \A level : /\ Finished(level).status = "FINISHED" /\ Finished(level).level = level
                /\ Finished(level).ends = None /\ Finished(level).left = None
BY DEF NotStarted, Running, Paused, Finished, Clock

\* The durations are positive.
LEMMA Positive ==
  ASSUME NEW g \in Seq(Durations)
  PROVE  /\ Len(g) \in Nat /\ DOMAIN g = 1 .. Len(g)
         /\ \A k \in 1 .. Len(g) : g[k] \in Durations /\ g[k] \in Nat \ {0}
<1>1. Len(g) \in Nat /\ DOMAIN g = 1 .. Len(g)
  OBVIOUS
<1>2. \A k \in 1 .. Len(g) : g[k] \in Durations
  OBVIOUS
<1>3. Durations \subseteq Nat \ {0}
  BY ClockConstants
<1> QED
  BY <1>1, <1>2, <1>3

\* The ends of the levels of a running clock.
LEMMA EndsOf ==
  ASSUME NEW g \in Seq(Durations), NEW lo \in DOMAIN g, NEW x \in Int
  PROVE  \E f : AreEnds(f, lo, x, g)
<1>1. lo \in 1 .. Len(g) /\ lo \in Nat /\ Len(g) \in Nat /\ lo <= Len(g)
  BY Positive
<1>2. \A k \in lo .. Len(g) : g[k] \in Int
  BY <1>1, Positive
<1>3. PICK f \in [lo .. Len(g) -> Int] : Ends(f, lo, Len(g), x, g)
  BY <1>1, <1>2, EndsExist
<1> QED
  BY <1>1, <1>3 DEF AreEnds

\* A running clock shows the first level that lasts, or that all are over.
LEMMA RunningShows ==
  ASSUME NEW g \in Seq(Durations), NEW lo, NEW x, NEW f, AreEnds(f, lo, x, g), NEW t \in Int
  PROVE  AllOver(f, lo, Len(g), t) \/ \E m : FirstToLast(f, lo, Len(g), t, m)
<1>0. lo \in 1 .. Len(g) /\ Len(g) \in Nat /\ f \in [lo .. Len(g) -> Int]
  BY Positive DEF AreEnds
<1>1. PICK T : T = {k \in lo .. Len(g) : f[k] >= t}
  OBVIOUS
<1>2. CASE T = {}
  <2>1. \A k \in lo .. Len(g) : f[k] < t
    BY <1>0, <1>1, <1>2
  <2> QED
    BY <2>1 DEF AllOver
<1>3. CASE T # {}
  <2>1. T \in SUBSET Nat
    BY <1>0, <1>1
  <2>2. PICK m \in T : \A k \in T : m <= k
    BY <1>3, <2>1, LeastNatural
  <2>3. m \in lo .. Len(g) /\ f[m] >= t
    BY <1>1, <2>2
  <2>4. \A k \in lo .. Len(g) : k < m => f[k] < t
    BY <1>0, <1>1, <2>2
  <2> QED
    BY <2>3, <2>4 DEF FirstToLast
<1> QED
  BY <1>2, <1>3

\* A clock that does not run, or has lost its level, or whose level lasts, is as it was.
LEMMA AdvanceKeeps ==
  ASSUME NEW c, NEW g, NEW t, c.status # "RUNNING" \/ c.level \notin DOMAIN g \/ c.ends >= t
  PROVE  Advance(c, g, t) = c
BY AdvanceUnfolds, Zenon

\* advanceClockToNow makes a row of a row, and that row is up to date.
LEMMA AdvanceRow ==
  ASSUME NEW c, IsRow(c), NEW g \in Seq(Durations), NEW t \in Int
  PROVE  /\ IsRow(Advance(c, g, t))
         /\ Fits(c, g) => UpToDate(Advance(c, g, t), g, t)
<1>1. CASE c.status # "RUNNING"
  BY <1>1, AdvanceKeeps DEF UpToDate
<1>2. CASE c.status = "RUNNING"
  <2>1. PICK lo \in Nat, x \in Int : c = Running(lo, x)
    BY <1>2, Columns DEF IsRow
  <2>2. c.level = lo /\ c.ends = x
    BY <2>1, Columns
  <2>3. CASE lo \notin DOMAIN g
    BY <1>2, <2>2, <2>3, AdvanceKeeps DEF Fits, Ticking
  <2>4. CASE lo \in DOMAIN g
    <3>1. PICK f : AreEnds(f, lo, x, g)
      BY <2>4, EndsOf
    <3>2. CASE AllOver(f, lo, Len(g), t)
      <4>1. Len(g) \in Nat /\ Advance(c, g, t) = Finished(Len(g))
        BY <2>1, <3>1, <3>2, AdvanceIs
      <4> QED
        BY <4>1, Columns DEF IsRow, UpToDate, Fits, Ticking
    <3>3. CASE \E m : FirstToLast(f, lo, Len(g), t, m)
      <4>1. PICK m : FirstToLast(f, lo, Len(g), t, m)
        BY <3>3
      <4>2. Advance(c, g, t) = Running(m, f[m])
        BY <2>1, <3>1, <4>1, AdvanceIs
      <4>3. m \in Nat /\ m \in DOMAIN g /\ f[m] \in Int /\ f[m] >= t
        BY <3>1, <4>1, Positive DEF AreEnds, FirstToLast
      <4> QED
        BY <4>2, <4>3, Columns DEF IsRow, UpToDate, Fits
    <3> QED
      BY <3>1, <3>2, <3>3, RunningShows
  <2> QED
    BY <2>3, <2>4
<1> QED
  BY <1>1, <1>2

\* What a command accepts.
LEMMA PlanCases ==
  ASSUME NEW q, Asked(q), NEW c, NEW g \in Seq(Durations), NEW t, ~PlanOf(q, c, g, t).refused
  PROVE
    LET made == PlanOf(q, c, g, t)
    IN  \/ /\ q.op = "start" /\ c.status = "NOT_STARTED" /\ g # <<>>
           /\ made = Accept(Running(1, t + g[1]), g)
        \/ /\ q.op = "pause" /\ c.status = "RUNNING"
           /\ made = Accept(Paused(c.level, Clamped(c.ends - t)), g)
        \/ /\ q.op = "resume" /\ c.status = "PAUSED"
           /\ made = Accept(Running(c.level, t + c.left), g)
        \/ \E direction \in {-1, 1} :
             /\ q.op # "edit" /\ Ticking(c) /\ c.level \in DOMAIN g
             /\ \/ /\ c.level + direction \in DOMAIN g
                   /\ made = Accept(Entering(c, g, c.level + direction, t), g)
                \/ /\ direction = 1 /\ c.level + 1 \notin DOMAIN g
                   /\ made = Accept(Finished(c.level), g)
        \/ /\ q.op = "edit" /\ q.level \in DOMAIN g /\ q.duration \in Durations
           /\ made = PlanEdit(c, g, q.level, q.duration, t)
<1> DEFINE made == PlanOf(q, c, g, t)
<1>0. Refusal.refused
  BY DEF Refusal
<1>1. CASE q.op = "start"
  BY <1>0, <1>1 DEF PlanOf, PlanStart
<1>2. CASE q.op = "pause"
  BY <1>0, <1>2 DEF PlanOf, PlanPause
<1>3. CASE q.op = "resume"
  BY <1>0, <1>3 DEF PlanOf, PlanResume
<1>4. CASE q.op = "next"
  <2>1. made = PlanStep(c, g, 1, t)
    BY <1>4 DEF PlanOf
  <2>2. /\ Ticking(c) /\ c.level \in DOMAIN g
        /\ \/ /\ c.level + 1 \in DOMAIN g
              /\ made = Accept(Entering(c, g, c.level + 1, t), g)
           \/ /\ c.level + 1 \notin DOMAIN g
              /\ made = Accept(Finished(c.level), g)
    BY <1>0, <2>1 DEF PlanStep
  <2> QED
    BY <1>4, <2>2
<1>5. CASE q.op = "previous"
  <2>1. made = PlanStep(c, g, -1, t)
    BY <1>5 DEF PlanOf
  <2>2. /\ Ticking(c) /\ c.level \in DOMAIN g
        /\ c.level + (-1) \in DOMAIN g
        /\ made = Accept(Entering(c, g, c.level + (-1), t), g)
    BY <1>0, <2>1 DEF PlanStep
  <2> QED
    BY <1>5, <2>2
<1>6. CASE q.op = "edit"
  <2>1. made = PlanEdit(c, g, q.level, q.duration, t)
    BY <1>6 DEF PlanOf
  <2> QED
    BY <1>0, <1>6, <2>1 DEF PlanEdit, Asked
<1> QED
  BY <1>1, <1>2, <1>3, <1>4, <1>5, <1>6 DEF Asked, Operations

\* An edit of level n to duration d makes made of the clock c.
Edited(made, c, g, n, d) ==
  /\ made.durations = [g EXCEPT ![n] = d]
  /\ \/ made.clock = c /\ (c.level # n \/ d = g[n] \/ ~Ticking(c))
     \/ \E x \in Int : c = Running(n, x) /\ made.clock = Running(n, x + (d - g[n]))
     \/ \E left \in Nat : c = Paused(n, left)
                          /\ made.clock = Paused(n, Clamped(left + (d - g[n])))

\* What an edit accepts.
LEMMA EditMakes ==
  ASSUME NEW c, IsRow(c), NEW g \in Seq(Durations), NEW t
  PROVE  \A n \in DOMAIN g, d \in Durations : Edited(PlanEdit(c, g, n, d, t), c, g, n, d)
<1> SUFFICES ASSUME NEW n \in DOMAIN g, NEW d \in Durations
             PROVE  Edited(PlanEdit(c, g, n, d, t), c, g, n, d)
  OBVIOUS
<1>1. PICK made, longer : made = PlanEdit(c, g, n, d, t) /\ longer = [g EXCEPT ![n] = d]
  OBVIOUS
<1>0. d \in Int /\ g[n] \in Int
  BY Positive, ClockConstants
<1>2. \A e, h : Accept(e, h).clock = e /\ Accept(e, h).durations = h
  BY DEF Accept
<1>4. CASE c.level # n \/ d - g[n] = 0 \/ ~Ticking(c)
  <2>1. made = Accept(c, longer)
    BY <1>1, <1>4 DEF PlanEdit
  <2>2. made.clock = c /\ made.durations = longer
    BY <1>2, <2>1
  <2> QED
    BY <1>0, <1>1, <1>4, <2>2 DEF Edited
<1>5. CASE ~(c.level # n \/ d - g[n] = 0 \/ ~Ticking(c)) /\ c.status = "RUNNING"
  <2>1. PICK x \in Int : c = Running(n, x)
    BY <1>5, Columns DEF IsRow
  <2>2. c.ends = x
    BY <2>1, Columns
  <2>3. made = Accept(Running(n, x + (d - g[n])), longer)
    BY <1>1, <1>5, <2>2 DEF PlanEdit, MovedEnd
  <2>4. made.clock = Running(n, x + (d - g[n])) /\ made.durations = longer
    BY <1>2, <2>3
  <2> QED
    BY <1>1, <2>1, <2>4 DEF Edited
<1>6. CASE ~(c.level # n \/ d - g[n] = 0 \/ ~Ticking(c)) /\ c.status = "PAUSED"
  <2>1. PICK left \in Nat : c = Paused(n, left)
    BY <1>6, Columns DEF IsRow
  <2>2. c.left = left /\ c.status # "RUNNING"
    BY <2>1, Columns
  <2>3. made = Accept(Paused(n, Clamped(left + (d - g[n]))), longer)
    BY <1>1, <1>6, <2>2 DEF PlanEdit, MovedEnd
  <2>4. made.clock = Paused(n, Clamped(left + (d - g[n]))) /\ made.durations = longer
    BY <1>2, <2>3
  <2> QED
    BY <1>1, <2>1, <2>4 DEF Edited
<1> QED
  BY <1>4, <1>5, <1>6 DEF Ticking

\* What is left is never less than nothing.
LEMMA ClampedNat ==
  ASSUME NEW n \in Int
  PROVE  Clamped(n) \in Nat /\ Clamped(n) = IF n >= 0 THEN n ELSE 0
BY ClampedIs DEF Clamped

\* A command makes a row of a row.
LEMMA PlanRow ==
  ASSUME NEW q, Asked(q), NEW c, IsRow(c), NEW g \in Seq(Durations), NEW t \in Int,
         ~PlanOf(q, c, g, t).refused
  PROVE  /\ IsRow(PlanOf(q, c, g, t).clock)
         /\ Fits(c, g) => Fits(PlanOf(q, c, g, t).clock, PlanOf(q, c, g, t).durations)
<1> DEFINE made == PlanOf(q, c, g, t)
<1>0. \A e, h : Accept(e, h).clock = e /\ Accept(e, h).durations = h
  BY DEF Accept
<1>1. CASE c.status = "NOT_STARTED" /\ g # <<>> /\ made = Accept(Running(1, t + g[1]), g)
  <2>1. 1 \in DOMAIN g /\ g[1] \in Int
    BY <1>1, Positive
  <2>2. t + g[1] \in Int /\ 1 \in Nat
    BY <2>1
  <2> HIDE DEF made
  <2>3. made.clock = Running(1, t + g[1]) /\ made.durations = g
    BY <1>0, <1>1
  <2>4. IsRow(made.clock) /\ made.clock.level = 1
    BY <2>2, <2>3, Columns DEF IsRow
  <2> QED
    BY <2>1, <2>3, <2>4 DEF Fits, made
<1>2. CASE c.status = "RUNNING" /\ made = Accept(Paused(c.level, Clamped(c.ends - t)), g)
  <2>1. PICK level \in Nat, ends \in Int : c = Running(level, ends)
    BY <1>2, Columns DEF IsRow
  <2>2. c.level = level /\ c.ends = ends
    BY <2>1, Columns
  <2>3. ends - t \in Int /\ Clamped(ends - t) \in Nat
    BY ClampedNat
  <2> HIDE DEF made
  <2>4. made.clock = Paused(level, Clamped(ends - t)) /\ made.durations = g
    BY <1>0, <1>2, <2>2
  <2>5. IsRow(made.clock) /\ made.clock.level = c.level /\ Ticking(c)
    BY <1>2, <2>2, <2>3, <2>4, Columns DEF IsRow, Ticking
  <2> QED
    BY <2>4, <2>5 DEF Fits, made
<1>3. CASE c.status = "PAUSED" /\ made = Accept(Running(c.level, t + c.left), g)
  <2>1. PICK level \in Nat, left \in Nat : c = Paused(level, left)
    BY <1>3, Columns DEF IsRow
  <2>2. c.level = level /\ c.left = left
    BY <2>1, Columns
  <2>3. t + left \in Int
    OBVIOUS
  <2> HIDE DEF made
  <2>4. made.clock = Running(level, t + left) /\ made.durations = g
    BY <1>0, <1>3, <2>2
  <2>5. IsRow(made.clock) /\ made.clock.level = c.level /\ Ticking(c)
    BY <1>3, <2>2, <2>3, <2>4, Columns DEF IsRow, Ticking
  <2> QED
    BY <2>4, <2>5 DEF Fits, made
<1>4. CASE \E n \in DOMAIN g : made = Accept(Entering(c, g, n, t), g)
  <2>1. PICK n \in DOMAIN g : made = Accept(Entering(c, g, n, t), g)
    BY <1>4
  <2>2. n \in Nat /\ g[n] \in Nat /\ t + g[n] \in Int
    BY Positive
  <2> HIDE DEF made
  <2>3. made.clock = Entering(c, g, n, t) /\ made.durations = g
    BY <1>0, <2>1
  <2>4. Entering(c, g, n, t) = Running(n, t + g[n]) \/ Entering(c, g, n, t) = Paused(n, g[n])
    BY DEF Entering
  <2>5. IsRow(made.clock) /\ made.clock.level = n
    BY <2>2, <2>3, <2>4, Columns DEF IsRow
  <2> QED
    BY <2>3, <2>5 DEF Fits, made
<1>5. CASE c.level \in DOMAIN g /\ made = Accept(Finished(c.level), g)
  <2>1. c.level \in Nat
    BY <1>5, Positive
  <2> HIDE DEF made
  <2>2. made.clock = Finished(c.level)
    BY <1>0, <1>5
  <2>3. IsRow(made.clock) /\ ~Ticking(made.clock)
    BY <2>1, <2>2, Columns DEF IsRow, Ticking
  <2> QED
    BY <2>3 DEF Fits, made
<1>6. CASE /\ q.level \in DOMAIN g /\ q.duration \in Durations
           /\ made = PlanEdit(c, g, q.level, q.duration, t)
  <2>1. PICK n, d, longer : n = q.level /\ d = q.duration /\ longer = [g EXCEPT ![n] = d]
    OBVIOUS
  <2>2. n \in Nat /\ n \in DOMAIN g /\ d \in Int /\ g[n] \in Int /\ DOMAIN longer = DOMAIN g
    BY <1>6, <2>1, Positive, ClockConstants, SMTT(30)
  <2> HIDE DEF made
  <2>a. made = PlanEdit(c, g, n, d, t) /\ d \in Durations
    BY <1>6, <2>1
  <2>b. Edited(made, c, g, n, d)
    BY <2>2, <2>a, EditMakes
  <2>3. /\ made.durations = longer
        /\ \/ made.clock = c
           \/ \E x \in Int : c = Running(n, x) /\ made.clock = Running(n, x + (d - g[n]))
           \/ \E left \in Nat : c = Paused(n, left)
                                /\ made.clock = Paused(n, Clamped(left + (d - g[n])))
    BY <2>1, <2>b, Zenon DEF Edited
  <2>4. \/ made.clock = c
        \/ \E x \in Int : made.clock = Running(n, x)
        \/ \E left \in Nat : made.clock = Paused(n, left)
    <3>1. \A x \in Int : x + (d - g[n]) \in Int
      BY <2>2
    <3>2. \A x \in Nat : Clamped(x + (d - g[n])) \in Nat
      BY <3>1, ClampedNat
    <3> QED
      BY <2>3, <3>1, <3>2, Zenon
  <2>5. IsRow(made.clock) /\ (made.clock = c \/ made.clock.level = n)
    BY <2>2, <2>4, Columns DEF IsRow
  <2> QED
    BY <2>2, <2>3, <2>5 DEF Fits, made
<1> QED
  BY <1>1, <1>2, <1>3, <1>4, <1>5, <1>6, PlanCases

-----------------------------------------------------------------------------
(* Types.                                                                  *)

\* The clock is a row, and the bounds hold.
RowSound == IsRow(clock) /\ version <= MaxVersion /\ now <= MaxTime

\* What a command makes of a row is one.
LEMMA FollowsRow ==
  ASSUME IInv, RowSound, NEW time \in Int, NEW plan, NEW durations,
         FollowsAt(time, plan, durations)
  PROVE  IsRow(plan) /\ (Fits(clock, grid) => Fits(plan, durations))
<1>1. PICK o \in Commands :
        LET made == PlanOf(o, Advance(clock, grid, time), grid, time)
        IN  ~made.refused /\ plan = made.clock /\ durations = made.durations
  BY DEF FollowsAt
<1>2. Asked(o)
  BY CommandsAsked DEF IInv
<1>3. PICK c : c = Advance(clock, grid, time)
  OBVIOUS
<1>4. IsRow(c) /\ (Fits(clock, grid) => Fits(c, grid))
  BY <1>3, AdvanceRow DEF IInv, RowSound, UpToDate
<1>5. /\ ~PlanOf(o, c, grid, time).refused
      /\ plan = PlanOf(o, c, grid, time).clock /\ durations = PlanOf(o, c, grid, time).durations
  BY <1>1, <1>3
<1> QED
  BY <1>2, <1>4, <1>5, PlanRow DEF IInv

\* Whatever is written is a row.
LEMMA RowKept ==
  ASSUME IInv, RowSound, [Next]_vars
  PROVE  RowSound'
<1>1. version' <= MaxVersion /\ now' <= MaxTime
  <2>1. version \in Nat /\ now \in Nat /\ version <= MaxVersion /\ now <= MaxTime
    BY DEF IInv, RowSound
  <2>2. /\ version' = version \/ (version < MaxVersion /\ version' = version + 1)
        /\ now' = now \/ (now < MaxTime /\ now' = now + 1)
    <3>1. CASE UNCHANGED vars
      BY <3>1 DEF vars
    <3>2. CASE TimePasses
      BY <3>2 DEF TimePasses
    <3>3. CASE Register \/ Unregister
      BY <3>3 DEF Register, Unregister
    <3>4. ASSUME NEW r \in Reqs, Write(r) \/ ApplyUpdate(r)
          PROVE  version < MaxVersion /\ version' = version + 1 /\ now' = now
      BY <3>4 DEF Write, ApplyUpdate
    <3>5. ASSUME NEW r \in Reqs,
                 Command(r) \/ PlanAgain(r) \/ WriteAgain(r) \/ AskUpdate(r) \/ Fail(r)
          PROVE  version' = version /\ now' = now
      BY <3>5 DEF Command, PlanAgain, WriteAgain, AskUpdate, Fail
    <3> QED
      BY <3>1, <3>2, <3>3, <3>4, <3>5 DEF Next
  <2> QED
    BY <2>1, <2>2, ClockConstants
<1>2. CASE clock' # clock
  <2>1. PICK time \in 0 .. now : FollowsAt(time, clock', grid')
    BY <1>2, OnlyWrites DEF Follows
  <2>2. IsRow(clock')
    BY <2>1, FollowsRow DEF IInv
  <2> QED
    BY <1>1, <2>2 DEF RowSound
<1>3. CASE clock' = clock
  BY <1>1, <1>3 DEF RowSound
<1> QED
  BY <1>2, <1>3

\* A row has the columns it should.
LEMMA RowTyped ==
  ASSUME NEW c, IsRow(c)
  PROVE  /\ c \in ClockRows
         /\ (c.ends # None) <=> (c.status = "RUNNING")
         /\ (c.left # None) <=> (c.status = "PAUSED")
<1>1. None \notin Int
  BY ClockConstants
<1>2. CASE c = NotStarted
  BY <1>2, Columns DEF NotStarted, Clock, ClockRows
<1>3. CASE \E level \in Nat, ends \in Int : c = Running(level, ends)
  BY <1>1, <1>3, Columns DEF Running, Clock, ClockRows
<1>4. CASE \E level \in Nat, left \in Nat : c = Paused(level, left)
  BY <1>1, <1>4, Columns DEF Paused, Clock, ClockRows
<1>5. CASE \E level \in Nat : c = Finished(level)
  BY <1>1, <1>5, Columns DEF Finished, Clock, ClockRows
<1> QED
  BY <1>2, <1>3, <1>4, <1>5 DEF IsRow

\* The clock has not started.
LEMMA RowInitially == Init => RowSound
<1> SUFFICES ASSUME Init
             PROVE  RowSound
  OBVIOUS
<1>1. IsRow(clock)
  BY DEF Init, IsRow, NotStarted
<1> QED
  BY <1>1, ClockConstants DEF Init, RowSound

\* Types, and the columns the CHECK tournaments_clock_state_coherent asks for.
LEMMA SoundTyped == IInv /\ RowSound => TypeOK
BY RowTyped, ClockConstants DEF IInv, RowSound, TypeOK

\* Whoever has the clock running knows its end, whoever paused it what was left of the
\* level (the CHECK tournaments_clock_state_coherent).
THEOREM ClockIsCoherent == Spec => []TypeOK
<1>1. Init => IInv /\ RowSound
  BY Initially, RowInitially
<1>2. IInv /\ RowSound /\ [Next]_vars => IInv' /\ RowSound'
  BY EveryStep, RowKept
<1>3. IInv /\ RowSound => TypeOK
  BY SoundTyped
<1> QED
  BY <1>1, <1>2, <1>3, PTL DEF Spec

-----------------------------------------------------------------------------
(* The clock that counts down by itself.                                   *)

\* One second later a clock that runs shows a second less of the level, or the first
\* second of the next one, or that the last one is over.
LEMMA SecondLater ==
  ASSUME NEW g \in Seq(Durations), NEW lo \in DOMAIN g, NEW x \in Int, NEW t \in Int
  PROVE
    LET shown == Advance(Running(lo, x), g, t)
        later == Advance(Running(lo, x), g, t + 1)
    IN  \/ shown = later /\ shown = Finished(Len(g))
        \/ \E m \in DOMAIN g, e \in Int : e > t /\ shown = Running(m, e) /\ later = shown
        \/ shown = Running(Len(g), t) /\ later = Finished(Len(g))
        \/ \E m \in DOMAIN g : /\ m < Len(g) /\ shown = Running(m, t)
                               /\ later = Running(m + 1, t + g[m + 1])
<1>1. PICK hi, c : hi = Len(g) /\ c = Running(lo, x)
  OBVIOUS
<1>2. hi \in Nat /\ DOMAIN g = 1 .. hi /\ lo \in 1 .. hi /\ \A k \in 1 .. hi : g[k] \in Nat \ {0}
  BY <1>1, Positive
<1>3. PICK f : AreEnds(f, lo, x, g)
  BY EndsOf
<1>a. f \in [lo .. hi -> Int] /\ Ends(f, lo, hi, x, g)
  BY <1>1, <1>3 DEF AreEnds
<1>4. \A m \in lo .. hi : m < hi => f[m + 1] = f[m] + g[m + 1]
  <2> SUFFICES ASSUME NEW m \in lo .. hi, m < hi
               PROVE  f[m + 1] = f[m] + g[m + 1]
    OBVIOUS
  <2>1. PICK k : k = m + 1
    OBVIOUS
  <2>2. k \in lo .. hi /\ k # lo /\ k - 1 = m
    BY <1>2, <2>1
  <2>3. f = [j \in lo .. hi |-> IF j = lo THEN x ELSE f[j - 1] + g[j]]
    BY <1>a, Zenon DEF Ends
  <2>4. f[k] = f[k - 1] + g[k]
    BY <2>2, <2>3, Zenon
  <2> QED
    BY <2>1, <2>2, <2>4
<1>5. \A s \in Int :
        /\ AllOver(f, lo, hi, s) => Advance(c, g, s) = Finished(hi)
        /\ \A m : FirstToLast(f, lo, hi, s, m) => Advance(c, g, s) = Running(m, f[m])
  BY <1>1, <1>3, AdvanceIs
<1>6. AllOver(f, lo, hi, t) \/ \E m : FirstToLast(f, lo, hi, t, m)
  BY <1>1, <1>3, RunningShows
<1>7. t + 1 \in Int
  OBVIOUS
<1>8. CASE AllOver(f, lo, hi, t)
  <2>1. \A k \in lo .. hi : f[k] < t + 1
    BY <1>2, <1>a, <1>8, SMTT(30) DEF AllOver
  <2>2. AllOver(f, lo, hi, t + 1)
    BY <2>1 DEF AllOver
  <2> QED
    BY <1>1, <1>5, <1>7, <1>8, <2>2
<1>9. ASSUME NEW m, FirstToLast(f, lo, hi, t, m)
      PROVE  \/ \E n \in DOMAIN g, e \in Int : /\ e > t /\ Advance(c, g, t) = Running(n, e)
                                               /\ Advance(c, g, t + 1) = Advance(c, g, t)
             \/ Advance(c, g, t) = Running(hi, t) /\ Advance(c, g, t + 1) = Finished(hi)
             \/ \E n \in DOMAIN g : /\ n < hi /\ Advance(c, g, t) = Running(n, t)
                                    /\ Advance(c, g, t + 1) = Running(n + 1, t + g[n + 1])
  <2>a. Advance(c, g, t) = Running(m, f[m])
    BY <1>5, <1>9
  <2>b. m \in lo .. hi /\ f[m] >= t /\ \A k \in lo .. hi : k < m => f[k] < t
    BY <1>9 DEF FirstToLast
  <2>0. m \in DOMAIN g /\ m \in Int /\ f[m] \in Int
    BY <1>2, <1>a, <2>b
  <2>1. CASE f[m] > t
    <3>a. \A k \in lo .. hi : f[k] \in Int
      BY <1>a
    <3>1. f[m] >= t + 1 /\ \A k \in lo .. hi : k < m => f[k] < t + 1
      BY <2>0, <2>1, <2>b, <3>a
    <3>2. FirstToLast(f, lo, hi, t + 1, m)
      BY <2>b, <3>1 DEF FirstToLast
    <3>3. Advance(c, g, t + 1) = Running(m, f[m])
      BY <1>5, <1>7, <3>2
    <3> QED
      BY <2>0, <2>1, <2>a, <3>3
  <2>2. CASE f[m] = t /\ m = hi
    <3>1. \A k \in lo .. hi : f[k] < t + 1
      <4> SUFFICES ASSUME NEW k \in lo .. hi PROVE f[k] < t + 1
        OBVIOUS
      <4>1. f[k] \in Int /\ (k < m \/ k = m)
        BY <1>2, <1>a, <2>2
      <4> QED
        BY <2>2, <2>b, <4>1
    <3>2. Advance(c, g, t + 1) = Finished(hi)
      BY <1>5, <1>7, <3>1 DEF AllOver
    <3> QED
      BY <2>2, <2>a, <3>2
  <2>3. CASE f[m] = t /\ m < hi
    <3>1. PICK n : n = m + 1
      OBVIOUS
    <3>2. n \in lo .. hi /\ f[n] = t + g[n]
      BY <1>2, <1>4, <2>3, <2>b, <3>1
    <3>3. f[n] >= t + 1
      BY <1>2, <3>2
    <3>4. \A k \in lo .. hi : k < n => f[k] < t + 1
      <4> SUFFICES ASSUME NEW k \in lo .. hi, k < n PROVE f[k] < t + 1
        OBVIOUS
      <4>1. k \in Int /\ f[k] \in Int /\ (k < m \/ k = m)
        BY <1>2, <1>a, <2>0, <3>1, SMTT(30)
      <4> QED
        BY <2>3, <2>b, <4>1
    <3>5. FirstToLast(f, lo, hi, t + 1, n)
      BY <3>2, <3>3, <3>4 DEF FirstToLast
    <3>6. Advance(c, g, t + 1) = Running(n, f[n])
      BY <1>5, <1>7, <3>5
    <3> QED
      BY <2>0, <2>3, <2>a, <3>1, <3>2, <3>6
  <2> QED
    BY <1>2, <1>a, <2>0, <2>1, <2>2, <2>3, <2>b
<1> QED
  BY <1>1, <1>6, <1>8, <1>9

\* The level that is shown, and what is left of it.
LevelOf(c) == IF c.level = None THEN 0 ELSE c.level
LeftOf(c, time) ==
  CASE c.status = "RUNNING" -> Max({0, c.ends - time})
    [] c.status = "PAUSED" -> c.left
    [] OTHER -> 0

\* For each kind of row.
LEMMA RunningLooks ==
  ASSUME NEW m \in Int, NEW e \in Int, NEW t \in Int, e >= t
  PROVE  LevelOf(Running(m, e)) = m /\ LeftOf(Running(m, e), t) = e - t
<1>1. LeftOf(Running(m, e), t) = Max({0, e - t})
  <2>1. PICK c : c = Running(m, e)
    OBVIOUS
  <2>2. c.status = "RUNNING" /\ c.ends = e
    BY <2>1, Columns
  <2>3. LeftOf(c, t) = Max({0, c.ends - t})
    BY <2>2 DEF LeftOf
  <2>4. c.ends - t = e - t
    BY <2>2
  <2> QED
    BY <2>1, <2>3, <2>4, Zenon
<1>2. Max({0, e - t}) = IF e - t >= 0 THEN e - t ELSE 0
  BY ClampedIs
<1> QED
  BY <1>1, <1>2, Columns, ClockConstants DEF LevelOf

LEMMA PausedLooks ==
  ASSUME NEW m \in Int, NEW l, NEW t
  PROVE  LevelOf(Paused(m, l)) = m /\ LeftOf(Paused(m, l), t) = l
BY Columns, ClockConstants DEF LevelOf, LeftOf

LEMMA FinishedLooks ==
  ASSUME NEW m \in Int, NEW t
  PROVE  LevelOf(Finished(m)) = m /\ LeftOf(Finished(m), t) = 0
BY Columns, ClockConstants DEF LevelOf, LeftOf

LEMMA NotStartedLooks ==
  ASSUME NEW t
  PROVE  LevelOf(NotStarted) = 0 /\ LeftOf(NotStarted, t) = 0
BY Columns DEF LevelOf, LeftOf

\* What is seen before and after a step.
LEMMA Seen ==
  /\ ~lag => /\ LiveStatus = Shown.status /\ LiveLevel = LevelOf(Shown)
             /\ LiveLeft = LeftOf(Shown, now) /\ LiveGrid = grid
  /\ ~lag' => LET c == Advance(clock', grid', now')
              IN  /\ LiveStatus' = c.status /\ LiveLevel' = LevelOf(c)
                  /\ LiveLeft' = LeftOf(c, now') /\ LiveGrid' = grid'
BY DEF LiveStatus, LiveLevel, LiveLeft, LiveGrid, LevelOf, LeftOf, Remaining, Shown

\* Requests take time, or nothing that is shown changes.
LEMMA Unseen ==
  ASSUME UNCHANGED lag, lag \/ UNCHANGED <<clock, grid, now>>
  PROVE  UNCHANGED Live!vars
BY DEF Live!vars, LiveStatus, LiveLevel, LiveLeft, LiveGrid, Remaining, Shown

\* A second passes.
LEMMA TimeLive ==
  ASSUME IInv, RowSound, Fits(clock, grid), TimePasses
  PROVE  [Live!Next]_Live!vars
<1>0. now \in Int /\ now' = now + 1 /\ UNCHANGED <<clock, grid, lag>>
  BY DEF IInv, TimePasses
<1> SUFFICES ASSUME ~lag
             PROVE  [Live!Next]_Live!vars
  BY <1>0, Unseen
<1>1. PICK c, d, t : c = Shown /\ d = Advance(clock, grid, t + 1) /\ t = now
  OBVIOUS
<1>2. /\ LiveStatus = c.status /\ LiveLevel = LevelOf(c)
      /\ LiveLeft = LeftOf(c, t) /\ LiveGrid = grid
      /\ LiveStatus' = d.status /\ LiveLevel' = LevelOf(d)
      /\ LiveLeft' = LeftOf(d, t + 1) /\ LiveGrid' = grid
  BY <1>0, <1>1, Seen
<1>3. CASE clock.status # "RUNNING"
  <2>1. c = clock /\ d = clock
    BY <1>1, <1>3, AdvanceKeeps DEF Shown
  <2>2. LeftOf(clock, t) = LeftOf(clock, t + 1)
    BY <1>3 DEF LeftOf
  <2> QED
    BY <1>2, <2>1, <2>2 DEF Live!vars
<1>4. CASE clock.status = "RUNNING"
  <2>1. PICK lo \in Nat, x \in Int : clock = Running(lo, x)
    BY <1>4, Columns DEF RowSound, IsRow
  <2>2. lo \in DOMAIN grid /\ grid \in Seq(Durations) /\ t \in Int
    BY <1>0, <1>1, <1>4, <2>1, Columns DEF Fits, Ticking, IInv
  <2>3. /\ Len(grid) \in Nat /\ DOMAIN grid = 1 .. Len(grid)
        /\ \A k \in 1 .. Len(grid) : grid[k] \in Nat \ {0}
    BY <2>2, Positive
  <2>4. c = Advance(Running(lo, x), grid, t) /\ d = Advance(Running(lo, x), grid, t + 1)
    BY <1>1, <2>1 DEF Shown
  <2>5. CASE c = d /\ c = Finished(Len(grid))
    <3>1. LiveStatus' = LiveStatus /\ LiveLevel' = LiveLevel /\ LiveLeft = 0 /\ LiveLeft' = 0
      BY <1>2, <2>3, <2>5, FinishedLooks
    <3> QED
      BY <1>2, <3>1 DEF Live!vars
  <2>6. CASE \E m \in DOMAIN grid, e \in Int : e > t /\ c = Running(m, e) /\ d = c
    <3>1. PICK m \in DOMAIN grid, e \in Int : e > t /\ c = Running(m, e) /\ d = c
      BY <2>6
    <3>2. m \in Int /\ e >= t /\ e >= t + 1 /\ t + 1 \in Int
      BY <2>2, <2>3, <3>1
    <3>3. /\ LiveStatus = "RUNNING" /\ LiveLevel = m /\ LiveLeft = e - t
          /\ LiveStatus' = "RUNNING" /\ LiveLevel' = m /\ LiveLeft' = e - (t + 1)
      <4>1. /\ LevelOf(Running(m, e)) = m /\ LeftOf(Running(m, e), t) = e - t
            /\ LeftOf(Running(m, e), t + 1) = e - (t + 1)
        BY <2>2, <3>2, RunningLooks, ZenonT(60)
      <4>2. Running(m, e).status = "RUNNING"
        BY Columns
      <4> QED
        BY <1>2, <3>1, <4>1, <4>2
    <3>4. LiveLeft > 0 /\ LiveLeft' = LiveLeft - 1
      BY <2>2, <3>1, <3>3
    <3>5. Live!Tick
      BY <1>2, <3>3, <3>4 DEF Live!Tick
    <3> QED
      BY <3>5 DEF Live!Next
  <2>7. CASE c = Running(Len(grid), t) /\ d = Finished(Len(grid))
    <3>1. /\ LiveStatus = "RUNNING" /\ LiveLevel = Len(grid) /\ LiveLeft = 0
          /\ LiveStatus' = "FINISHED" /\ LiveLevel' = Len(grid) /\ LiveLeft' = 0
      <4>a. Len(grid) \in Int /\ t >= t
        BY <2>2, <2>3
      <4>1. /\ LevelOf(c) = Len(grid) /\ LeftOf(c, t) = t - t
            /\ LevelOf(d) = Len(grid) /\ LeftOf(d, t + 1) = 0
        BY <2>2, <2>7, <4>a, RunningLooks, FinishedLooks, Zenon
      <4>2. c.status = "RUNNING" /\ d.status = "FINISHED"
        BY <2>7, Columns
      <4> QED
        BY <1>2, <2>2, <4>1, <4>2
    <3>2. Live!Tick
      BY <1>2, <3>1 DEF Live!Tick, Live!Finish, Live!Last
    <3> QED
      BY <3>2 DEF Live!Next
  <2>8. CASE \E m \in DOMAIN grid : /\ m < Len(grid) /\ c = Running(m, t)
                                    /\ d = Running(m + 1, t + grid[m + 1])
    <3>1. PICK m \in DOMAIN grid : /\ m < Len(grid) /\ c = Running(m, t)
                                   /\ d = Running(m + 1, t + grid[m + 1])
      BY <2>8
    <3>2. PICK n, e : n = m + 1 /\ e = t + grid[n]
      OBVIOUS
    <3>3. m \in Int /\ n \in Int /\ grid[n] \in Int /\ e \in Int /\ e >= t + 1 /\ t + 1 \in Int
      BY <2>2, <2>3, <3>1, <3>2
    <3>4. /\ LiveStatus = "RUNNING" /\ LiveLevel = m /\ LiveLeft = t - t
          /\ LiveStatus' = "RUNNING" /\ LiveLevel' = n /\ LiveLeft' = e - (t + 1)
      <4>a. t >= t
        BY <2>2
      <4>1. /\ LevelOf(Running(m, t)) = m /\ LeftOf(Running(m, t), t) = t - t
            /\ LevelOf(Running(n, e)) = n /\ LeftOf(Running(n, e), t + 1) = e - (t + 1)
        <5>1. LevelOf(Running(m, t)) = m /\ LeftOf(Running(m, t), t) = t - t
          BY <2>2, <3>3, <4>a, RunningLooks, ZenonT(60)
        <5>2. LevelOf(Running(n, e)) = n /\ LeftOf(Running(n, e), t + 1) = e - (t + 1)
          BY <3>3, RunningLooks, ZenonT(60)
        <5> QED
          BY <5>1, <5>2
      <4>2. Running(m, t).status = "RUNNING" /\ Running(n, e).status = "RUNNING"
        BY Columns
      <4> QED
        BY <1>2, <3>1, <3>2, <4>1, <4>2
    <3>5. LiveLeft = 0 /\ LiveLeft' = grid[n] - 1
      BY <2>2, <3>2, <3>3, <3>4, SMTT(30)
    <3>6. Live!Tick
      BY <1>2, <3>1, <3>2, <3>4, <3>5 DEF Live!Tick, Live!Last
    <3> QED
      BY <3>6 DEF Live!Next
  <2> QED
    BY <2>2, <2>4, <2>5, <2>6, <2>7, <2>8, SecondLater
<1> QED
  BY <1>3, <1>4

-----------------------------------------------------------------------------
(* The commands of the director.                                           *)

\* Live!Edit, by the ends of the levels.
LEMMA EditUnfolds ==
  ASSUME NEW n, NEW d
  PROVE  Live!Edit(n, d) <=>
           LET longer == [LiveGrid EXCEPT ![n] = d]
               moved == LiveLeft + d - LiveGrid[n]
               until == CHOOSE f : Ends(f, LiveLevel, Len(LiveGrid), moved, longer)
               reached == {k \in LiveLevel .. Len(LiveGrid) : until[k] >= 0}
               first == CHOOSE k \in reached : \A j \in reached : k <= j
           IN  /\ n \in 1 .. Len(LiveGrid)
               /\ LiveGrid' = longer
               /\ IF n # LiveLevel \/ LiveStatus \notin {"RUNNING", "PAUSED"}
                  THEN UNCHANGED <<LiveStatus, LiveLevel, LiveLeft>>
                  ELSE IF LiveStatus = "PAUSED"
                  THEN LiveLeft' = (IF moved < 0 THEN 0 ELSE moved)
                       /\ UNCHANGED <<LiveStatus, LiveLevel>>
                  ELSE IF reached = {}
                  THEN LiveStatus' = "FINISHED" /\ LiveLevel' = Len(LiveGrid) /\ LiveLeft' = 0
                  ELSE LiveLevel' = first /\ LiveLeft' = until[first] /\ UNCHANGED LiveStatus
BY Zenon DEF Live!Edit, Live!Last, Live!Ticking, Live!Finish, Ends

\* The ends of the same levels, counted from another moment.
LEMMA EndsShift ==
  ASSUME NEW g \in Seq(Durations), NEW lo, NEW y, NEW f, AreEnds(f, lo, y, g), NEW t \in Int,
         NEW z, z = y - t, NEW u, Ends(u, lo, Len(g), z, g)
  PROVE  \A k \in lo .. Len(g) : u[k] = f[k] - t
<1>1. PICK hi : hi = Len(g)
  OBVIOUS
<1>2. /\ hi \in Nat /\ lo \in 1 .. hi /\ lo \in Nat /\ y \in Int /\ f \in [lo .. hi -> Int]
      /\ Ends(f, lo, hi, y, g)
      /\ \A k \in lo .. hi : g[k] \in Int
  BY <1>1, Positive DEF AreEnds
<1>3. PICK h : h = [k \in lo .. hi |-> f[k] - t]
  OBVIOUS
<1>4. \A k \in lo .. hi : f[k] = IF k = lo THEN y ELSE f[k - 1] + g[k]
  <2>1. f = [k \in lo .. hi |-> IF k = lo THEN y ELSE f[k - 1] + g[k]]
    BY <1>2, Zenon DEF Ends
  <2> QED
    BY <2>1, Zenon
<1>5. \A k \in lo .. hi : h[k] = IF k = lo THEN z ELSE h[k - 1] + g[k]
  <2> SUFFICES ASSUME NEW k \in lo .. hi
               PROVE  h[k] = IF k = lo THEN z ELSE h[k - 1] + g[k]
    OBVIOUS
  <2>1. h[k] = f[k] - t
    BY <1>3
  <2>2. CASE k = lo
    BY <1>4, <2>1, <2>2
  <2>3. CASE k # lo
    <3>1. PICK j : j = k - 1
      OBVIOUS
    <3>2. j \in lo .. hi /\ f[j] \in Int /\ g[k] \in Int
      BY <1>2, <2>3, <3>1
    <3>3. h[j] = f[j] - t /\ f[k] = f[j] + g[k]
      BY <1>3, <1>4, <2>3, <3>1, <3>2
    <3> QED
      BY <2>1, <2>3, <3>1, <3>2, <3>3
  <2> QED
    BY <2>2, <2>3
<1>6. h = [k \in lo .. hi |-> IF k = lo THEN z ELSE h[k - 1] + g[k]]
  BY <1>3, <1>5
<1>7. Ends(h, lo, hi, z, g) /\ Ends(u, lo, hi, z, g)
  BY <1>1, <1>6, Zenon DEF Ends
<1>8. u = h
  BY <1>2, <1>7, EndsUnique
<1> QED
  BY <1>1, <1>3, <1>8

\* An edit of the level that runs is the director's.
LEMMA EditRunningLive ==
  ASSUME NEW g \in Seq(Durations), NEW t \in Int, NEW n \in DOMAIN g, NEW d \in Durations,
         NEW x \in Int, x >= t, NEW h, h = [g EXCEPT ![n] = d],
         NEW b, b = Advance(Running(n, x + (d - g[n])), h, t),
         LiveGrid = g, LiveGrid' = h,
         LiveStatus = "RUNNING", LiveLevel = n, LiveLeft = x - t,
         LiveStatus' = b.status, LiveLevel' = LevelOf(b), LiveLeft' = LeftOf(b, t)
  PROVE  Live!Edit(n, d)
<1>1. PICK hi, y, moved : hi = Len(g) /\ y = x + (d - g[n]) /\ moved = LiveLeft + d - LiveGrid[n]
  OBVIOUS
<1>2. /\ hi \in Nat /\ n \in 1 .. hi /\ d \in Int /\ g[n] \in Int
      /\ h \in Seq(Durations) /\ Len(h) = hi /\ DOMAIN h = 1 .. hi
  BY <1>1, Positive, ClockConstants
<1>3. y \in Int /\ moved = y - t /\ moved \in Int
  BY <1>1, <1>2
<1>4. PICK until : until = CHOOSE f : Ends(f, n, hi, moved, h)
  OBVIOUS
<1>5. Ends(until, n, hi, moved, h)
  <2>1. \E f : AreEnds(f, n, moved, h)
    BY <1>2, <1>3, EndsOf
  <2>2. \E f : Ends(f, n, hi, moved, h)
    BY <1>2, <2>1 DEF AreEnds
  <2> QED
    BY <1>4, <2>2, Zenon
<1>6. PICK f : AreEnds(f, n, y, h)
  BY <1>2, <1>3, EndsOf
<1>7. \A k \in n .. hi : until[k] = f[k] - t /\ f[k] \in Int
  <2>1. Ends(until, n, Len(h), moved, h)
    BY <1>2, <1>5, Zenon
  <2>2. \A k \in n .. Len(h) : until[k] = f[k] - t
    <3>1. h \in Seq(Durations) /\ t \in Int /\ moved = y - t
      BY <1>2, <1>3
    <3> QED
      BY ONLY <3>1, <1>6, <2>1, EndsShift
  <2>3. f \in [n .. Len(h) -> Int]
    BY <1>6 DEF AreEnds
  <2> QED
    BY <1>2, <2>2, <2>3
<1>8. PICK reached : reached = {k \in n .. hi : until[k] >= 0}
  OBVIOUS
<1>9. PICK first : first = CHOOSE k \in reached : \A j \in reached : k <= j
  OBVIOUS
<1>10. Advance(Running(n, y), h, t) = b
  BY <1>1
<1>a. until = CHOOSE e : Ends(e, LiveLevel, Len(LiveGrid), LiveLeft + d - LiveGrid[n],
                              [LiveGrid EXCEPT ![n] = d])
  BY <1>1, <1>4
<1>b. reached = {k \in LiveLevel .. Len(LiveGrid) : until[k] >= 0}
  BY <1>1, <1>8
<1>c. Live!Edit(n, d) <=>
        /\ n \in 1 .. Len(LiveGrid)
        /\ LiveGrid' = [LiveGrid EXCEPT ![n] = d]
        /\ IF n # LiveLevel \/ LiveStatus \notin {"RUNNING", "PAUSED"}
           THEN UNCHANGED <<LiveStatus, LiveLevel, LiveLeft>>
           ELSE IF LiveStatus = "PAUSED"
           THEN LiveLeft' = (IF LiveLeft + d - LiveGrid[n] < 0 THEN 0
                             ELSE LiveLeft + d - LiveGrid[n])
                /\ UNCHANGED <<LiveStatus, LiveLevel>>
           ELSE IF reached = {}
           THEN LiveStatus' = "FINISHED" /\ LiveLevel' = Len(LiveGrid) /\ LiveLeft' = 0
           ELSE LiveLevel' = first /\ LiveLeft' = until[first] /\ UNCHANGED LiveStatus
  BY <1>9, <1>a, <1>b, EditUnfolds, Zenon
<1>d. /\ n \in 1 .. Len(LiveGrid) /\ LiveGrid' = [LiveGrid EXCEPT ![n] = d]
      /\ ~(n # LiveLevel \/ LiveStatus \notin {"RUNNING", "PAUSED"}) /\ LiveStatus # "PAUSED"
  BY <1>1, <1>2
<1>11. CASE AllOver(f, n, hi, t)
  <2>1. b = Finished(hi)
    <3>1. AllOver(f, n, Len(h), t)
      BY <1>2, <1>11
    <3>2. Advance(Running(n, y), h, t) = Finished(Len(h))
      <4>1. h \in Seq(Durations) /\ t \in Int
        BY <1>2
      <4> QED
        BY ONLY <4>1, <1>6, <3>1, AdvanceIs
    <3> QED
      BY <1>2, <1>10, <3>2
  <2>2. reached = {}
    BY <1>7, <1>8, <1>11 DEF AllOver
  <2>3. LiveStatus' = "FINISHED" /\ LiveLevel' = hi /\ LiveLeft' = 0
    BY <1>2, <2>1, FinishedLooks, Columns
  <2> QED
    BY <1>1, <1>c, <1>d, <2>2, <2>3
<1>12. ASSUME NEW m, FirstToLast(f, n, hi, t, m)
       PROVE  Live!Edit(n, d)
  <2>1. b = Running(m, f[m])
    <3>1. FirstToLast(f, n, Len(h), t, m)
      BY <1>2, <1>12
    <3>2. Advance(Running(n, y), h, t) = Running(m, f[m])
      <4>1. h \in Seq(Durations) /\ t \in Int
        BY <1>2
      <4> QED
        BY ONLY <4>1, <1>6, <3>1, AdvanceIs
    <3> QED
      BY <1>10, <3>2
  <2>2. m \in n .. hi /\ f[m] >= t /\ \A k \in n .. hi : k < m => f[k] < t
    BY <1>12 DEF FirstToLast
  <2>3. m \in Int /\ f[m] \in Int /\ until[m] = f[m] - t
    BY <1>2, <1>7, <2>2
  <2>4. m \in reached
    BY <1>8, <2>2, <2>3
  <2>5. \A k \in reached : m <= k
    <3> SUFFICES ASSUME NEW k \in reached PROVE m <= k
      OBVIOUS
    <3>1. k \in n .. hi /\ f[k] >= t /\ f[k] \in Int /\ k \in Int
      BY <1>2, <1>7, <1>8
    <3>2. ~(k < m)
      BY <2>2, <3>1
    <3> QED
      BY <2>3, <3>1, <3>2
  <2>6. first = m
    <3>1. first \in reached /\ \A j \in reached : first <= j
      BY <1>9, <2>4, <2>5
    <3>2. first <= m /\ m <= first /\ first \in Int
      BY <1>2, <1>8, <2>4, <2>5, <3>1
    <3> QED
      BY <2>3, <3>2
  <2>7. LiveStatus' = "RUNNING" /\ LiveLevel' = m /\ LiveLeft' = until[m]
    BY <2>1, <2>2, <2>3, RunningLooks, Columns
  <2> QED
    BY <1>c, <1>d, <2>4, <2>6, <2>7
<1>13. AllOver(f, n, hi, t) \/ \E m : FirstToLast(f, n, hi, t, m)
  BY <1>2, <1>6, RunningShows
<1> QED
  BY <1>11, <1>12, <1>13

\* A command that is written in the second it was planned in is the director's.
LEMMA CommandLive ==
  ASSUME IInv, RowSound, Fits(clock, grid), ~lag, UNCHANGED <<now, lag>>,
         FollowsAt(now, clock', grid')
  PROVE  [Live!Next]_Live!vars
<1>1. PICK o \in Commands :
        LET made == PlanOf(o, Advance(clock, grid, now), grid, now)
        IN  ~made.refused /\ clock' = made.clock /\ grid' = made.durations
  BY DEF FollowsAt
<1>2. PICK c, g, t, made, b :
        /\ c = Shown /\ g = grid /\ t = now /\ made = PlanOf(o, c, g, t)
        /\ b = Advance(clock', grid', t)
  OBVIOUS
<1>3. /\ Asked(o) /\ g \in Seq(Durations) /\ t \in Int
      /\ ~made.refused /\ clock' = made.clock /\ grid' = made.durations
  BY <1>1, <1>2, CommandsAsked DEF IInv, Shown
<1>4. IsRow(c) /\ UpToDate(c, g, t)
  BY <1>2, <1>3, AdvanceRow DEF RowSound, Shown
<1>5. /\ Len(g) \in Nat /\ DOMAIN g = 1 .. Len(g)
      /\ \A k \in DOMAIN g : g[k] \in Nat \ {0} /\ k \in Nat
  BY <1>3, Positive
<1>6. /\ LiveStatus = c.status /\ LiveLevel = LevelOf(c)
      /\ LiveLeft = LeftOf(c, t) /\ LiveGrid = g
      /\ LiveStatus' = b.status /\ LiveLevel' = LevelOf(b)
      /\ LiveLeft' = LeftOf(b, t) /\ LiveGrid' = grid'
  <2>1. /\ LiveStatus = c.status /\ LiveLevel = LevelOf(c)
        /\ LiveLeft = LeftOf(c, t) /\ LiveGrid = g
    BY <1>2, Seen
  <2>2. ~lag' /\ now' = t
    BY <1>2
  <2>3. /\ LiveStatus' = b.status /\ LiveLevel' = LevelOf(b)
        /\ LiveLeft' = LeftOf(b, t) /\ LiveGrid' = grid'
    BY <1>2, <2>2, Seen
  <2> QED
    BY <2>1, <2>3
<1>7. \A e, h : Accept(e, h).clock = e /\ Accept(e, h).durations = h
  BY DEF Accept
<1>a. ASSUME NEW m \in Nat, NEW l \in Int, NEW e \in Int, e = t + l, l >= 0,
             clock' = Running(m, e), grid' = g
      PROVE  LiveStatus' = "RUNNING" /\ LiveLevel' = m /\ LiveLeft' = l
  <2>1. e >= t /\ e - t = l
    BY <1>3, <1>a
  <2>2. clock'.ends >= t
    BY <1>a, <2>1, Columns
  <2>3. b = Running(m, e)
    BY <1>2, <1>a, <2>2, AdvanceKeeps
  <2>4. LevelOf(b) = m /\ LeftOf(b, t) = e - t
    BY <1>3, <2>1, <2>3, RunningLooks
  <2> QED
    BY <1>6, <2>1, <2>3, <2>4, Columns
<1>b. ASSUME NEW m \in Nat, NEW l, clock' = Paused(m, l)
      PROVE  LiveStatus' = "PAUSED" /\ LiveLevel' = m /\ LiveLeft' = l
  <2>1. b = Paused(m, l)
    <3>1. clock'.status # "RUNNING"
      BY <1>b, Columns
    <3> QED
      BY <1>2, <1>b, <3>1, AdvanceKeeps
  <2> QED
    BY <1>6, <2>1, PausedLooks, Columns
<1>c. ASSUME NEW m \in Nat, clock' = Finished(m)
      PROVE  LiveStatus' = "FINISHED" /\ LiveLevel' = m /\ LiveLeft' = 0
  <2>1. b = Finished(m)
    <3>1. clock'.status # "RUNNING"
      BY <1>c, Columns
    <3> QED
      BY <1>2, <1>c, <3>1, AdvanceKeeps
  <2> QED
    BY <1>6, <2>1, FinishedLooks, Columns
<1>d. ASSUME NEW m \in Nat, NEW e \in Int, c = Running(m, e)
      PROVE  /\ m \in DOMAIN g /\ e >= t
             /\ LiveStatus = "RUNNING" /\ LiveLevel = m /\ LiveLeft = e - t
  <2>1. c.status = "RUNNING" /\ c.ends = e /\ c.level = m
    BY <1>d, Columns
  <2>2. m \in DOMAIN g /\ e >= t
    BY <1>4, <2>1 DEF UpToDate, Fits, Ticking
  <2> QED
    BY <1>3, <1>6, <1>d, <2>1, <2>2, RunningLooks
<1>e. ASSUME NEW m \in Nat, NEW l \in Nat, c = Paused(m, l)
      PROVE  /\ m \in DOMAIN g
             /\ LiveStatus = "PAUSED" /\ LiveLevel = m /\ LiveLeft = l
  <2>1. c.status = "PAUSED" /\ c.level = m
    BY <1>e, Columns
  <2>2. m \in DOMAIN g
    BY <1>4, <2>1 DEF UpToDate, Fits, Ticking
  <2> QED
    BY <1>6, <1>e, <2>1, <2>2, PausedLooks
<1>11. CASE c.status = "NOT_STARTED" /\ g # <<>> /\ made = Accept(Running(1, t + g[1]), g)
  <2>1. 1 \in DOMAIN g /\ g[1] \in Nat /\ Len(g) > 0
    BY <1>3, <1>5, <1>11
  <2>2. clock' = Running(1, t + g[1]) /\ grid' = g
    BY <1>3, <1>7, <1>11
  <2>3. LiveStatus' = "RUNNING" /\ LiveLevel' = 1 /\ LiveLeft' = g[1]
    BY <1>3, <1>a, <2>1, <2>2
  <2>4. Live!Start
    BY <1>6, <1>11, <2>1, <2>2, <2>3 DEF Live!Start, Live!Last
  <2> QED
    BY <2>4 DEF Live!Next
<1>12. CASE c.status = "RUNNING" /\ made = Accept(Paused(c.level, Clamped(c.ends - t)), g)
  <2>1. PICK m \in Nat, e \in Int : c = Running(m, e)
    BY <1>4, <1>12, Columns DEF IsRow
  <2>2. clock' = Paused(m, Clamped(e - t)) /\ grid' = g
    BY <1>3, <1>7, <1>12, <2>1, Columns
  <2>3. e - t >= 0 /\ e - t \in Int
    BY <1>3, <1>d, <2>1
  <2>4. Clamped(e - t) = e - t
    BY <2>3, ClampedNat
  <2>5. LiveStatus' = "PAUSED" /\ LiveLevel' = m /\ LiveLeft' = e - t
    BY <1>b, <2>2, <2>4
  <2>6. Live!Pause
    BY <1>6, <1>d, <2>1, <2>2, <2>5 DEF Live!Pause
  <2> QED
    BY <2>6 DEF Live!Next
<1>13. CASE c.status = "PAUSED" /\ made = Accept(Running(c.level, t + c.left), g)
  <2>1. PICK m \in Nat, l \in Nat : c = Paused(m, l)
    BY <1>4, <1>13, Columns DEF IsRow
  <2>2. clock' = Running(m, t + l) /\ grid' = g
    BY <1>3, <1>7, <1>13, <2>1, Columns
  <2>3. LiveStatus' = "RUNNING" /\ LiveLevel' = m /\ LiveLeft' = l
    BY <1>3, <1>a, <2>2
  <2>4. Live!Resume
    BY <1>6, <1>e, <2>1, <2>2, <2>3 DEF Live!Resume
  <2> QED
    BY <2>4 DEF Live!Next
<1>f. ASSUME Ticking(c), NEW n \in DOMAIN g, made = Accept(Entering(c, g, n, t), g)
      PROVE  LiveStatus' = LiveStatus /\ LiveLevel' = n /\ LiveLeft' = g[n] /\ grid' = g
  <2>1. clock' = Entering(c, g, n, t) /\ grid' = g
    BY <1>3, <1>7, <1>f
  <2>2. g[n] \in Nat /\ n \in Nat
    BY <1>5
  <2>3. CASE c.status = "RUNNING"
    <3>1. clock' = Running(n, t + g[n])
      BY <2>1, <2>3 DEF Entering
    <3>2. LiveStatus' = "RUNNING" /\ LiveLevel' = n /\ LiveLeft' = g[n]
      BY <1>3, <1>a, <2>1, <2>2, <3>1
    <3> QED
      BY <1>6, <2>1, <2>3, <3>2
  <2>4. CASE c.status = "PAUSED"
    <3>1. clock' = Paused(n, g[n])
      BY <2>1, <2>4 DEF Entering
    <3>2. LiveStatus' = "PAUSED" /\ LiveLevel' = n /\ LiveLeft' = g[n]
      BY <1>b, <2>2, <3>1
    <3> QED
      BY <1>6, <2>1, <2>4, <3>2
  <2> QED
    BY <1>f, <2>3, <2>4 DEF Ticking
<1>g. ASSUME Ticking(c), c.level \in DOMAIN g
      PROVE  /\ LiveLevel = c.level /\ LiveStatus \in {"RUNNING", "PAUSED"}
             /\ c.level \in Nat /\ c.level >= 1 /\ c.level <= Len(g)
  <2>1. c.level \in Nat /\ c.level >= 1 /\ c.level <= Len(g)
    BY <1>5, <1>g
  <2>2. c.level # None
    BY <2>1, ClockConstants
  <2> QED
    BY <1>6, <1>g, <2>1, <2>2 DEF Ticking, LevelOf
<1>14. ASSUME Ticking(c), c.level \in DOMAIN g, c.level + 1 \in DOMAIN g,
              made = Accept(Entering(c, g, c.level + 1, t), g)
       PROVE  [Live!Next]_Live!vars
  <2>1. PICK n : n = c.level + 1
    OBVIOUS
  <2>2. LiveStatus' = LiveStatus /\ LiveLevel' = n /\ LiveLeft' = g[n] /\ LiveGrid' = g
    BY <1>6, <1>14, <1>f, <2>1
  <2>3. LiveLevel < Len(g) /\ n = LiveLevel + 1
    BY <1>5, <1>14, <1>g, <2>1
  <2>4. Live!NextLevel
    BY <1>6, <1>14, <1>g, <2>2, <2>3 DEF Live!NextLevel, Live!Enter, Live!Last, Live!Ticking
  <2> QED
    BY <2>4 DEF Live!Next
<1>15. ASSUME Ticking(c), c.level \in DOMAIN g, c.level + (-1) \in DOMAIN g,
              made = Accept(Entering(c, g, c.level + (-1), t), g)
       PROVE  [Live!Next]_Live!vars
  <2>1. PICK n : n = c.level + (-1)
    OBVIOUS
  <2>2. LiveStatus' = LiveStatus /\ LiveLevel' = n /\ LiveLeft' = g[n] /\ LiveGrid' = g
    BY <1>6, <1>15, <1>f, <2>1
  <2>3. LiveLevel > 1 /\ n = LiveLevel - 1
    BY <1>5, <1>15, <1>g, <2>1
  <2>4. Live!PreviousLevel
    BY <1>6, <1>15, <1>g, <2>2, <2>3 DEF Live!PreviousLevel, Live!Enter, Live!Ticking
  <2> QED
    BY <2>4 DEF Live!Next
<1>16. ASSUME Ticking(c), c.level \in DOMAIN g, c.level + 1 \notin DOMAIN g,
              made = Accept(Finished(c.level), g)
       PROVE  [Live!Next]_Live!vars
  <2>1. clock' = Finished(c.level) /\ grid' = g
    BY <1>3, <1>7, <1>16
  <2>2. LiveStatus' = "FINISHED" /\ LiveLevel' = c.level /\ LiveLeft' = 0
    BY <1>16, <1>c, <1>g, <2>1
  <2>3. c.level = Len(g)
    BY <1>5, <1>16, <1>g
  <2>4. Live!NextLevel
    BY <1>6, <1>16, <1>g, <2>1, <2>2, <2>3
       DEF Live!NextLevel, Live!Finish, Live!Last, Live!Ticking
  <2> QED
    BY <2>4 DEF Live!Next
<1>17. ASSUME NEW n \in DOMAIN g, NEW d \in Durations, made = PlanEdit(c, g, n, d, t)
       PROVE  [Live!Next]_Live!vars
  <2>1. PICK h : h = [g EXCEPT ![n] = d]
    OBVIOUS
  <2>2. Edited(made, c, g, n, d)
    BY <1>3, <1>4, <1>17, EditMakes
  <2>3. grid' = h
    BY <1>3, <2>1, <2>2 DEF Edited
  <2>4. n \in Nat /\ d \in Int /\ g[n] \in Int /\ DOMAIN LiveGrid = DOMAIN g
    BY <1>5, <1>6, ClockConstants
  <2>5. Live!Edit(n, d) => Live!Next
    BY <2>4 DEF Live!Next
  <2>6. CASE clock' = c /\ (c.level # n \/ d = g[n] \/ ~Ticking(c))
    <3>1. b = c
      <4>1. c.status # "RUNNING" \/ c.ends >= t
        BY <1>4 DEF UpToDate
      <4> QED
        BY <1>2, <2>6, <4>1, AdvanceKeeps
    <3>2. UNCHANGED <<LiveStatus, LiveLevel, LiveLeft>> /\ LiveGrid' = h
      BY <1>6, <2>3, <3>1
    <3>3. CASE d = g[n]
      <4>1. h = g
        BY <1>3, <2>1, <3>3
      <4> QED
        BY <1>6, <3>2, <4>1 DEF Live!vars
    <3>4. CASE n # LiveLevel \/ LiveStatus \notin {"RUNNING", "PAUSED"}
      <4>1. n \in 1 .. Len(LiveGrid) /\ LiveGrid' = [LiveGrid EXCEPT ![n] = d]
        BY <1>5, <1>6, <2>1, <3>2
      <4>2. Live!Edit(n, d)
        BY <3>2, <3>4, <4>1, EditUnfolds
      <4> QED
        BY <2>5, <4>2
    <3>5. c.level # n => n # LiveLevel
      <4>1. n # 0
        BY <1>5
      <4> QED
        BY <1>6, <4>1 DEF LevelOf
    <3>6. ~Ticking(c) => LiveStatus \notin {"RUNNING", "PAUSED"}
      BY <1>6 DEF Ticking
    <3> QED
      BY <2>6, <3>3, <3>4, <3>5, <3>6
  <2>7. ASSUME NEW x \in Int, c = Running(n, x), clock' = Running(n, x + (d - g[n]))
        PROVE  [Live!Next]_Live!vars
    <3>1. x >= t /\ LiveStatus = "RUNNING" /\ LiveLevel = n /\ LiveLeft = x - t
      BY <1>d, <2>4, <2>7
    <3>2. b = Advance(Running(n, x + (d - g[n])), h, t)
      BY <1>2, <2>3, <2>7
    <3>3. Live!Edit(n, d)
      BY ONLY <1>3, <1>6, <2>1, <2>3, <3>1, <3>2, EditRunningLive
    <3> QED
      BY <2>5, <3>3
  <2>8. ASSUME NEW l \in Nat, c = Paused(n, l), clock' = Paused(n, Clamped(l + (d - g[n])))
        PROVE  [Live!Next]_Live!vars
    <3>1. LiveStatus = "PAUSED" /\ LiveLevel = n /\ LiveLeft = l
      BY <1>e, <2>4, <2>8
    <3>2. PICK moved : moved = LiveLeft + d - LiveGrid[n]
      OBVIOUS
    <3>3. moved \in Int /\ moved = l + (d - g[n])
      BY <1>6, <2>4, <3>1, <3>2
    <3>4. LiveStatus' = "PAUSED" /\ LiveLevel' = n /\ LiveLeft' = Clamped(moved)
      BY <1>b, <2>4, <2>8, <3>3
    <3>5. LiveLeft' = IF moved < 0 THEN 0 ELSE moved
      BY <3>3, <3>4, ClampedNat
    <3>6. n \in 1 .. Len(LiveGrid) /\ LiveGrid' = [LiveGrid EXCEPT ![n] = d]
      BY <1>5, <1>6, <2>1, <2>3
    <3>7. Live!Edit(n, d)
      BY <3>1, <3>2, <3>4, <3>5, <3>6, EditUnfolds
    <3> QED
      BY <2>5, <3>7
  <2> QED
    BY <1>3, <2>2, <2>6, <2>7, <2>8 DEF Edited
<1> QED
  <2>1. ~PlanOf(o, c, g, t).refused /\ made = PlanOf(o, c, g, t)
    BY <1>2, <1>3
  <2> QED
    BY <1>3, <2>1, <1>11, <1>12, <1>13, <1>14, <1>15, <1>16, <1>17, PlanCases

-----------------------------------------------------------------------------

\* As long as nobody replaces the grid, the clock plays one of its levels.
LEMMA FitsKept ==
  ASSUME IInv, RowSound, [Next]_vars, copies' = 0, Fits(clock, grid), copies = 0
  PROVE  Fits(clock, grid)'
<1>1. ASSUME NEW r \in Reqs, Write(r)
      PROVE  Fits(clock, grid)'
  <2>1. PICK time \in 0 .. now : FollowsAt(time, clock', grid')
    BY <1>1, WriteFollows DEF Follows
  <2>2. time \in Int
    BY DEF IInv
  <2>3. Fits(clock', grid')
    BY <2>1, <2>2, FollowsRow
  <2> QED
    BY <2>3 DEF Fits, Ticking
<1>2. CASE UNCHANGED <<clock, grid>>
  BY <1>2 DEF Fits, Ticking
<1>3. ASSUME NEW r \in Reqs, ApplyUpdate(r)
      PROVE  FALSE
  BY <1>3 DEF ApplyUpdate
<1>4. \/ \E r \in Reqs : Write(r) \/ ApplyUpdate(r)
      \/ UNCHANGED <<clock, grid>>
  <2>1. CASE UNCHANGED vars
    BY <2>1 DEF vars
  <2>2. CASE TimePasses \/ Register \/ Unregister
    BY <2>2 DEF TimePasses, Register, Unregister
  <2>3. ASSUME NEW r \in Reqs,
               Command(r) \/ PlanAgain(r) \/ WriteAgain(r) \/ AskUpdate(r) \/ Fail(r)
        PROVE  UNCHANGED <<clock, grid>>
    BY <2>3 DEF Command, PlanAgain, WriteAgain, AskUpdate, Fail
  <2> QED
    BY <2>1, <2>2, <2>3 DEF Next
<1> QED
  BY <1>1, <1>2, <1>3, <1>4

\* Every step is one of the director's, or none.
LEMMA StepLive ==
  ASSUME IInv, RowSound, Fits(clock, grid), copies = 0, copies' = 0, [Next]_vars
  PROVE  [Live!Next]_Live!vars
<1>1. ASSUME NEW r \in Reqs, Write(r)
      PROVE  [Live!Next]_Live!vars
  <2>1. UNCHANGED <<now, lag>>
    BY <1>1 DEF Write
  <2>2. CASE lag
    BY <2>1, <2>2, Unseen
  <2>3. CASE ~lag
    <3>1. FollowsAt(now, clock', grid')
      BY <1>1, <2>3 DEF Write, SameVersion, IInv, PlanSound
    <3> QED
      BY <2>1, <2>3, <3>1, CommandLive
  <2> QED
    BY <2>2, <2>3
<1>2. CASE TimePasses
  BY <1>2, TimeLive
<1>3. CASE Register \/ Unregister
  BY <1>3, Unseen DEF Register, Unregister
<1>4. ASSUME NEW r \in Reqs,
             Command(r) \/ PlanAgain(r) \/ WriteAgain(r) \/ AskUpdate(r) \/ Fail(r)
      PROVE  [Live!Next]_Live!vars
  BY <1>4, Unseen DEF Command, PlanAgain, WriteAgain, AskUpdate, Fail
<1>5. ASSUME NEW r \in Reqs, ApplyUpdate(r)
      PROVE  [Live!Next]_Live!vars
  BY <1>5 DEF ApplyUpdate
<1>6. CASE UNCHANGED vars
  BY <1>6, Unseen DEF vars
<1> QED
  BY <1>1, <1>2, <1>3, <1>4, <1>5, <1>6 DEF Next

\* The clock has not started for the director either.
LEMMA LiveInitially == Init => Live!Init
<1> SUFFICES ASSUME Init
             PROVE  Live!Init
  OBVIOUS
<1>1. grid \in Seq(Durations) /\ <<>> \in Seq(Durations)
  BY ClockConstants DEF Init
<1>2. Shown = NotStarted
  <2>1. clock = NotStarted /\ clock.status # "RUNNING"
    BY Columns DEF Init, NotStarted
  <2> QED
    BY <2>1, AdvanceKeeps DEF Shown
<1>3. CASE lag
  BY <1>1, <1>3 DEF Live!Init, LiveStatus, LiveLevel, LiveLeft, LiveGrid
<1>4. CASE ~lag
  BY <1>1, <1>2, <1>4, Seen, NotStartedLooks, Columns DEF Live!Init
<1> QED
  BY <1>3, <1>4

\* What anybody reads is a clock that counts down by itself second by second, and every
\* accepted command is one step of it, as long as nobody replaces the grid and a command
\* is written in the second it was planned in.
THEOREM ClockIsLive == Spec /\ [](copies = 0) => ImplementsLiveClock
<1> DEFINE LInv == IInv /\ RowSound /\ (copies = 0 => Fits(clock, grid))
<1>1. Init => LInv
  <2>1. Init => Fits(clock, grid)
    BY Columns DEF Init, Fits, Ticking, NotStarted
  <2> QED
    BY <2>1, Initially, RowInitially
<1>2. LInv /\ [Next]_vars /\ copies = 0 /\ (copies = 0)' => LInv'
  BY EveryStep, RowKept, FitsKept
<1>3. Init => Live!Init
  BY LiveInitially
<1>4. LInv /\ [Next]_vars /\ copies = 0 /\ (copies = 0)' => [Live!Next]_Live!vars
  BY StepLive
<1> QED
  BY <1>1, <1>2, <1>3, <1>4, PTL DEF Spec, ImplementsLiveClock, Live!Spec

-----------------------------------------------------------------------------
(* The television of the room.                                             *)

\* An answer says when it was made and of which version; what it says of a clock that
\* does not run stays true of that version.
AnswerSound(a) ==
  /\ a.serverTime \in Nat /\ a.serverTime <= now
  /\ a.version \in Nat /\ a.version <= version
  /\ a.status = "RUNNING" => a.ends \in Int
  /\ a.version = version /\ a.status # "RUNNING" =>
       Shown.status # "RUNNING" /\ a.remaining = Remaining(Shown)

\* Since it received its answer, the device has gone as far as the server, but for drift.
ScreenSound ==
  /\ DOMAIN tv = {"data", "updatedAt", "late", "drift"}
  /\ AnswerSound(tv.data)
  /\ tv.updatedAt \in Int /\ tv.late \in Nat /\ tv.drift \in Nat
  /\ (device - tv.updatedAt) - (now - tv.data.serverTime - tv.late)
       \in -tv.drift .. tv.drift

DInv ==
  /\ IInv /\ RowSound
  /\ device \in Int \cup {None}
  /\ answer # None => device \in Int /\ AnswerSound(answer)
  /\ tv # None => device \in Int /\ ScreenSound

\* A step of the room is one of the clock, or none.
LEMMA RoomStep == [DisplayNext]_displayVars => [Next]_vars
BY DEF DisplayNext, displayVars, Poll, Receive, Lose, SecondPasses, Next

\* A clock that does not run shows the same a second later.
LEMMA StandsStill ==
  ASSUME IInv, RowSound, now' = now \/ now' = now + 1, UNCHANGED <<clock, grid>>,
         Shown.status # "RUNNING"
  PROVE  Shown'.status # "RUNNING" /\ Remaining(Shown)' = Remaining(Shown)
<1>0. now \in Int /\ grid \in Seq(Durations) /\ IsRow(clock)
  BY DEF IInv, RowSound
<1>1. Shown' = Shown
  <2>1. CASE now' = now
    BY <2>1 DEF Shown
  <2>2. CASE clock.status # "RUNNING" \/ clock.level \notin DOMAIN grid
    BY <2>2, AdvanceKeeps DEF Shown
  <2>3. CASE now' = now + 1 /\ clock.status = "RUNNING" /\ clock.level \in DOMAIN grid
    <3>1. PICK lo \in Nat, x \in Int : clock = Running(lo, x)
      BY <1>0, <2>3, Columns DEF IsRow
    <3>2. lo \in DOMAIN grid
      BY <2>3, <3>1, Columns
    <3>3. Shown = Advance(Running(lo, x), grid, now)
          /\ Shown' = Advance(Running(lo, x), grid, now + 1)
      BY <2>3, <3>1 DEF Shown
    <3>4. \A m, e : Shown # Running(m, e)
      BY Columns
    <3> QED
      BY <1>0, <3>2, <3>3, <3>4, SecondLater
  <2> QED
    BY <2>1, <2>2, <2>3
<1> QED
  BY <1>1 DEF Remaining

\* Only what raises the version changes the clock or its grid.
LEMMA VersionTells ==
  ASSUME IInv, [Next]_vars
  PROVE  /\ now' = now \/ now' = now + 1
         /\ \/ version' = version + 1
            \/ version' = version /\ UNCHANGED <<clock, grid>>
<1>1. CASE UNCHANGED vars
  BY <1>1 DEF vars
<1>2. CASE TimePasses
  BY <1>2 DEF TimePasses
<1>3. CASE Register \/ Unregister
  BY <1>3 DEF Register, Unregister
<1>4. ASSUME NEW r \in Reqs, Write(r) \/ ApplyUpdate(r)
      PROVE  version' = version + 1 /\ now' = now
  BY <1>4 DEF Write, ApplyUpdate
<1>5. ASSUME NEW r \in Reqs,
             Command(r) \/ PlanAgain(r) \/ WriteAgain(r) \/ AskUpdate(r) \/ Fail(r)
      PROVE  version' = version /\ now' = now /\ UNCHANGED <<clock, grid>>
  BY <1>5 DEF Command, PlanAgain, WriteAgain, AskUpdate, Fail
<1> QED
  BY <1>1, <1>2, <1>3, <1>4, <1>5 DEF Next

\* An answer stays sound whatever happens to the clock.
LEMMA AnswerKept ==
  ASSUME IInv, RowSound, [Next]_vars, NEW a, AnswerSound(a)
  PROVE  AnswerSound(a)'
<1>1. /\ now \in Nat /\ version \in Nat /\ now' >= now /\ version' >= version
      /\ a.serverTime \in Nat /\ a.serverTime <= now'
      /\ a.version \in Nat /\ a.version <= version'
  BY VersionTells DEF IInv, AnswerSound
<1>2. ASSUME a.version = version', a.status # "RUNNING"
      PROVE  Shown'.status # "RUNNING" /\ a.remaining = Remaining(Shown)'
  <2>1. version' = version /\ a.version = version
    BY <1>1, <1>2, VersionTells DEF AnswerSound
  <2>2. UNCHANGED <<clock, grid>> /\ (now' = now \/ now' = now + 1)
    BY <1>1, <2>1, VersionTells
  <2>3. Shown.status # "RUNNING" /\ a.remaining = Remaining(Shown)
    BY <1>2, <2>1 DEF AnswerSound
  <2> QED
    BY <2>2, <2>3, StandsStill
<1>3. a.status = "RUNNING" => a.ends \in Int
  BY DEF AnswerSound
<1> QED
  BY <1>1, <1>2, <1>3 DEF AnswerSound

\* What is read is sound.
LEMMA ReadSound ==
  ASSUME IInv, RowSound
  PROVE  AnswerSound(Read)
<1>1. /\ Read.serverTime = now /\ Read.version = version /\ Read.status = Shown.status
      /\ Read.ends = Shown.ends /\ Read.remaining = Remaining(Shown)
  BY DEF Read
<1>2. now \in Nat /\ version \in Nat /\ now <= now /\ version <= version
  BY DEF IInv
<1>3. IsRow(Shown)
  BY AdvanceRow DEF IInv, RowSound, Shown
<1>4. Shown.status = "RUNNING" => Shown.ends \in Int
  BY <1>3, Columns DEF IsRow
<1> QED
  BY <1>1, <1>2, <1>4 DEF AnswerSound

\* How far the device strays in a second.
LEMMA AbsIs ==
  ASSUME NEW n \in Int
  PROVE  Abs(n) \in Nat /\ n <= Abs(n) /\ -n <= Abs(n)
BY DEF Abs

\* What the television knows stays sound while it and the device are left alone.
LEMMA ScreenKept ==
  ASSUME ScreenSound, \A a : AnswerSound(a) => AnswerSound(a)', UNCHANGED <<tv, device, now>>
  PROVE  ScreenSound'
BY DEF ScreenSound

\* Every step of the room that leaves the device alone.
LEMMA RoomKeptStill ==
  ASSUME DInv, IInv', RowSound', \A a : AnswerSound(a) => AnswerSound(a)',
         \/ Poll \/ Receive \/ Lose
         \/ UNCHANGED <<tv, device, answer, now>>
  PROVE  DInv'
<1>0. /\ device' \in Int \cup {None} /\ UNCHANGED <<device, now>>
      /\ device \in Int => device' \in Int
  BY DEF DInv, Poll, Receive, Lose, vars
<1>1. CASE Poll
  <2>1. PICK a : a = Read
    OBVIOUS
  <2>2. AnswerSound(a)'
    BY <2>1, ReadSound DEF DInv
  <2>3. answer' = a /\ device # None /\ UNCHANGED tv
    BY <1>1, <2>1 DEF Poll
  <2>4. device \in Int
    BY <2>3 DEF DInv
  <2>5. tv' # None => ScreenSound'
    BY <1>0, <2>3, ScreenKept DEF DInv
  <2> QED
    BY <1>0, <2>2, <2>3, <2>4, <2>5 DEF DInv
<1>2. CASE Receive
  <2>1. /\ answer # None /\ device \in Int /\ now \in Int
        /\ AnswerSound(answer) /\ answer' = None
    BY <1>2 DEF DInv, Receive, IInv
  <2>2. PICK t, a, d, n : t = tv' /\ a = answer /\ d = device /\ n = now
    OBVIOUS
  <2>3. t = [data |-> a, updatedAt |-> d, late |-> n - a.serverTime, drift |-> 0]
    BY <1>2, <2>2 DEF Receive
  <2>4. /\ DOMAIN t = {"data", "updatedAt", "late", "drift"}
        /\ t.data = a /\ t.updatedAt = d /\ t.late = n - a.serverTime /\ t.drift = 0
    BY <2>3
  <2>5. a.serverTime \in Nat /\ a.serverTime <= n /\ d \in Int /\ n \in Int
    BY <2>1, <2>2 DEF AnswerSound
  <2>6. /\ t.late \in Nat
        /\ (d - t.updatedAt) - (n - t.data.serverTime - t.late) \in -t.drift .. t.drift
    BY <2>4, <2>5
  <2>7. AnswerSound(a)'
    BY <2>1, <2>2
  <2>8. ScreenSound'
    BY <1>0, <2>2, <2>4, <2>5, <2>6, <2>7 DEF ScreenSound
  <2> QED
    BY <1>0, <2>1, <2>8 DEF DInv
<1>3. CASE Lose
  <2>1. UNCHANGED tv /\ answer' = None
    BY <1>3 DEF Lose
  <2>2. tv' # None => ScreenSound'
    BY <1>0, <2>1, ScreenKept DEF DInv
  <2> QED
    BY <1>0, <2>1, <2>2 DEF DInv
<1>4. CASE UNCHANGED <<tv, device, answer, now>>
  <2>1. tv' # None => ScreenSound'
    BY <1>4, ScreenKept DEF DInv
  <2> QED
    BY <1>0, <1>4, <2>1 DEF DInv
<1> QED
  BY <1>1, <1>2, <1>3, <1>4

\* A second passes, for the device too.
LEMMA RoomKeptSecond ==
  ASSUME DInv, IInv', RowSound', \A a : AnswerSound(a) => AnswerSound(a)', SecondPasses
  PROVE  DInv'
<1>0. now \in Nat /\ now' = now + 1 /\ UNCHANGED answer
  BY DEF SecondPasses, TimePasses, DInv, IInv
<1>1. CASE device = None
  <2>1. UNCHANGED <<device, tv>> /\ device \notin Int
    BY <1>1, ClockConstants DEF SecondPasses
  <2> QED
    BY <1>0, <1>1, <2>1 DEF DInv
<1>2. CASE device # None
  <2>1. PICK s \in Strides :
          /\ device' = device + s
          /\ tv' = IF tv = None THEN None ELSE [tv EXCEPT !.drift = @ + Abs(s - 1)]
    BY <1>2 DEF SecondPasses
  <2>2. s \in Int /\ device \in Int /\ device' \in Int
    BY <1>2, <2>1, DisplayConstants DEF DInv
  <2>3. CASE tv = None
    BY <1>0, <2>1, <2>2, <2>3 DEF DInv
  <2>4. CASE tv # None
    <3>1. ScreenSound
      BY <2>4 DEF DInv
    <3>2. PICK old, new, step : old = tv /\ new = tv' /\ step = Abs(s - 1)
      OBVIOUS
    <3>3. step \in Nat /\ s - 1 <= step /\ 1 - s <= step
      BY <2>2, <3>2, AbsIs
    <3>4. new = [old EXCEPT !.drift = old.drift + step]
      BY <2>1, <2>4, <3>2
    <3>5. /\ DOMAIN new = {"data", "updatedAt", "late", "drift"}
          /\ new.data = old.data /\ new.updatedAt = old.updatedAt /\ new.late = old.late
          /\ new.drift = old.drift + step
      BY <3>1, <3>2, <3>4 DEF ScreenSound
    <3>6. PICK a : a = old.data
      OBVIOUS
    <3>7. AnswerSound(a) /\ AnswerSound(a)' /\ a.serverTime \in Nat
      BY <3>1, <3>2, <3>6 DEF ScreenSound, AnswerSound
    <3>8. /\ old.updatedAt \in Int /\ old.late \in Nat /\ old.drift \in Nat
          /\ (device - old.updatedAt) - (now - a.serverTime - old.late)
               \in -old.drift .. old.drift
      BY <3>1, <3>2, <3>6 DEF ScreenSound
    <3>9. /\ new.drift \in Nat
          /\ (device' - new.updatedAt) - (now' - a.serverTime - new.late)
               \in -new.drift .. new.drift
      BY <1>0, <2>1, <2>2, <3>3, <3>5, <3>7, <3>8
    <3>10. ScreenSound'
      BY <3>2, <3>5, <3>6, <3>7, <3>8, <3>9 DEF ScreenSound
    <3> QED
      BY <1>0, <2>2, <3>10 DEF DInv
  <2> QED
    BY <2>3, <2>4
<1> QED
  BY <1>1, <1>2

\* Every step of the room.
LEMMA RoomKept ==
  ASSUME DInv, [DisplayNext]_displayVars
  PROVE  DInv'
<1>0. IInv /\ RowSound /\ [Next]_vars /\ IInv' /\ RowSound'
  BY RoomStep, EveryStep, RowKept DEF DInv
<1>1. \A a : AnswerSound(a) => AnswerSound(a)'
  BY <1>0, AnswerKept
<1>2. \/ Poll \/ Receive \/ Lose \/ SecondPasses
      \/ UNCHANGED <<tv, device, answer, now>>
  BY DEF DisplayNext, displayVars, tvVars, vars
<1> QED
  BY <1>0, <1>1, <1>2, RoomKeptStill, RoomKeptSecond

\* Max({0, n}) moves by no more than n.
LEMMA MaxMoves ==
  ASSUME NEW n \in Int, NEW m \in Int, NEW lo \in Int, NEW hi \in Int,
         lo <= 0, hi >= 0, n - m \in lo .. hi
  PROVE  Max({0, n}) - Max({0, m}) \in lo .. hi
<1>1. PICK p, q : p = Max({0, n}) /\ q = Max({0, m})
  OBVIOUS
<1>2. p = (IF n >= 0 THEN n ELSE 0) /\ q = (IF m >= 0 THEN m ELSE 0)
  BY <1>1, ClampedIs
<1>3. p - q \in lo .. hi
  BY <1>2
<1> QED
  BY <1>1, <1>3

\* What the invariant says of the screen.
LEMMA ScreenTracks == DInv => DisplayTracksServer
<1> SUFFICES ASSUME DInv, tv # None, tv.data.version = version
             PROVE  LET true == IF tv.data.status = "RUNNING" THEN Max({0, tv.data.ends - now})
                                ELSE Remaining(Shown)
                    IN  RemainingShown - true \in -tv.drift .. tv.late + tv.drift
  BY DEF DisplayTracksServer
<1>1. ScreenSound /\ device \in Int /\ now \in Nat
  BY DEF DInv, IInv
<1>2. PICK a, late, drift, at, d, n :
        a = tv.data /\ late = tv.late /\ drift = tv.drift /\ at = tv.updatedAt
        /\ d = device /\ n = now
  OBVIOUS
<1>3. /\ AnswerSound(a) /\ a.version = version
      /\ at \in Int /\ late \in Nat /\ drift \in Nat /\ d \in Int /\ n \in Int
      /\ (d - at) - (n - a.serverTime - late) \in -drift .. drift
  BY <1>1, <1>2 DEF ScreenSound
<1>4. a.serverTime \in Nat
  BY <1>3 DEF AnswerSound
<1>5. CASE a.status = "RUNNING"
  <2>1. PICK e \in Int : e = a.ends
    BY <1>3, <1>5 DEF AnswerSound
  <2>2. PICK far : far = d + (a.serverTime - at)
    OBVIOUS
  <2>3. RemainingShown = Max({0, e - far})
    BY <1>2, <1>5, <2>1, <2>2 DEF RemainingShown, Offset
  <2>4. far \in Int /\ (e - far) - (e - n) \in -drift .. late + drift
    BY <1>3, <1>4, <2>1, <2>2
  <2>5. e - far \in Int /\ e - n \in Int /\ -drift \in Int /\ late + drift \in Int
        /\ -drift <= 0 /\ late + drift >= 0
    BY <1>3, <2>1, <2>4
  <2>6. Max({0, e - far}) - Max({0, e - n}) \in -drift .. late + drift
    BY ONLY <2>4, <2>5, MaxMoves
  <2> QED
    BY <1>2, <1>5, <2>1, <2>3, <2>6
<1>6. CASE a.status # "RUNNING"
  <2>1. a.remaining = Remaining(Shown)
    BY <1>3, <1>6 DEF AnswerSound
  <2>2. RemainingShown = a.remaining
    BY <1>2, <1>6 DEF RemainingShown
  <2>3. a.remaining \in Int
    <3>1. IsRow(Shown)
      BY AdvanceRow DEF DInv, IInv, RowSound, Shown
    <3>2. Shown.status # "RUNNING"
      BY <1>3, <1>6 DEF AnswerSound
    <3> QED
      BY <2>1, <3>1, <3>2, Columns DEF IsRow, Remaining
  <2>4. a.remaining - a.remaining \in -drift .. late + drift
    BY <1>3, <2>3
  <2> QED
    BY <1>2, <1>6, <2>1, <2>2, <2>4
<1> QED
  BY <1>5, <1>6

\* Nobody looks yet.
LEMMA RoomInitially == DisplayInit => DInv
BY Initially, RowInitially, DisplayConstants DEF DisplayInit, DInv

\* While nobody has given a command since its answer was made, the television of the room
\* is wrong about the level it shows by no more than the answer's way to it and what the
\* device has drifted since, whatever its clock was set to (remainingFrom, offsetOf).
THEOREM TelevisionKeepsUp == DisplaySpec => []DisplayTracksServer
<1>1. DisplayInit => DInv
  BY RoomInitially
<1>2. DInv /\ [DisplayNext]_displayVars => DInv'
  BY RoomKept
<1>3. DInv => DisplayTracksServer
  BY ScreenTracks
<1> QED
  BY <1>1, <1>2, <1>3, PTL DEF DisplaySpec
=============================================================================
