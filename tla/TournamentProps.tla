--------------------------- MODULE TournamentProps ---------------------------
(***************************************************************************)
(* What registrations, eliminations, redraws, edits and payouts must keep  *)
(* true of the tournaments, their rooms and the wallets behind them.       *)
(***************************************************************************)
EXTENDS Tournament

BaseKeys ==
  ({"tournament-buyin", "tournament-refund", "guest-cash-in"} \X Keys)
    \cup ({"tournament-payout"} \X Entries) \cup ({"deposit"} \X Users)

TourKeys == BaseKeys \cup ({"standby-topup"} \X BaseKeys)

TourPostings ==
  [key : TourKeys, type : EntryTypes, amount : Int, after : Nat,
   session : Entries \cup {None}]

TourRows ==
  [status : {"NONE", "REGISTERING", "RUNNING", "FINISHED"},
   setting : {0} \cup DOMAIN Settings, pool : Int]

EntryRows ==
  [status : {"NONE", "REGISTERED", "ELIMINATED", "PAID", "REFUNDED"},
   tour : Tournaments \cup {None}, user : Users \cup {None}, bonus : BOOLEAN,
   position : Nat, prize : Nat, paid : BOOLEAN]

Phases == {"idle", "lookup", "lock", "wallet", "commit", "update", "apply", "grade",
           "entries", "pay"}

\* The types of the rows and of the requests.
TypeOK ==
  /\ balance \in [Users -> Nat]
  /\ ledger \in [Users -> Seq(TourPostings)]
  /\ walletLock \in [Users -> Reqs \cup {None}]
  /\ tours \in [Tournaments -> TourRows]
  /\ entries \in [Entries -> EntryRows]
  /\ tourLock \in [Tournaments -> Reqs \cup {None}]
  /\ \A r \in Reqs :
       /\ req[r].pc \in Phases
       /\ req[r].entry \in 0 .. MaxEntries /\ req[r].winner \in 0 .. MaxEntries

-----------------------------------------------------------------------------
(* Seats.                                                                  *)

\* Nobody in the air, nobody on two seats: everyone alive has a seat at an open
\* table, within its capacity, that nobody else has; who was eliminated or gave
\* up has none; and a table nobody sits at is closed.  Every register, eliminate,
\* cancel and redraw moves seats, and must leave this behind at its commit.
SeatsFollowEntries ==
  \A t \in Tournaments :
    LET room == rooms[t]
    IN  /\ \A e \in AliveIn(t) :
             /\ room.at[e].table \in OpenTables(room)
             /\ room.at[e].seat \in 1 .. room.tables[room.at[e].table].capacity
             /\ \A o \in Entries \ {e} : room.at[o] # room.at[e]
        /\ \A e \in Entries \ AliveIn(t) :
             room.at[e] # NoSeat => entries[e].tour = t /\ entries[e].status = "PAID"
        /\ \A n \in OpenTables(room) : Occupants(room, n) # {}

-----------------------------------------------------------------------------
(* Money.                                                                  *)

\* The postings of one type that some books hold for an entry.
Legs(books, e, type) ==
  UNION {{books[u][i] : i \in {j \in DOMAIN books[u] :
            books[u][j].session = e /\ books[u][j].type = type}} : u \in Users}

Total(postings) == SumFunctionOnSet([x \in postings |-> x.amount], postings)

BuyIns(e) == Legs(ledger, e, "TOURNAMENT_BUY_IN")
Refunds(e) == Legs(ledger, e, "TOURNAMENT_REFUND")
PayoutsOf(e) == Legs(ledger, e, "TOURNAMENT_PAYOUT")

\* The entries of a tournament whose price was not given back; an elimination
\* takes even a cancelled entry out of the status REFUNDED, but not out of these.
Kept(t) == {e \in EntriesOf(t) : Refunds(e) = {}}

\* An entry is paid for exactly once by its own player; a cancelled one gets
\* back exactly what it cost, in the same posting that cancels it; whatever is
\* repeated, fails half way or runs at the same time.
PaidForOnce ==
  \A e \in Entries :
    /\ Cardinality(BuyIns(e)) = (IF entries[e].status = "NONE" THEN 0 ELSE 1)
    /\ \A x \in BuyIns(e) : x \in {ledger[entries[e].user][i] :
                                     i \in DOMAIN ledger[entries[e].user]}
    /\ entries[e].status = "REFUNDED" => Total(Refunds(e)) = -Total(BuyIns(e))
    /\ entries[e].status = "REGISTERED" => Refunds(e) = {}

\* The materialised prize pool is the sum of the buy-ins collected and not
\* refunded, without fee and staff bonus.
PoolIsWhatWasCollected ==
  \A t \in Tournaments :
    tours[t].status # "NONE" =>
      tours[t].pool = Setting(t).buyIn * Cardinality(Kept(t))

\* The last vacancy is sold once, a player has at most one entry alive, and
\* re-enters no oftener than the tournament allows.
VacanciesRespected ==
  \A t \in Tournaments :
    tours[t].status # "NONE" =>
      /\ Cardinality(AliveIn(t)) <= Setting(t).max
      /\ \A u \in Users :
           LET mine == {e \in Kept(t) : entries[e].user = u}
           IN  /\ \A e, f \in AliveIn(t) :
                    entries[e].user = u /\ entries[f].user = u => e = f
               /\ ~Setting(t).reentry => Cardinality(mine) <= 1
               /\ Setting(t).maxReentries > 0 =>
                    Cardinality(mine) <= Setting(t).maxReentries + 1

PrizesOf(t) == UNION {PayoutsOf(e) : e \in EntriesOf(t)}

\* Prizes never exceed the pot they come from by more than the rounding of each
\* share, nor does a position or an entry take two; also when an entry or an
\* elimination commits between the reads of a finish and its lock.
PrizesComeFromThePot ==
  \A t \in Tournaments :
    LET paid == PrizesOf(t)
    IN  /\ Total(paid) <= tours[t].pool + Cardinality(paid)
        /\ paid # {} => tours[t].status = "FINISHED"
        /\ \A e, f \in EntriesOf(t) :
             e # f /\ entries[e].status = "PAID" /\ entries[f].status = "PAID" =>
               entries[e].position # entries[f].position
        /\ \A e \in EntriesOf(t) :
             /\ entries[e].paid <=> PayoutsOf(e) # {}
             /\ entries[e].paid => Total(PayoutsOf(e)) = entries[e].prize

\* Once finished, a tournament neither pays nor collects, and whoever was paid
\* keeps place and prize, also when a second finish that read it before the first
\* one committed comes to pay the same entries.
FinishedIsFinal ==
  [][\A t \in Tournaments :
       tours[t].status = "FINISHED" =>
         /\ tours'[t] = tours[t]
         /\ EntriesOf(t)' = EntriesOf(t)
         /\ \A e \in EntriesOf(t) :
              /\ PayoutsOf(e)' = PayoutsOf(e)
              /\ entries[e].paid => entries'[e] = entries[e]]_vars

\* In a freezeout without late entries the places count down, none twice and none
\* left out: the first of ten is tenth, the last before the champion second.
PlacesCountDown ==
  \A t \in Tournaments :
    LET out == {e \in EntriesOf(t) : entries[e].status = "ELIMINATED"}
        alive == Cardinality(AliveIn(t))
    IN  tours[t].status = "RUNNING" =>
          {entries[e].position : e \in out} = alive + 1 .. alive + Cardinality(out)

\* Every accepted request is answered, deadlocks included: the database aborts
\* one of the transactions that wait for each other.
EveryRequestEnds == \A r \in Reqs : (req[r].pc # "idle") ~> (req[r].pc = "idle")

-----------------------------------------------------------------------------
(* What the repository says of these routes and the code does not keep.    *)

\* updateTournament's comment: if somebody registers in the meantime, the guarded
\* UPDATE matches no row; the configuration is locked after the first entry.
SettingsKept ==
  \A t \in Tournaments :
    tours[t].status # "NONE" /\ NotRefunded(t) # {} =>
      tours'[t].setting = tours[t].setting

SettingLockedByEntries == [][SettingsKept]_vars

\* schema/tournament.prisma: the only way back to a wallet is the prize, credited
\* from the prize pool. A finish that read the pool before a cancellation took the
\* buy-in out of it pays what is no longer there.
PaidFromThePoolThereIs ==
  \A t \in Tournaments : Total(PrizesOf(t)) <= tours[t].pool + Cardinality(PrizesOf(t))
=============================================================================
