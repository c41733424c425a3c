--------------------------- MODULE CashTableProps ---------------------------
(***************************************************************************)
(* What the cash tables and the wallets behind them must keep true.        *)
(***************************************************************************)
EXTENDS CashTable

DirectKeys ==
  ({"buyin", "rebuy", "cashout", "admin-cashout", "guest-cash-in"} \X Keys)
    \cup ({"close-table"} \X Sessions) \cup ({"deposit"} \X Users)

LedgerKeys == DirectKeys \cup ({"standby-topup"} \X DirectKeys)

Entries ==
  [key : LedgerKeys, type : EntryTypes, amount : Int, after : Nat,
   session : Sessions \cup {None}]

SessionRows ==
  [status : {"NONE", "ACTIVE", "CASHED_OUT"}, user : Users \cup {None},
   table : Tables \cup {None}, seat : Nat, stack : Nat, bought : Nat, cashed : Nat,
   version : Nat]

Moves ==
  [reason : {"BUY_IN", "CASH_OUT", "HAND_RESULT"}, amount : Int, after : Int,
   key : LedgerKeys \cup {None}]

Steps ==
  {"new", "lookup", "read", "lock", "commit", "apply", "insert", "list", "next", "set",
   "done"}

Requests ==
  [pc : Steps, op : Ops \cup {None}, key : Keys \cup {None}, user : Users \cup {None},
   table : Tables \cup {None}, seat : Nat, session : Sessions \cup {None}, amount : Int,
   version : Nat, stack : Nat, bal : Nat, tries : Nat, todo : SUBSET Sessions,
   listed : SUBSET Sessions]

\* The people and the sessions of a clube can be counted, and None is no key.
ASSUME BooksConstants ==
  IsFiniteSet(Users) /\ IsFiniteSet(Sessions) /\ None \notin LedgerKeys

\* The types of the rows and of the local variables of the requests.
TypeOK ==
  /\ wallets \subseteq Users
  /\ balance \in [Users -> Nat]
  /\ ledger \in [Users -> Seq(Entries)]
  /\ walletLock \in [Users -> Reqs \cup {None}]
  /\ tables \in [Tables -> [status : {"NONE", "OPEN", "CLOSED"},
                            range : [min : Nat, max : Nat]]]
  /\ sessions \in [Sessions -> SessionRows]
  /\ movements \in [Sessions -> Seq(Moves)]
  /\ results \in [Sessions -> Int]
  /\ req \in [Reqs -> Requests]

-----------------------------------------------------------------------------

\* No stack update is lost: rebuy, cash-out and recordMovement each write an
\* absolute stack computed from an earlier read, while totalBuyIn and
\* totalCashOut are incremented in place, and still the three columns agree
\* with the results applied so far.  It is the profit formula of the closing
\* report, netResult = totalCashOut + currentStack - totalBuyIn.
NoLostStackUpdate ==
  \A s \in Sessions :
    results[s] = sessions[s].cashed + sessions[s].stack - sessions[s].bought

\* Cash-out pays, in the step that ends the session, exactly the stack the
\* session holds at that step, though the amount was read several awaits
\* earlier; and a session that has ended is never written again, whichever of
\* the four routes that write a session races with it.
CashOutPaysTheStackOnce ==
  [][\A s \in Sessions :
       LET u == sessions[s].user
       IN  /\ Active(s) /\ ~Active(s)' =>
                /\ balance'[u] = balance[u] + sessions[s].stack
                /\ sessions'[s].stack = 0
                /\ sessions'[s].cashed = sessions[s].stack
           /\ sessions[s].status = "CASHED_OUT" => UNCHANGED sessions[s]]_vars

\* The legs of a session in the wallets, and those of its stack ledger.
LegsOf(entries, s) ==
  {<<e.key, e.amount>> : e \in {entries[i] : i \in
     {j \in DOMAIN entries : entries[j].session = s}}}

WalletLegs(books, s) == UNION {LegsOf(books[u], s) : u \in Users}

StackLegs(moves) ==
  {<<m.key, -m.amount>> : m \in {moves[i] : i \in
     {j \in DOMAIN moves : moves[j].key # None}}}

\* What a set of legs adds up to.
LegsTotal(legs) == SumFunctionOnSet([leg \in legs |-> leg[2]], legs)

\* Double entry: every wallet entry of a session has one stack movement of the
\* opposite amount under the same transaction, and the other way round, and the
\* wallet legs add up to what the session says was bought and cashed out.
DoubleEntry ==
  \A s \in Sessions :
    /\ WalletLegs(ledger, s) = StackLegs(movements[s])
    /\ LegsTotal(WalletLegs(ledger, s)) = sessions[s].cashed - sessions[s].bought

\* Money brought into the clube: deposits, cash at the counter, standby loans.
OwnEntries(entries) == {i \in DOMAIN entries : entries[i].session = None}
BroughtIn(entries) ==
  SumFunctionOnSet([i \in DOMAIN entries |-> entries[i].amount], OwnEntries(entries))
Injected == SumFunctionOnSet([u \in Users |-> BroughtIn(ledger[u])], Users)

\* The chips in front of the players.
Chips == [s \in Sessions |-> sessions[s].stack]

\* What is in the wallets and on the tables is what was brought in plus the
\* results the admins applied: no interleaving of buy-ins, re-buys, cash-outs,
\* closings, retries and failures makes money or loses it.
MoneyConserved ==
  SumFunctionOnSet(balance, Users)
    + SumFunctionOnSet(Chips, Sessions)
    = Injected + SumFunctionOnSet(results, Sessions)

\* closeTable marks the table CLOSED only after every session of its list has
\* ended: a cash-out that ran out of attempts, or that found the session already
\* ended by another route, may not leave a listed player behind with chips.
ClosingSettlesWhatItListed ==
  \A r \in Reqs :
    req[r].op = "close" /\ req[r].pc = "next" =>
      \A s \in req[r].listed \ req[r].todo : sessions[s].status = "CASHED_OUT"

\* A request that was accepted is answered: no lock is left behind, and the
\* attempts on a lost optimistic lock are bounded.
EveryRequestEnds == \A r \in Reqs : (req[r].pc # "new") ~> (req[r].pc = "done")

\* The routes with their locks, versions and retries implement the bank in
\* which every operation happens at one instant.
Bank == INSTANCE ChipBank WITH
          purse <- balance,
          chips <- Chips,
          status <- [s \in Sessions |-> sessions[s].status],
          owner <- [s \in Sessions |-> sessions[s].user]

ImplementsChipBank == Bank!Spec

-----------------------------------------------------------------------------
(* What the repository says of these routes and the code does not keep.    *)

\* table.prisma, INVARIANTE CONTABIL: the movements of a session add up to its
\* stack, which is updated in the transaction that inserts the movement.
StackIsSumOfMovements ==
  \A s \in Sessions :
    sessions[s].stack =
      SumFunctionOnSet([i \in DOMAIN movements[s] |-> movements[s][i].amount],
                       DOMAIN movements[s])
=============================================================================
