----------------------------- MODULE MCCashTable -----------------------------
(* Instances of the cash tables for TLC. *)
EXTENDS CashTableProps, TLC

WonOrLost == {-1, 1}

OneRange == {[min |-> 1, max |-> 2]}
AskedRanges == {[min |-> 1, max |-> 2], [min |-> 2, max |-> 1]}

\* Requests and sessions are numbered, and only runs that use the numbers in
\* order are explored: any other run is one of these with the numbers permuted.
UsedInOrder ==
  /\ \A r, q \in Reqs : r < q /\ req[q].pc # "new" => req[r].pc # "new"
  /\ \A s, z \in Sessions : s < z /\ Exists(z) => Exists(s)

\* The same for keys, seats and tables, where that is faster than SYMMETRY or where a
\* temporal property rules SYMMETRY out.
KeysInOrder ==
  \A r \in Reqs, k, j \in Keys :
    j < k /\ req[r].key = k => \E q \in Reqs : q < r /\ req[q].key = j

SeatsInOrder ==
  \A r \in Reqs, n, m \in 1 .. MaxSeats :
    m < n /\ req[r].seat = n => \E q \in Reqs : q < r /\ req[q].seat = m

TablesInOrder ==
  \A t, z \in Tables : z < t /\ tables[t].status # "NONE" => tables[z].status # "NONE"

-----------------------------------------------------------------------------
(* A run explores the union of a few plans: what the clients may call and  *)
(* how many users, tables, keys and seats they use.                        *)

Started == {r \in Reqs : req[r].op # None}
Named(values) == values \ {None}

Follows(plan) ==
  /\ Cardinality(Started) <= plan.requests
  /\ \A r \in Started : req[r].op \in plan.ops /\ req[r].seat <= plan.seats
  /\ \A r \in Started : req[r].op = "movement" => req[r].amount \in plan.results
  /\ Cardinality(Named({req[r].user : r \in Started})) <= plan.users
  /\ Cardinality(Named({req[r].key : r \in Started})) <= plan.keys
  /\ Cardinality({s \in Sessions : Exists(s)}) <= plan.sessions
  /\ Cardinality({t \in Tables : tables[t].status # "NONE"}) <= plan.tables

\* One seat, two keys: re-buys, cash-outs and hand results race on one stack.
OneStack ==
  [ops |-> {"sit", "rebuy", "cashOut", "movement"}, users |-> 1, tables |-> 1,
   requests |-> 4, sessions |-> 2, keys |-> 2, seats |-> 1, results |-> WonOrLost]

\* The table is closed while hand results and a cash-out go on.
Closing ==
  [ops |-> {"sit", "adminCashOut", "movement", "close"}, users |-> 1,
   tables |-> 1, requests |-> 4, sessions |-> 2, keys |-> 2, seats |-> 1,
   results |-> {1}]

\* One wallet pays for a seat at each of two tables.
OneWallet ==
  [ops |-> {"sit", "rebuy", "cashOut"}, users |-> 1, tables |-> 2,
   requests |-> 3, sessions |-> 2, keys |-> 2, seats |-> 1, results |-> {}]

\* The counter: a member and a walk-in at one table, one key for everything.
Counter ==
  [ops |-> {"sit", "sitGuest", "rebuy", "adminCashOut"}, users |-> 1, tables |-> 1,
   requests |-> 4, sessions |-> 2, keys |-> 1, seats |-> 2, results |-> {}]

StackOrClosing == Follows(OneStack) \/ Follows(Closing)
WalletOrCounter == Follows(OneWallet) \/ Follows(Counter)
=============================================================================
