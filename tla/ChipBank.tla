------------------------------ MODULE ChipBank ------------------------------
(***************************************************************************)
(* What the cash tables promise about money, with no requests, retries,    *)
(* locks or versions: every operation happens at one instant.  A member    *)
(* owns a purse (the wallet balance) and the chips of each session they    *)
(* sat down with.  CashTable is shown to implement this specification.     *)
(***************************************************************************)
EXTENDS Integers

CONSTANTS Users,            \* everyone who may own a wallet in the clube
          Sessions,         \* identities of table sessions
          BuyIns,           \* amounts a player may bring to a table
          Results,          \* amounts an admin may add to or take from a stack
          PaymentsEnabled,  \* FALSE while the payment gateway is on standby
          None              \* the owner of a session nobody has opened yet

VARIABLES purse,            \* wallet balance of each user
          chips,            \* chips on the table, per session
          status,           \* "NONE", "ACTIVE" or "CASHED_OUT", per session
          owner             \* who sits in each session

vars == <<purse, chips, status, owner>>

Init ==
  /\ purse \in [Users -> Nat]
  /\ chips = [s \in Sessions |-> 0]
  /\ status = [s \in Sessions |-> "NONE"]
  /\ owner = [s \in Sessions |-> None]

\* A debit beyond the balance is refused, unless payments are on standby, when
\* the missing part is lent and the purse is left empty.
CanPay(u, amount) == ~PaymentsEnabled \/ amount <= purse[u]

Rest(u, amount) == IF amount <= purse[u] THEN purse[u] - amount ELSE 0

Open(s, u, amount) ==
  /\ status[s] = "NONE"
  /\ status' = [status EXCEPT ![s] = "ACTIVE"]
  /\ owner' = [owner EXCEPT ![s] = u]
  /\ chips' = [chips EXCEPT ![s] = amount]

Sit(s, u, amount) ==
  /\ CanPay(u, amount)
  /\ Open(s, u, amount)
  /\ purse' = [purse EXCEPT ![u] = Rest(u, amount)]

\* A walk-in pays cash at the counter: the chips do not come from the purse.
SitPayingCash(s, u, amount) ==
  /\ Open(s, u, amount)
  /\ UNCHANGED purse

Rebuy(s, amount) ==
  /\ status[s] = "ACTIVE"
  /\ CanPay(owner[s], amount)
  /\ chips' = [chips EXCEPT ![s] = @ + amount]
  /\ purse' = [purse EXCEPT ![owner[s]] = Rest(owner[s], amount)]
  /\ UNCHANGED <<status, owner>>

CashOut(s) ==
  /\ status[s] = "ACTIVE"
  /\ status' = [status EXCEPT ![s] = "CASHED_OUT"]
  /\ purse' = [purse EXCEPT ![owner[s]] = @ + chips[s]]
  /\ chips' = [chips EXCEPT ![s] = 0]
  /\ UNCHANGED owner

Result(s, amount) ==
  /\ status[s] = "ACTIVE"
  /\ chips[s] + amount >= 0
  /\ chips' = [chips EXCEPT ![s] = @ + amount]
  /\ UNCHANGED <<purse, status, owner>>

Next ==
  \E s \in Sessions :
    \/ \E u \in Users, amount \in BuyIns :
         Sit(s, u, amount) \/ SitPayingCash(s, u, amount)
    \/ \E amount \in BuyIns : Rebuy(s, amount)
    \/ CashOut(s)
    \/ \E amount \in Results : Result(s, amount)

Spec == Init /\ [][Next]_vars
=============================================================================
