---------------------------- MODULE WalletLedger ----------------------------
(***************************************************************************)
(* The wallets of one clube: a materialised balance per wallet, the        *)
(* append-only ledger it is derived from, and the row lock every posting   *)
(* takes first.  Money moves nowhere else: tables and tournaments call     *)
(* ApplyLedgerEntry inside their own transaction, after LockWallet, and    *)
(* the entry is computed from the balance read under that lock.            *)
(***************************************************************************)
EXTENDS Integers, Sequences

CONSTANTS Users,            \* everyone who has, or may be given, a wallet
          Reqs,             \* the requests served, one database transaction each
          PaymentsEnabled,  \* wallet.paymentsEnabled; FALSE is the standby default
          None              \* no lock holder, no session, no user

ASSUME WalletConstants == PaymentsEnabled \in BOOLEAN /\ None \notin Reqs

VARIABLES wallets,          \* the users whose wallet row exists
          balance,          \* wallets.balance
          ledger,           \* wallet_transactions of each wallet, oldest first
          walletLock        \* the request that holds the wallet's row lock, or None

walletVars == <<wallets, balance, ledger, walletLock>>

EntryTypes ==
  {"PIX_DEPOSIT", "TABLE_BUY_IN", "TABLE_CASH_OUT", "TOURNAMENT_BUY_IN",
   "TOURNAMENT_PAYOUT", "TOURNAMENT_REFUND", "ADJUSTMENT"}

\* The unique index on wallet_transactions.idempotencyKey spans all wallets.
KeysUsed == UNION {{ledger[u][i].key : i \in DOMAIN ledger[u]} : u \in Users}

\* Mutant: the unique index is missing, so a retry posts again.
AnyKey(key) == TRUE

KeyUnused(key) == key \notin KeysUsed

TopUpKey(key) == <<"standby-topup", key>>

\* Mutant: the balance is read with a plain SELECT.
NoRowLock(u) == TRUE

LockFree(u) == walletLock[u] = None

\* SELECT ... FOR UPDATE: waits until the row is free, and holds it from here
\* to the end of the transaction.
LockWallet(r, u) ==
  /\ u \in wallets
  /\ LockFree(u)
  /\ walletLock' = [walletLock EXCEPT ![u] = r]
  /\ UNCHANGED <<wallets, balance, ledger>>

\* Commit and rollback both release what the request holds.
Unlocked(r) == [u \in Users |-> IF walletLock[u] = r THEN None ELSE walletLock[u]]

Overdraws(bal, amount) == bal + amount < 0

\* A debit beyond the balance is refused when payments are enabled; a key that
\* is already in the ledger aborts the transaction.
Postable(bal, amount, key) ==
  /\ KeyUnused(key)
  /\ Overdraws(bal, amount) => ~PaymentsEnabled /\ KeyUnused(TopUpKey(key))

\* Mutant: the debit is computed from the balance before the standby credit.
IgnoringTopUp(bal, amount) == bal + amount

\* On standby the shortfall is first credited, so the debit leaves zero.
NewBalance(bal, amount) == IF Overdraws(bal, amount) THEN 0 ELSE bal + amount

\* session is the table session, or the tournament entry, that is paid for.
Entry(key, type, amount, after, session) ==
  [key |-> key, type |-> type, amount |-> amount, after |-> after, session |-> session]

\* Mutant: the shortfall is forgiven without an entry of its own.
WithoutTopUpEntry(bal, amount, type, key, session) ==
  <<Entry(key, type, amount, NewBalance(bal, amount), session)>>

Postings(bal, amount, type, key, session) ==
  LET entry == Entry(key, type, amount, NewBalance(bal, amount), session)
      topUp == Entry(TopUpKey(key), "ADJUSTMENT", -(bal + amount), -amount, None)
  IN  IF Overdraws(bal, amount) THEN <<topUp, entry>> ELSE <<entry>>

\* bal is what the caller read under the lock; the row gets an absolute value.
ApplyLedgerEntry(u, bal, amount, type, key, session) ==
  /\ ledger' = [ledger EXCEPT ![u] = @ \o Postings(bal, amount, type, key, session)]
  /\ balance' = [balance EXCEPT ![u] = NewBalance(bal, amount)]

-----------------------------------------------------------------------------

\* The balance recorded by the entry before position i of a ledger.
AfterPrevious(entries, i) == IF i = 1 THEN 0 ELSE entries[i - 1].after

\* SUM(WalletTransaction.amount) = Wallet.balance, as a chain: every entry
\* starts from the balance the one before it recorded, none goes below zero,
\* and the materialised balance is the one the last entry recorded.  A posting
\* computed from a balance that another transaction has since changed breaks it.
LedgerChain ==
  \A u \in Users :
    /\ \A i \in DOMAIN ledger[u] :
         /\ ledger[u][i].after = AfterPrevious(ledger[u], i) + ledger[u][i].amount
         /\ ledger[u][i].after >= 0
    /\ balance[u] = AfterPrevious(ledger[u], Len(ledger[u]) + 1)
=============================================================================
