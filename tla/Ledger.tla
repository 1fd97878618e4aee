------------------------------- MODULE Ledger -------------------------------
(***************************************************************************)
(* What the bookkeeper promises for its accounts: every call takes place   *)
(* at one instant, or not at all.  Rows are those of the table accounts    *)
(* (models.Account): the available and the locked part of a balance.       *)
(***************************************************************************)
EXTENDS Integers, Sequences

CONSTANTS
  None,      \* no row
  Accounts,  \* user ids with their order (one currency)
  Requests   \* the calls that are made

VARIABLE accounts  \* the rows, by account

\* The row with an amount added to each of its columns (atomicBalanceUpdate).
Add(row, toBalance, toAvailable, toLocked) ==
  [balance   |-> row.balance + toBalance,
   available |-> row.available + toAvailable,
   locked    |-> row.locked + toLocked]

Zero == [balance |-> 0, available |-> 0, locked |-> 0]

\* The amounts a lock (or an unlock) moves can be moved.
CanLock(row, n)   == row # None /\ row.available >= n
CanUnlock(row, n) == row # None /\ row.locked >= n

\* Locks, or unlocks, the amount in each account that allows it.
LockEach(r) ==
  accounts' = [a \in Accounts |->
    IF (\E i \in DOMAIN r.keys : r.keys[i] = a) /\ CanLock(accounts[a], r.amount)
      THEN Add(accounts[a], 0, -r.amount, r.amount) ELSE accounts[a]]

UnlockEach(r) ==
  accounts' = [a \in Accounts |->
    IF (\E i \in DOMAIN r.keys : r.keys[i] = a) /\ CanUnlock(accounts[a], r.amount)
      THEN Add(accounts[a], 0, r.amount, -r.amount) ELSE accounts[a]]

\* Moves the amount between two users; the receiver's account is opened if
\* there is none.
Transfer(r) ==
  LET from == r.keys[1]
      to   == r.keys[2]
  IN  /\ from # to /\ CanLock(accounts[from], r.amount)
      /\ accounts' = [accounts EXCEPT
           ![from] = Add(@, -r.amount, -r.amount, 0),
           ![to]   = Add(IF @ = None THEN Zero ELSE @, r.amount, r.amount, 0)]

Next ==
  \E r \in Requests :
    \/ r.kind \in {"lock", "batchlock"} /\ LockEach(r)
    \/ r.kind \in {"unlock", "batchunlock"} /\ UnlockEach(r)
    \/ r.kind = "transfer" /\ Transfer(r)

\* Whatever the accounts hold in the beginning.
Spec == [][Next]_accounts
=============================================================================
