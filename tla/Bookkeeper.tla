----------------------------- MODULE Bookkeeper -----------------------------
(***************************************************************************)
(* The bookkeeper service (internal/accounts/bookkeeper/service.go): its   *)
(* calls run concurrently, each in one database transaction.  A call is    *)
(* the sequence of the statements that its function issues; one step of    *)
(* the model is one statement.                                             *)
(*                                                                         *)
(* The database (PostgreSQL, at its default level READ COMMITTED) is seen  *)
(* from how the service uses it: a SELECT returns the committed row and    *)
(* takes no lock; SELECT ... FOR UPDATE and Save wait for the lock of the  *)
(* row and keep it until the end; Save writes every column of the struct   *)
(* that was read.  Any statement may fail, which ends the transaction; so  *)
(* does the database's deadlock detector.                                  *)
(***************************************************************************)
EXTENDS Integers, Sequences, FiniteSets

CONSTANTS
  Clients,     \* goroutines that call the service
  Accounts,    \* user ids with their order (one currency)
  Txs,         \* rows of the table transactions
  None,        \* no row, no holder
  Requests,    \* the calls that are made
  TxAmount,    \* amount of a transaction: a deposit, negative for a withdrawal
  InitialDB,   \* the tables in the beginning
  MaxCalls     \* bound on the number of calls

ASSUME AccountsAssumption == Accounts \subseteq Nat /\ Accounts \cap Txs = {}
ASSUME NoneAssumption     == None \notin Clients
ASSUME CallsAssumption    == MaxCalls \in Nat
ASSUME AmountsAssumption  == \A x \in Txs : TxAmount[x] \in Int

\* The rows each kind of call names, and its amount.  That no amount is negative
\* is left to the callers: of all these calls none checks the sign (only
\* EnhancedLockFunds does, line 667, which nothing calls).
ASSUME RequestsAssumption ==
  \A r \in Requests :
    /\ r # None /\ r.amount \in Nat
    /\ \/ r.kind \in {"lock", "unlock"} /\ r.keys \in Seq(Accounts) /\ Len(r.keys) = 1
       \/ r.kind \in {"batchlock", "batchunlock"} /\ r.keys \in Seq(Accounts)
       \/ r.kind = "transfer" /\ r.keys \in Seq(Accounts) /\ Len(r.keys) = 2
       \/ /\ r.kind = "complete" /\ r.keys \in Seq(Accounts \cup Txs) /\ Len(r.keys) = 2
          /\ r.keys[1] \in Txs /\ r.keys[2] \in Accounts
       \/ r.kind = "fail" /\ r.keys \in Seq(Txs) /\ Len(r.keys) = 1

VARIABLES
  db,       \* committed rows of both tables
  rowLock,  \* the client whose database transaction holds the row
  mutex,    \* the client that holds the account's mutex in muMap
  call,     \* the call each client has in progress
  granted,  \* amounts locked by calls that succeeded, less those unlocked
  calls     \* number of calls so far

vars == <<db, rowLock, mutex, call, granted, calls>>

Keys == Accounts \cup Txs
L    == INSTANCE Ledger WITH accounts <- [a \in Accounts |-> db[a]]

Rows     == [balance : Int, available : Int, locked : Int]
Statuses == {"pending", "completed", "failed"}

ASSUME NoRowAssumption == None \notin Rows

\* Rows of accounts and statuses of transactions, or nothing.
TableOK(t) ==
  /\ t = [k \in Keys |-> t[k]]
  /\ \A a \in Accounts : t[a] \in Rows \cup {None}
  /\ \A x \in Txs : t[x] \in Statuses \cup {None}

\* A row whose parts make up its balance, none of them negative.
AddsUp(row) ==
  /\ row.balance = row.available + row.locked
  /\ row.available >= 0 /\ row.locked >= 0

ASSUME InitialAssumption ==
  /\ TableOK(InitialDB)
  /\ \A a \in Accounts : InitialDB[a] # None => AddsUp(InitialDB[a])

NoCall == [req |-> None, at |-> 0, seen |-> <<>>, dirty |-> [k \in Keys |-> None]]

(***************************************************************************)
(* The statements of each call.  Slot n stands for the row of r.keys[n].   *)
(***************************************************************************)
Stmt(do, slot) == [do |-> do, slot |-> slot]

\* LockFunds and UnlockFunds: a plain SELECT, then Save.
PlainUpdate == <<Stmt("read", 1), Stmt("save", 1)>>

\* BatchLockFunds and BatchUnlockFunds: FOR UPDATE and Save for each operation
\* (of at most 50, each account once: longer ones are cut into several calls).
BatchUpdate_Plain(r) ==   \* mutant: a plain SELECT
  [i \in 1..2 * Len(r.keys) |->
     IF i % 2 = 1 THEN Stmt("read", (i + 1) \div 2) ELSE Stmt("save", i \div 2)]
BatchUpdate(r) ==
  [i \in 1..2 * Len(r.keys) |->
     IF i % 2 = 1 THEN Stmt("forupdate", (i + 1) \div 2) ELSE Stmt("save", i \div 2)]

\* TransferFunds takes the mutexes of both accounts in the order of the users,
\* one only if they are the same.
MutexOrder_Unsorted(r) == IF r.keys[1] = r.keys[2] THEN <<1>> ELSE <<1, 2>>   \* mutant: from, then to
MutexOrder(r) ==
  IF r.keys[1] = r.keys[2] THEN <<1>>
  ELSE IF r.keys[1] < r.keys[2] THEN <<1, 2>> ELSE <<2, 1>>

TransferBetween(r) ==
  [i \in 1..Len(MutexOrder(r)) |-> Stmt("mutex", MutexOrder(r)[i])]
    \o <<Stmt("forupdate", 1), Stmt("forupdate", 2), Stmt("save", 1), Stmt("save", 2)>>

\* CompleteTransaction reads the transaction (slot 1) and its account (slot 2)
\* and saves the account, then the transaction; FailTransaction the former only.
Complete == <<Stmt("read", 1), Stmt("read", 2), Stmt("save", 2), Stmt("save", 1)>>
FailTx   == <<Stmt("read", 1), Stmt("save", 1)>>

Program(r) ==
  CASE r.kind \in {"lock", "unlock"}           -> PlainUpdate
    [] r.kind \in {"batchlock", "batchunlock"} -> BatchUpdate(r)
    [] r.kind = "transfer"                     -> TransferBetween(r)
    [] r.kind = "complete"                     -> Complete
    [] r.kind = "fail"                         -> FailTx

(***************************************************************************)
(* What a call makes of the rows it has seen.                              *)
(***************************************************************************)

\* The checks: the call, or the operation of a batch, ends here.  (A deposit
\* passes the one of CompleteTransaction whenever there is an account.)
Refused_Unchecked(r, seen) ==   \* mutant: the balances are not checked
  CASE r.kind = "transfer" -> seen[1] = None
    [] r.kind = "complete" -> seen[1] \in {None, "completed"} \/ (Len(seen) = 2 /\ seen[2] = None)
    [] r.kind = "fail"     -> seen[1] \in {None, "completed", "failed"}
    [] OTHER -> seen[Len(seen)] = None
Refused(r, seen) ==
  CASE r.kind \in {"lock", "batchlock"}     -> ~L!CanLock(seen[Len(seen)], r.amount)
    [] r.kind \in {"unlock", "batchunlock"} -> ~L!CanUnlock(seen[Len(seen)], r.amount)
    [] r.kind = "transfer" -> seen[1] = None \/ (Len(seen) = 2 /\ ~L!CanLock(seen[1], r.amount))
    [] r.kind = "complete" -> \/ seen[1] \in {None, "completed"}
                              \/ Len(seen) = 2 /\ ~L!CanLock(seen[2], -TxAmount[r.keys[1]])
    [] r.kind = "fail"     -> seen[1] \in {None, "completed", "failed"}

\* The struct that is saved in a slot.
Saved_HalfTransfer(r, seen, slot) ==   \* mutant: the receiver's balance is forgotten
  CASE r.kind \in {"lock", "batchlock"}     -> L!Add(seen[slot], 0, -r.amount, r.amount)
    [] r.kind \in {"unlock", "batchunlock"} -> L!Add(seen[slot], 0, r.amount, -r.amount)
    [] r.kind = "transfer" /\ slot = 1      -> L!Add(seen[1], -r.amount, -r.amount, 0)
    [] r.kind = "transfer" /\ slot = 2      -> L!Add(seen[2], 0, r.amount, 0)
    [] r.kind = "complete" /\ slot = 2      -> L!Add(seen[2], TxAmount[r.keys[1]], TxAmount[r.keys[1]], 0)
    [] r.kind = "complete" /\ slot = 1      -> "completed"
    [] r.kind = "fail"                      -> "failed"
Saved_Voided(r, seen, slot) ==   \* mutant: a status that no reader knows
  IF r.kind = "fail" THEN "voided" ELSE Saved_HalfTransfer(r, seen, slot)
Saved(r, seen, slot) ==
  CASE r.kind \in {"lock", "batchlock"}     -> L!Add(seen[slot], 0, -r.amount, r.amount)
    [] r.kind \in {"unlock", "batchunlock"} -> L!Add(seen[slot], 0, r.amount, -r.amount)
    [] r.kind = "transfer" /\ slot = 1      -> L!Add(seen[1], -r.amount, -r.amount, 0)
    [] r.kind = "transfer" /\ slot = 2      -> L!Add(seen[2], r.amount, r.amount, 0)
    [] r.kind = "complete" /\ slot = 2      -> L!Add(seen[2], TxAmount[r.keys[1]], TxAmount[r.keys[1]], 0)
    [] r.kind = "complete" /\ slot = 1      -> "completed"
    [] r.kind = "fail"                      -> "failed"

(***************************************************************************)
(* Steps.                                                                  *)
(***************************************************************************)
Init ==
  /\ db      = InitialDB
  /\ rowLock = [k \in Keys |-> None]
  /\ mutex   = [a \in Accounts |-> None]
  /\ call    = [c \in Clients |-> NoCall]
  /\ granted = [a \in Accounts |-> IF db[a] = None THEN 0 ELSE db[a].locked]
  /\ calls   = 0

Running(c) == call[c].req # None
Finished(c) == call[c].at > Len(Program(call[c].req))

\* The statement that c comes to next, and its row.
Now(c) == Program(call[c].req)[call[c].at]
Row(c) == call[c].req.keys[Now(c).slot]
At(c, do) == Running(c) /\ ~Finished(c) /\ Now(c).do = do

Batch(c) == call[c].req.kind \in {"batchlock", "batchunlock"}

\* A check failed on what has been read (each operation of a batch has its own).
Rejected(c) ==
  /\ call[c].seen # <<>>
  /\ Batch(c) => At(c, "save")
  /\ Refused(call[c].req, call[c].seen)

\* A transaction sees its own writes and what others have committed.
Visible(c, k) == IF call[c].dirty[k] # None THEN call[c].dirty[k] ELSE db[k]

Free(k, c) == rowLock[k] \in {None, c}

Invoke(c, r) ==
  /\ ~Running(c) /\ calls < MaxCalls
  /\ call'  = [call EXCEPT ![c] = [NoCall EXCEPT !.req = r, !.at = 1]]
  /\ calls' = calls + 1
  /\ UNCHANGED <<db, rowLock, mutex, granted>>

TakeMutex(c) ==
  /\ At(c, "mutex")
  /\ mutex[Row(c)] = None
  /\ mutex' = [mutex EXCEPT ![Row(c)] = c]
  /\ call'  = [call EXCEPT ![c].at = @ + 1]
  /\ UNCHANGED <<db, rowLock, granted, calls>>

\* A plain SELECT.
Read(c) ==
  /\ At(c, "read") /\ ~Rejected(c)
  /\ call' = [call EXCEPT ![c].at = @ + 1,
                          ![c].seen = Append(@, Visible(c, Row(c)))]
  /\ UNCHANGED <<db, rowLock, mutex, granted, calls>>

\* SELECT ... FOR UPDATE; TransferFunds creates the receiver's row if there is none.
ForUpdate(c) ==
  LET k == Row(c)
      found == Visible(c, k) # None
      creates == call[c].req.kind = "transfer" /\ Now(c).slot = 2
  IN  /\ At(c, "forupdate") /\ ~Rejected(c)
      /\ found => Free(k, c)
      /\ rowLock' = IF found THEN [rowLock EXCEPT ![k] = c] ELSE rowLock
      /\ call' = [call EXCEPT ![c].at = @ + 1,
                   ![c].seen = Append(@, IF ~found /\ creates THEN L!Zero ELSE Visible(c, k))]
      /\ UNCHANGED <<db, mutex, granted, calls>>

\* Save: UPDATE of every column, under the row's lock.
Save(c) ==
  LET k == Row(c) IN
  /\ At(c, "save") /\ ~Rejected(c)
  /\ Free(k, c)
  /\ rowLock' = [rowLock EXCEPT ![k] = c]
  /\ call' = [call EXCEPT ![c].at = @ + 1,
               ![c].dirty[k] = Saved(call[c].req, call[c].seen, Now(c).slot)]
  /\ UNCHANGED <<db, mutex, granted, calls>>

\* Locks and mutexes are released when the transaction is over.
Release(c) ==
  /\ rowLock' = [k \in Keys |-> IF rowLock[k] = c THEN None ELSE rowLock[k]]
  /\ mutex'   = [a \in Accounts |-> IF mutex[a] = c THEN None ELSE mutex[a]]
  /\ call'    = [call EXCEPT ![c] = NoCall]
  /\ UNCHANGED calls

\* An operation of a batch that is rejected is noted in FailedItems.
SkipOperation(c) ==
  /\ Running(c) /\ Batch(c) /\ Rejected(c)
  /\ call' = [call EXCEPT ![c].at = @ + 1]
  /\ UNCHANGED <<db, rowLock, mutex, granted, calls>>

\* Any other call that is rejected rolls back and returns an error.
Reject(c) ==
  /\ Running(c) /\ ~Batch(c) /\ Rejected(c)
  /\ Release(c)
  /\ UNCHANGED <<db, granted>>

\* What the caller may count on: the amounts its locks moved.
LockedBy(c, a) ==
  IF call[c].dirty[a] = None THEN 0
  ELSE CASE call[c].req.kind \in {"lock", "batchlock"}     -> call[c].req.amount
         [] call[c].req.kind \in {"unlock", "batchunlock"} -> -call[c].req.amount
         [] OTHER -> 0

Commit(c) ==
  /\ Running(c) /\ Finished(c)
  /\ db' = [k \in Keys |-> Visible(c, k)]
  /\ granted' = [a \in Accounts |-> granted[a] + LockedBy(c, a)]
  /\ Release(c)

\* A statement fails, or the database chooses the call as the victim of a deadlock.
Abort(c) ==
  /\ Running(c)
  /\ Release(c)
  /\ UNCHANGED <<db, granted>>

Step(c) ==
  \/ TakeMutex(c) \/ Read(c) \/ ForUpdate(c) \/ Save(c)
  \/ SkipOperation(c) \/ Reject(c) \/ Commit(c)

Next == \E c \in Clients : Step(c) \/ Abort(c) \/ \E r \in Requests : Invoke(c, r)

Spec == Init /\ [][Next]_vars

(***************************************************************************)
(* Fairness: a statement that can be executed is executed, and the         *)
(* database breaks a cycle of clients that wait for each other's rows.  It *)
(* knows nothing of the mutexes.                                           *)
(***************************************************************************)
WaitsForRow(c) ==
  /\ At(c, "forupdate") \/ At(c, "save")
  /\ ~Rejected(c) /\ ~Free(Row(c), c)

InCycle(c) ==
  /\ WaitsForRow(c)
  /\ \E S \in SUBSET Clients :
       /\ c \in S
       /\ \A d \in S : WaitsForRow(d) /\ rowLock[Row(d)] \in S

Fairness == \A c \in Clients : WF_vars(Step(c)) /\ WF_vars(InCycle(c) /\ Abort(c))

FairSpec == Spec /\ Fairness

------------------------------------------------------------------------------
TypeOK ==
  /\ TableOK(db)
  /\ rowLock \in [Keys -> Clients \cup {None}]
  /\ mutex \in [Accounts -> Clients \cup {None}]
  /\ \A c \in Clients :
       /\ call[c].req \in Requests \cup {None}
       /\ call[c].at \in Nat
       /\ Running(c) => Len(call[c].seen) <= Len(call[c].req.keys)
       /\ TableOK(call[c].dirty)
  /\ granted \in [Accounts -> Int]
  /\ calls \in 0..MaxCalls

\* Whatever the interleaving, every committed row adds up and no part of it is
\* negative: Save writes whole rows, each computed from a row that was checked
\* (LockFunds .. FailTransaction).
RowsAddUp == \A a \in Accounts : db[a] # None => AddsUp(db[a])

\* Funds that callers were told are locked are locked, neither more nor less.
\* (service.go:426 "safely updates balance, available, and locked fields
\* atomically within a transaction".)
LocksAreBacked ==
  \A a \in Accounts : db[a] # None => db[a].locked = granted[a]

\* Calls that read with FOR UPDATE are atomic: batches and transfers between
\* different users implement Ledger.
ImplementsLedger == L!Spec

\* Money is neither made nor lost: what a step adds to one balance it takes from one
\* other, whatever calls overlap (TransferFunds; batches move no money).
Balance(t, a) == IF t[a] = None THEN 0 ELSE t[a].balance
Gain(a) == Balance(db', a) - Balance(db, a)
MoneyIsKept ==
  [][\A a \in Accounts : Gain(a) # 0 =>
       \E b \in Accounts \ {a} :
         Gain(a) + Gain(b) = 0 /\ \A d \in Accounts \ {a, b} : Gain(d) = 0]_vars

\* The database's detector sees every standoff: clients that all wait for each
\* other, for mutexes or for rows, include a cycle of clients that wait for rows
\* (TransferFunds sorts its mutexes and takes them before it touches a row).
WaitsFor(c, d) ==
  \/ At(c, "mutex") /\ mutex[Row(c)] = d
  \/ WaitsForRow(c) /\ rowLock[Row(c)] = d
StandoffsAreSeen ==
  \A S \in SUBSET Clients :
    (IsFiniteSet(S) /\ S # {} /\ \A c \in S : \E d \in S : WaitsFor(c, d))
      => \E c \in S : InCycle(c)

\* Every call returns: the order of the mutexes, and the database's detector,
\* leave no standoff.
EveryCallReturns == \A c \in Clients : Running(c) ~> ~Running(c)
=============================================================================
