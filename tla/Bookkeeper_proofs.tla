------------------------- MODULE Bookkeeper_proofs -------------------------
(***************************************************************************)
(* Type correctness and RowsAddUp, for every number of clients, accounts,  *)
(* transactions and calls, and batches of any length.                      *)
(*                                                                         *)
(* RowsAddUp speaks of committed rows.  It is inductive together with what *)
(* a call in progress has read and written: its uncommitted rows add up,   *)
(* and so does every row it has seen and will compute from.  How many rows *)
(* a call has seen, and which of them exist, depends on the statement that *)
(* it comes to next (Progress).                                            *)
(*                                                                         *)
(* The last part is about standoffs: what a client holds while it waits    *)
(* (MutexesHeld, RowsHeld) leaves no cycle of waiting clients but one of   *)
(* clients that wait for rows, which the database sees.                    *)
(***************************************************************************)
EXTENDS Bookkeeper, SequenceTheorems, FiniteSetTheorems, WellFoundedInduction, TLAPS

Values == Rows \cup Statuses \cup {None}

\* No row, or one that adds up.
Sound(row) == row = None \/ (row \in Rows /\ AddsUp(row))

Tables == {t \in [Keys -> Values] :
             /\ \A a \in Accounts : Sound(t[a])
             /\ \A x \in Txs : t[x] \in Statuses \cup {None}}

Calls == [req : Requests \cup {None}, at : Nat, seen : Seq(Values), dirty : Tables]

(***************************************************************************)
(* What a call that is at a statement has seen, by kind of call.           *)
(***************************************************************************)
PlainProgress(k) ==
  /\ k.at \in 1..3
  /\ Len(k.seen) = (IF k.at = 1 THEN 0 ELSE 1)
  /\ k.at > 1 => Sound(k.seen[1])

BatchProgress(k) ==
  /\ k.at \in 1..2 * Len(k.req.keys) + 1
  /\ \/ k.at = 2 * Len(k.seen)
     \/ k.at = 2 * Len(k.seen) + 1
  /\ \A i \in 1..Len(k.seen) : Sound(k.seen[i])

\* m mutexes come first; the receiver's row exists, or is created, once it is read.
TransferProgress(k) ==
  LET m == Len(MutexOrder(k.req)) IN
  /\ k.at \in 1..m + 5
  /\ Len(k.seen) = (IF k.at <= m + 1 THEN 0 ELSE IF k.at = m + 2 THEN 1 ELSE 2)
  /\ k.at > m + 1 => Sound(k.seen[1])
  /\ k.at > m + 2 => k.seen[2] \in Rows /\ AddsUp(k.seen[2])

CompleteProgress(k) ==
  /\ k.at \in 1..5
  /\ Len(k.seen) = (IF k.at = 1 THEN 0 ELSE IF k.at = 2 THEN 1 ELSE 2)
  /\ k.at > 2 => Sound(k.seen[2])

FailProgress(k) ==
  /\ k.at \in 1..3
  /\ Len(k.seen) = (IF k.at = 1 THEN 0 ELSE 1)

Progress(k) ==
  /\ k.req.kind \in {"lock", "unlock"} => PlainProgress(k)
  /\ k.req.kind \in {"batchlock", "batchunlock"} => BatchProgress(k)
  /\ k.req.kind = "transfer" => TransferProgress(k)
  /\ k.req.kind = "complete" => CompleteProgress(k)
  /\ k.req.kind = "fail" => FailProgress(k)

CallsOK ==
  /\ call \in [Clients -> Calls]
  /\ \A c \in Clients : Running(c) => Progress(call[c])

OtherTypes ==
  /\ rowLock \in [Keys -> Clients \cup {None}]
  /\ mutex \in [Accounts -> Clients \cup {None}]
  /\ granted \in [Accounts -> Int]
  /\ calls \in 0..MaxCalls

IInv == db \in Tables /\ CallsOK /\ OtherTypes

-----------------------------------------------------------------------------
(***************************************************************************)
(* The statements of each kind of call.                                    *)
(***************************************************************************)
Kinds == {"lock", "unlock", "batchlock", "batchunlock", "transfer", "complete", "fail"}

LEMMA RequestTypes ==
  ASSUME NEW r \in Requests
  PROVE  /\ r # None /\ r.amount \in Nat /\ r.kind \in Kinds
         /\ r.keys \in Seq(Keys)
         /\ r.kind \in {"lock", "unlock"} => Len(r.keys) = 1 /\ r.keys[1] \in Accounts
         /\ r.kind \in {"batchlock", "batchunlock"} =>
              \A i \in 1..Len(r.keys) : r.keys[i] \in Accounts
         /\ r.kind = "transfer" =>
              Len(r.keys) = 2 /\ r.keys[1] \in Accounts /\ r.keys[2] \in Accounts
         /\ r.kind = "complete" =>
              Len(r.keys) = 2 /\ r.keys[1] \in Txs /\ r.keys[2] \in Accounts
         /\ r.kind = "fail" => Len(r.keys) = 1 /\ r.keys[1] \in Txs
<1>1. r # None /\ r.amount \in Nat /\ r.kind \in Kinds
  BY RequestsAssumption DEF Kinds
<1>2. r.keys \in Seq(Keys)
  <2>1. Seq(Accounts) \subseteq Seq(Keys) /\ Seq(Txs) \subseteq Seq(Keys)
    BY DEF Keys
  <2> QED BY <2>1, RequestsAssumption DEF Keys
<1>3. \A i \in 1..Len(r.keys) :
        /\ r.keys \in Seq(Accounts) => r.keys[i] \in Accounts
        /\ r.keys \in Seq(Txs) => r.keys[i] \in Txs
  OBVIOUS
<1> QED BY <1>1, <1>2, <1>3, RequestsAssumption

LEMMA PlainProgram ==
  ASSUME NEW r \in Requests, r.kind \in {"lock", "unlock"}
  PROVE  /\ Len(Program(r)) = 2
         /\ Program(r)[1] = Stmt("read", 1) /\ Program(r)[2] = Stmt("save", 1)
BY DEF Program, PlainUpdate

LEMMA BatchProgram ==
  ASSUME NEW r \in Requests, r.kind \in {"batchlock", "batchunlock"}
  PROVE  /\ Len(Program(r)) = 2 * Len(r.keys)
         /\ \A n \in 1..Len(r.keys) :
              /\ Program(r)[2 * n - 1] = Stmt("forupdate", n)
              /\ Program(r)[2 * n] = Stmt("save", n)
<1>1. Len(r.keys) \in Nat /\ Program(r) = BatchUpdate(r)
  BY RequestTypes DEF Program
<1>2. ASSUME NEW n \in 1..Len(r.keys)
      PROVE  /\ (2 * n - 1) % 2 = 1 /\ (2 * n) % 2 = 0
             /\ ((2 * n - 1) + 1) \div 2 = n /\ (2 * n) \div 2 = n
             /\ 2 * n - 1 \in 1..2 * Len(r.keys) /\ 2 * n \in 1..2 * Len(r.keys)
  BY <1>1, <1>2
<1>3. DOMAIN BatchUpdate(r) = 1..2 * Len(r.keys) /\ Len(BatchUpdate(r)) = 2 * Len(r.keys)
  BY <1>1 DEF BatchUpdate
<1> QED BY <1>1, <1>2, <1>3 DEF BatchUpdate

LEMMA MutexOrderType ==
  ASSUME NEW r \in Requests, r.kind = "transfer"
  PROVE  /\ Len(MutexOrder(r)) \in 1..2
         /\ \A i \in 1..Len(MutexOrder(r)) : MutexOrder(r)[i] \in 1..2
<1>1. CASE r.keys[1] = r.keys[2]
  BY <1>1 DEF MutexOrder
<1>2. CASE r.keys[1] # r.keys[2] /\ r.keys[1] < r.keys[2]
  BY <1>2 DEF MutexOrder
<1>3. CASE r.keys[1] # r.keys[2] /\ ~(r.keys[1] < r.keys[2])
  BY <1>3 DEF MutexOrder
<1> QED BY <1>1, <1>2, <1>3

LEMMA TransferProgram ==
  ASSUME NEW r \in Requests, r.kind = "transfer",
         NEW m, m = Len(MutexOrder(r))
  PROVE  /\ Len(Program(r)) = m + 4
         /\ \A i \in 1..m : Program(r)[i] = Stmt("mutex", MutexOrder(r)[i])
         /\ Program(r)[m + 1] = Stmt("forupdate", 1) /\ Program(r)[m + 2] = Stmt("forupdate", 2)
         /\ Program(r)[m + 3] = Stmt("save", 1) /\ Program(r)[m + 4] = Stmt("save", 2)
<1> DEFINE S == [do : {"mutex", "forupdate", "save"}, slot : 1..2]
           p == [i \in 1..m |-> Stmt("mutex", MutexOrder(r)[i])]
           q == <<Stmt("forupdate", 1), Stmt("forupdate", 2), Stmt("save", 1), Stmt("save", 2)>>
<1>1. m \in 1..2 /\ Program(r) = p \o q
  BY MutexOrderType DEF Program, TransferBetween
<1>2. p \in Seq(S) /\ Len(p) = m
  <2>1. \A i \in 1..m : p[i] \in S
    BY MutexOrderType DEF Stmt
  <2> QED BY <1>1, <2>1
<1>3. q \in Seq(S) /\ Len(q) = 4
  BY DEF Stmt
<1>4. /\ Len(p \o q) = m + 4
      /\ \A i \in 1..m + 4 : (p \o q)[i] = IF i <= m THEN p[i] ELSE q[i - m]
  <2> HIDE DEF S, p, q
  <2>1. /\ Len(p \o q) = Len(p) + Len(q)
        /\ \A i \in 1..Len(p) + Len(q) : (p \o q)[i] = IF i <= Len(p) THEN p[i] ELSE q[i - Len(p)]
    BY <1>2, <1>3, ConcatProperties, Zenon
  <2> QED BY <1>2, <1>3, <2>1
<1>5. /\ q[1] = Stmt("forupdate", 1) /\ q[2] = Stmt("forupdate", 2)
      /\ q[3] = Stmt("save", 1) /\ q[4] = Stmt("save", 2)
  OBVIOUS
<1>6. \A i \in 1..m : p[i] = Stmt("mutex", MutexOrder(r)[i])
  OBVIOUS
<1> HIDE DEF p, q
<1>7. /\ (p \o q)[m + 1] = q[1] /\ (p \o q)[m + 2] = q[2]
      /\ (p \o q)[m + 3] = q[3] /\ (p \o q)[m + 4] = q[4]
  BY <1>1, <1>4
<1> QED BY <1>1, <1>4, <1>5, <1>6, <1>7

LEMMA CompleteProgram ==
  ASSUME NEW r \in Requests, r.kind = "complete"
  PROVE  /\ Len(Program(r)) = 4
         /\ Program(r)[1] = Stmt("read", 1) /\ Program(r)[2] = Stmt("read", 2)
         /\ Program(r)[3] = Stmt("save", 2) /\ Program(r)[4] = Stmt("save", 1)
BY DEF Program, Complete

LEMMA FailProgram ==
  ASSUME NEW r \in Requests, r.kind = "fail"
  PROVE  /\ Len(Program(r)) = 2
         /\ Program(r)[1] = Stmt("read", 1) /\ Program(r)[2] = Stmt("save", 1)
BY DEF Program, FailTx

-----------------------------------------------------------------------------
(***************************************************************************)
(* Where a call is, and what it sees and saves there.                      *)
(***************************************************************************)
LEMMA CallTypes ==
  ASSUME CallsOK, NEW c \in Clients, Running(c)
  PROVE  /\ call[c] \in Calls /\ call[c].req \in Requests /\ call[c].at \in Nat
         /\ call[c].seen \in Seq(Values) /\ Len(call[c].seen) \in Nat
         /\ call[c].dirty \in Tables /\ Progress(call[c])
<1>1. call[c] \in Calls /\ Progress(call[c]) /\ call[c].req # None
  BY DEF CallsOK, Running
<1> QED BY <1>1 DEF Calls

LEMMA PlainPosition ==
  ASSUME CallsOK, NEW c \in Clients, Running(c), ~Finished(c),
         call[c].req.kind \in {"lock", "unlock"}
  PROVE  \/ call[c].at = 1 /\ Now(c) = Stmt("read", 1) /\ Len(call[c].seen) = 0
         \/ /\ call[c].at = 2 /\ Now(c) = Stmt("save", 1)
            /\ Len(call[c].seen) = 1 /\ Sound(call[c].seen[1])
<1>1. call[c].req \in Requests /\ PlainProgress(call[c])
  BY CallTypes DEF Progress
<1>2. call[c].at \in 1..2
  <2>1. Len(Program(call[c].req)) = 2
    BY <1>1, PlainProgram
  <2>2. ~(call[c].at > 2)
    BY <2>1 DEF Finished
  <2> QED BY <1>1, <2>2 DEF PlainProgress
<1> QED BY <1>1, <1>2, PlainProgram DEF PlainProgress, Now

LEMMA BatchPosition ==
  ASSUME CallsOK, NEW c \in Clients, Running(c), ~Finished(c),
         call[c].req.kind \in {"batchlock", "batchunlock"}
  PROVE  LET n == Len(call[c].seen) IN
         /\ \A i \in 1..n : Sound(call[c].seen[i])
         /\ \/ /\ call[c].at = 2 * n + 1 /\ n + 1 \in 1..Len(call[c].req.keys)
               /\ Now(c) = Stmt("forupdate", n + 1)
            \/ /\ call[c].at = 2 * n /\ n \in 1..Len(call[c].req.keys)
               /\ Now(c) = Stmt("save", n)
<1> DEFINE n == Len(call[c].seen)
<1>1. /\ call[c].req \in Requests /\ BatchProgress(call[c]) /\ n \in Nat
      /\ Len(call[c].req.keys) \in Nat
  BY CallTypes, RequestTypes DEF Progress
<1>2. call[c].at \in 1..2 * Len(call[c].req.keys)
  BY <1>1, BatchProgram DEF Finished, BatchProgress
<1>3. CASE call[c].at = 2 * n
  <2>1. n \in 1..Len(call[c].req.keys)
    BY <1>1, <1>2, <1>3
  <2> QED BY <1>1, <1>3, <2>1, BatchProgram DEF BatchProgress, Now
<1>4. CASE call[c].at = 2 * n + 1
  <2>1. n + 1 \in 1..Len(call[c].req.keys)
    <3>1. \A l, a, k \in Nat : a = 2 * k + 1 /\ a <= 2 * l => k + 1 \in 1..l
      OBVIOUS
    <3>2. call[c].at \in Nat /\ call[c].at <= 2 * Len(call[c].req.keys)
      BY <1>1, <1>2
    <3> QED BY <1>1, <1>4, <3>1, <3>2
  <2>2. 2 * (n + 1) - 1 = 2 * n + 1
    BY <1>1
  <2>3. Program(call[c].req)[2 * (n + 1) - 1] = Stmt("forupdate", n + 1)
    BY <1>1, <2>1, BatchProgram
  <2> QED BY <1>1, <1>4, <2>1, <2>2, <2>3 DEF BatchProgress, Now
<1> QED BY <1>1, <1>3, <1>4 DEF BatchProgress

LEMMA TransferPosition ==
  ASSUME CallsOK, NEW c \in Clients, Running(c), ~Finished(c), call[c].req.kind = "transfer"
  PROVE  LET m == Len(MutexOrder(call[c].req)) IN
         \/ call[c].at \in 1..m /\ Len(call[c].seen) = 0 /\ Now(c).do = "mutex"
         \/ call[c].at = m + 1 /\ Now(c) = Stmt("forupdate", 1) /\ Len(call[c].seen) = 0
         \/ /\ call[c].at = m + 2 /\ Now(c) = Stmt("forupdate", 2)
            /\ Len(call[c].seen) = 1 /\ Sound(call[c].seen[1])
         \/ /\ \/ call[c].at = m + 3 /\ Now(c) = Stmt("save", 1)
               \/ call[c].at = m + 4 /\ Now(c) = Stmt("save", 2)
            /\ Len(call[c].seen) = 2 /\ Sound(call[c].seen[1])
            /\ call[c].seen[2] \in Rows /\ AddsUp(call[c].seen[2])
<1> DEFINE m == Len(MutexOrder(call[c].req))
<1>1. call[c].req \in Requests /\ TransferProgress(call[c]) /\ m \in 1..2
  BY CallTypes, MutexOrderType DEF Progress
<1>2. call[c].at \in 1..m + 4
  <2>1. Len(Program(call[c].req)) = m + 4
    BY <1>1, TransferProgram
  <2>2. ~(call[c].at > m + 4)
    BY <2>1 DEF Finished
  <2> QED BY <1>1, <2>2 DEF TransferProgress
<1>3. call[c].at \in 1..m => Now(c).do = "mutex"
  <2>1. \A i \in 1..m : Program(call[c].req)[i] = Stmt("mutex", MutexOrder(call[c].req)[i])
    BY <1>1, TransferProgram
  <2>2. call[c].at \in 1..m => Now(c) = Stmt("mutex", MutexOrder(call[c].req)[call[c].at])
    BY <2>1 DEF Now
  <2> QED BY <2>2 DEF Stmt
<1>4. /\ Program(call[c].req)[m + 1] = Stmt("forupdate", 1)
      /\ Program(call[c].req)[m + 2] = Stmt("forupdate", 2)
      /\ Program(call[c].req)[m + 3] = Stmt("save", 1) /\ Program(call[c].req)[m + 4] = Stmt("save", 2)
  BY <1>1, TransferProgram
<1>5. call[c].at \in 1..m \/ call[c].at = m + 1 \/ call[c].at = m + 2 \/ call[c].at = m + 3 \/ call[c].at = m + 4
  BY <1>1, <1>2
<1> QED BY <1>1, <1>3, <1>4, <1>5 DEF TransferProgress, Now

LEMMA CompletePosition ==
  ASSUME CallsOK, NEW c \in Clients, Running(c), ~Finished(c), call[c].req.kind = "complete"
  PROVE  \/ call[c].at = 1 /\ Now(c) = Stmt("read", 1) /\ Len(call[c].seen) = 0
         \/ call[c].at = 2 /\ Now(c) = Stmt("read", 2) /\ Len(call[c].seen) = 1
         \/ /\ \/ call[c].at = 3 /\ Now(c) = Stmt("save", 2)
               \/ call[c].at = 4 /\ Now(c) = Stmt("save", 1)
            /\ Len(call[c].seen) = 2 /\ Sound(call[c].seen[2])
<1>1. call[c].req \in Requests /\ CompleteProgress(call[c])
  BY CallTypes DEF Progress
<1>2. call[c].at \in 1..4
  <2>1. Len(Program(call[c].req)) = 4
    BY <1>1, CompleteProgram
  <2>2. ~(call[c].at > 4)
    BY <2>1 DEF Finished
  <2> QED BY <1>1, <2>2 DEF CompleteProgress
<1> QED BY <1>1, <1>2, CompleteProgram DEF CompleteProgress, Now

LEMMA FailPosition ==
  ASSUME CallsOK, NEW c \in Clients, Running(c), ~Finished(c), call[c].req.kind = "fail"
  PROVE  \/ call[c].at = 1 /\ Now(c) = Stmt("read", 1) /\ Len(call[c].seen) = 0
         \/ call[c].at = 2 /\ Now(c) = Stmt("save", 1) /\ Len(call[c].seen) = 1
<1>1. call[c].req \in Requests /\ FailProgress(call[c])
  BY CallTypes DEF Progress
<1>2. call[c].at \in 1..2
  <2>1. Len(Program(call[c].req)) = 2
    BY <1>1, FailProgram
  <2>2. ~(call[c].at > 2)
    BY <2>1 DEF Finished
  <2> QED BY <1>1, <2>2 DEF FailProgress
<1> QED BY <1>1, <1>2, FailProgram DEF FailProgress, Now

\* The statement a call comes to works on a row of the tables.
LEMMA RowType ==
  ASSUME CallsOK, NEW c \in Clients, Running(c), ~Finished(c), Now(c).do # "mutex"
  PROVE  Row(c) \in Keys
<1>1. call[c].req \in Requests
  BY CallTypes
<1>2. /\ call[c].req.kind \in Kinds /\ Len(call[c].req.keys) \in Nat
      /\ \A i \in 1..Len(call[c].req.keys) : call[c].req.keys[i] \in Keys
  BY <1>1, RequestTypes
<1>3. Now(c).slot \in 1..Len(call[c].req.keys)
  <2>1. CASE call[c].req.kind \in {"lock", "unlock"}
    BY <1>1, <2>1, PlainPosition, RequestTypes DEF Stmt
  <2>2. CASE call[c].req.kind \in {"batchlock", "batchunlock"}
    BY <1>1, <2>2, BatchPosition DEF Stmt
  <2>3. CASE call[c].req.kind = "transfer"
    BY <1>1, <2>3, TransferPosition, RequestTypes DEF Stmt
  <2>4. CASE call[c].req.kind = "complete"
    BY <1>1, <2>4, CompletePosition, RequestTypes DEF Stmt
  <2>5. CASE call[c].req.kind = "fail"
    BY <1>1, <2>5, FailPosition, RequestTypes DEF Stmt
  <2> QED BY <1>2, <2>1, <2>2, <2>3, <2>4, <2>5 DEF Kinds
<1> QED BY <1>2, <1>3 DEF Row

LEMMA VisibleType ==
  ASSUME db \in Tables, CallsOK, NEW c \in Clients, Running(c)
  PROVE  /\ \A k \in Keys : Visible(c, k) \in Values
         /\ \A a \in Accounts : Sound(Visible(c, a))
         /\ \A x \in Txs : Visible(c, x) \in Statuses \cup {None}
BY CallTypes DEF Visible, Tables, Values

\* Moving an amount within a row, or into or out of it.
LEMMA Moves ==
  ASSUME NEW row \in Rows, AddsUp(row), NEW n \in Int
  PROVE  /\ n \in Nat /\ row.available >= n =>
              L!Add(row, 0, -n, n) \in Rows /\ AddsUp(L!Add(row, 0, -n, n))
         /\ n \in Nat /\ row.locked >= n =>
              L!Add(row, 0, n, -n) \in Rows /\ AddsUp(L!Add(row, 0, n, -n))
         /\ n \in Nat /\ row.available >= n =>
              L!Add(row, -n, -n, 0) \in Rows /\ AddsUp(L!Add(row, -n, -n, 0))
         /\ row.available >= -n =>
              L!Add(row, n, n, 0) \in Rows /\ AddsUp(L!Add(row, n, n, 0))
<1> DEFINE R(b, v, l) == [balance |-> b, available |-> v, locked |-> l]
<1>1. \A b, v, l \in Int : R(b, v, l) \in Rows
  BY DEF Rows
<1>2. \A b, v, l \in Int : b = v + l /\ v >= 0 /\ l >= 0 => AddsUp(R(b, v, l))
  BY DEF AddsUp
<1>3. \A b, v, l : L!Add(row, b, v, l) = R(row.balance + b, row.available + v, row.locked + l)
  BY DEF L!Add
<1>4. /\ row.balance \in Int /\ row.available \in Int /\ row.locked \in Int
      /\ row.balance = row.available + row.locked /\ row.available >= 0 /\ row.locked >= 0
  BY DEF Rows, AddsUp
<1>5. ASSUME NEW b \in Int, NEW v \in Int, NEW l \in Int,
             b = v + l, row.available + v >= 0, row.locked + l >= 0
      PROVE  L!Add(row, b, v, l) \in Rows /\ AddsUp(L!Add(row, b, v, l))
  <2>1. /\ row.balance + b \in Int /\ row.available + v \in Int /\ row.locked + l \in Int
        /\ row.balance + b = (row.available + v) + (row.locked + l)
    BY <1>4, <1>5
  <2>2. L!Add(row, b, v, l) = R(row.balance + b, row.available + v, row.locked + l)
    BY <1>3
  <2> HIDE DEF R
  <2>3. R(row.balance + b, row.available + v, row.locked + l) \in Rows
    BY <1>1, <2>1
  <2>4. AddsUp(R(row.balance + b, row.available + v, row.locked + l))
    BY <1>2, <1>5, <2>1
  <2> QED BY <2>2, <2>3, <2>4
<1>6. /\ -n \in Int /\ -n + n = 0 /\ n + (-n) = 0 /\ -n + 0 = -n /\ n + 0 = n
      /\ row.available + n \in Int /\ row.locked + n \in Int
      /\ row.available + (-n) = row.available - n /\ row.locked + (-n) = row.locked - n
  BY <1>4
<1>7. n \in Nat /\ row.available >= n =>
        L!Add(row, 0, -n, n) \in Rows /\ AddsUp(L!Add(row, 0, -n, n))
  <2> HAVE n \in Nat /\ row.available >= n
  <2>1. row.available + (-n) >= 0 /\ row.locked + n >= 0 /\ 0 = -n + n
    BY <1>4
  <2> QED BY <1>5, <1>6, <2>1
<1>8. n \in Nat /\ row.locked >= n =>
        L!Add(row, 0, n, -n) \in Rows /\ AddsUp(L!Add(row, 0, n, -n))
  <2> HAVE n \in Nat /\ row.locked >= n
  <2>1. row.available + n >= 0 /\ row.locked + (-n) >= 0 /\ 0 = n + (-n)
    BY <1>4
  <2> QED BY <1>5, <1>6, <2>1
<1>9. n \in Nat /\ row.available >= n =>
        L!Add(row, -n, -n, 0) \in Rows /\ AddsUp(L!Add(row, -n, -n, 0))
  <2> HAVE n \in Nat /\ row.available >= n
  <2>1. row.available + (-n) >= 0 /\ row.locked + 0 >= 0 /\ -n = -n + 0
    BY <1>4
  <2> QED BY <1>5, <1>6, <2>1
<1>10. row.available >= -n => L!Add(row, n, n, 0) \in Rows /\ AddsUp(L!Add(row, n, n, 0))
  <2> HAVE row.available >= -n
  <2>1. row.available + n >= 0 /\ row.locked + 0 >= 0 /\ n = n + 0
    BY <1>4
  <2> QED BY <1>5, <1>6, <2>1
<1> QED BY <1>7, <1>8, <1>9, <1>10

\* What is saved in a row is a row that adds up: it was computed from one, and
\* the checks were passed.
LEMMA SavedType ==
  ASSUME CallsOK, NEW c \in Clients, At(c, "save"), ~Rejected(c),
         NEW v, v = Saved(call[c].req, call[c].seen, Now(c).slot)
  PROVE  /\ Row(c) \in Accounts => v \in Rows /\ AddsUp(v)
         /\ Row(c) \in Txs => v \in Statuses
<1> DEFINE r == call[c].req
           seen == call[c].seen
<1>0. Running(c) /\ ~Finished(c) /\ Now(c).do = "save"
  BY DEF At
<1>1. r \in Requests /\ seen \in Seq(Values) /\ r.kind \in Kinds /\ r.amount \in Nat
  BY <1>0, CallTypes, RequestTypes
<1>2. seen # <<>> => ~Refused(r, seen)
  BY <1>0 DEF Rejected, Batch
<1>3. Accounts \cap Txs = {}
  BY AccountsAssumption
<1>4. CASE r.kind \in {"lock", "unlock"}
  <2>1. Now(c) = Stmt("save", 1) /\ Len(seen) = 1 /\ Sound(seen[1])
    BY <1>0, <1>4, PlainPosition DEF Stmt
  <2>2. Row(c) \in Accounts /\ Now(c).slot = 1
    BY <1>1, <1>4, <2>1, RequestTypes DEF Row, Stmt
  <2>3. ~Refused(r, seen)
    BY <1>2, <2>1
  <2>4. seen[1] \in Rows /\ AddsUp(seen[1])
    BY <1>4, <2>1, <2>3 DEF Refused, Sound, L!CanLock, L!CanUnlock
  <2>5. CASE r.kind = "lock"
    <3>1. seen[1].available >= r.amount /\ v = L!Add(seen[1], 0, -r.amount, r.amount)
      BY <2>5, <2>1, <2>2, <2>3, <2>4, <1>1 DEF Refused, Saved, L!CanLock
    <3> QED BY <3>1, <2>2, <2>4, <1>1, <1>3, Moves
  <2>6. CASE r.kind = "unlock"
    <3>1. seen[1].locked >= r.amount /\ v = L!Add(seen[1], 0, r.amount, -r.amount)
      BY <2>6, <2>1, <2>2, <2>3, <2>4, <1>1 DEF Refused, Saved, L!CanUnlock
    <3> QED BY <3>1, <2>2, <2>4, <1>1, <1>3, Moves
  <2> QED BY <1>4, <2>5, <2>6
<1>5. CASE r.kind \in {"batchlock", "batchunlock"}
  <2> DEFINE n == Len(seen)
  <2>1. /\ Now(c) = Stmt("save", n) /\ n \in 1..Len(r.keys) /\ Sound(seen[n])
    BY <1>0, <1>5, BatchPosition DEF Stmt
  <2>2. Row(c) \in Accounts /\ Now(c).slot = n
    BY <1>1, <1>5, <2>1, RequestTypes DEF Row, Stmt
  <2>3. ~Refused(r, seen)
    BY <1>2, <2>1
  <2>4. seen[n] \in Rows /\ AddsUp(seen[n])
    BY <1>5, <2>1, <2>3 DEF Refused, Sound, L!CanLock, L!CanUnlock
  <2>5. CASE r.kind = "batchlock"
    <3>1. seen[n].available >= r.amount /\ v = L!Add(seen[n], 0, -r.amount, r.amount)
      BY <2>5, <2>1, <2>2, <2>3, <2>4, <1>1 DEF Refused, Saved, L!CanLock
    <3> QED BY <3>1, <2>2, <2>4, <1>1, <1>3, Moves
  <2>6. CASE r.kind = "batchunlock"
    <3>1. seen[n].locked >= r.amount /\ v = L!Add(seen[n], 0, r.amount, -r.amount)
      BY <2>6, <2>1, <2>2, <2>3, <2>4, <1>1 DEF Refused, Saved, L!CanUnlock
    <3> QED BY <3>1, <2>2, <2>4, <1>1, <1>3, Moves
  <2> QED BY <1>5, <2>5, <2>6
<1>6. CASE r.kind = "transfer"
  <2>1. /\ Now(c) = Stmt("save", 1) \/ Now(c) = Stmt("save", 2)
        /\ Len(seen) = 2 /\ Sound(seen[1]) /\ seen[2] \in Rows /\ AddsUp(seen[2])
    BY <1>0, <1>6, TransferPosition DEF Stmt
  <2>2. Row(c) \in Accounts
    BY <1>1, <1>6, <2>1, RequestTypes DEF Row, Stmt
  <2>3. ~Refused(r, seen)
    BY <1>2, <2>1
  <2>4. seen[1] \in Rows /\ AddsUp(seen[1]) /\ seen[1].available >= r.amount
    BY <1>6, <2>1, <2>3 DEF Refused, Sound, L!CanLock
  <2>5. CASE Now(c) = Stmt("save", 1)
    <3>1. v = L!Add(seen[1], -r.amount, -r.amount, 0)
      BY <2>5, <1>6 DEF Saved, Stmt
    <3> QED BY <3>1, <2>2, <2>4, <1>1, <1>3, Moves
  <2>6. CASE Now(c) = Stmt("save", 2)
    <3>1. v = L!Add(seen[2], r.amount, r.amount, 0)
      BY <2>6, <1>6 DEF Saved, Stmt
    <3>2. seen[2].available >= -r.amount
      BY <2>1, <1>1 DEF Rows, AddsUp
    <3> QED BY <3>1, <3>2, <2>1, <2>2, <1>1, <1>3, Moves
  <2> QED BY <2>1, <2>5, <2>6
<1>7. CASE r.kind = "complete"
  <2>1. /\ Now(c) = Stmt("save", 1) \/ Now(c) = Stmt("save", 2)
        /\ Len(seen) = 2 /\ Sound(seen[2])
    BY <1>0, <1>7, CompletePosition DEF Stmt
  <2>2. ~Refused(r, seen)
    BY <1>2, <2>1
  <2>3. r.keys[1] \in Txs /\ r.keys[2] \in Accounts /\ TxAmount[r.keys[1]] \in Int
    BY <1>1, <1>7, RequestTypes, AmountsAssumption
  <2>4. CASE Now(c) = Stmt("save", 1)
    <3>1. v = "completed" /\ Row(c) \in Txs
      BY <2>4, <2>3, <1>7 DEF Saved, Stmt, Row
    <3> QED BY <3>1, <1>3 DEF Statuses
  <2>5. CASE Now(c) = Stmt("save", 2)
    <3>1. v = L!Add(seen[2], TxAmount[r.keys[1]], TxAmount[r.keys[1]], 0) /\ Row(c) \in Accounts
      BY <2>5, <2>3, <1>7 DEF Saved, Stmt, Row
    <3>2. seen[2] \in Rows /\ AddsUp(seen[2]) /\ seen[2].available >= -TxAmount[r.keys[1]]
      BY <1>7, <2>1, <2>2 DEF Refused, Sound, L!CanLock
    <3> QED BY <3>1, <3>2, <2>3, <1>3, Moves
  <2> QED BY <2>1, <2>4, <2>5
<1>8. CASE r.kind = "fail"
  <2>1. v = "failed" /\ Row(c) \in Txs
    BY <1>0, <1>1, <1>8, FailPosition, RequestTypes DEF Saved, Stmt, Row
  <2> QED BY <2>1, <1>3 DEF Statuses
<1> QED BY <1>1, <1>4, <1>5, <1>6, <1>7, <1>8 DEF Kinds

-----------------------------------------------------------------------------
(***************************************************************************)
(* The progress of a call from one statement to the next.                  *)
(***************************************************************************)
\* A statement that reads adds a row to those seen.
LEMMA SeenProgress ==
  ASSUME CallsOK, NEW c \in Clients, Running(c), ~Finished(c),
         Now(c).do \in {"read", "forupdate"},
         NEW v \in Values,
         Row(c) \in Accounts => Sound(v),
         call[c].req.kind = "transfer" /\ Now(c).slot = 2 => v \in Rows /\ AddsUp(v),
         NEW k, k.req = call[c].req, k.at = call[c].at + 1,
         Len(k.seen) = Len(call[c].seen) + 1, k.seen[Len(call[c].seen) + 1] = v,
         \A i \in 1..Len(call[c].seen) : k.seen[i] = call[c].seen[i]
  PROVE  Progress(k)
<1> DEFINE r == call[c].req
           seen == call[c].seen
<1>1. r \in Requests /\ seen \in Seq(Values) /\ r.kind \in Kinds /\ call[c].at \in Nat /\ Len(seen) \in Nat
  BY CallTypes, RequestTypes
<1>2. /\ Len(k.seen) = Len(seen) + 1 /\ k.seen[Len(seen) + 1] = v
      /\ \A i \in 1..Len(seen) : k.seen[i] = seen[i]
  OBVIOUS
<1>3. CASE r.kind \in {"lock", "unlock"}
  <2>1. call[c].at = 1 /\ Len(seen) = 0 /\ Row(c) \in Accounts
    BY <1>1, <1>3, PlainPosition, RequestTypes DEF Stmt, Row
  <2>2. PlainProgress(k)
    BY <1>2, <2>1 DEF PlainProgress
  <2> QED BY <1>3, <2>2 DEF Progress
<1>4. CASE r.kind \in {"batchlock", "batchunlock"}
  <2>1. /\ call[c].at = 2 * Len(seen) + 1 /\ Len(seen) + 1 \in 1..Len(r.keys)
        /\ Now(c) = Stmt("forupdate", Len(seen) + 1)
        /\ \A i \in 1..Len(seen) : Sound(seen[i])
    BY <1>4, BatchPosition DEF Stmt
  <2>2. Row(c) \in Accounts
    <3>1. r.keys[Len(seen) + 1] \in Accounts
      BY <1>1, <1>4, <2>1, RequestTypes
    <3> QED BY <2>1, <3>1 DEF Stmt, Row
  <2>3. Len(r.keys) \in Nat
    BY <1>1, RequestTypes
  <2>4. \A n, l \in Nat : n + 1 \in 1..l =>
           2 * n + 1 + 1 = 2 * (n + 1) /\ 2 * (n + 1) \in 1..2 * l + 1
    OBVIOUS
  <2>5. k.at = 2 * Len(k.seen) /\ k.at \in 1..2 * Len(k.req.keys) + 1
    <3>1. k.at = 2 * Len(seen) + 1 + 1 /\ k.req.keys = r.keys
      BY <2>1
    <3>2. /\ 2 * Len(seen) + 1 + 1 = 2 * (Len(seen) + 1)
          /\ 2 * (Len(seen) + 1) \in 1..2 * Len(r.keys) + 1
      BY <1>1, <2>1, <2>3, <2>4
    <3> QED BY <1>2, <3>1, <3>2
  <2>6. \A i \in 1..Len(k.seen) : Sound(k.seen[i])
    <3>1. \A i \in 1..Len(seen) + 1 : i \in 1..Len(seen) \/ i = Len(seen) + 1
      BY <1>1
    <3> QED BY <1>2, <2>1, <2>2, <3>1
  <2> QED BY <1>4, <2>5, <2>6 DEF Progress, BatchProgress
<1>5. CASE r.kind = "transfer"
  <2> DEFINE m == Len(MutexOrder(r))
  <2>1. m \in 1..2
    BY <1>1, <1>5, MutexOrderType
  <2>2. \/ call[c].at = m + 1 /\ Now(c) = Stmt("forupdate", 1) /\ Len(seen) = 0
        \/ /\ call[c].at = m + 2 /\ Now(c) = Stmt("forupdate", 2)
           /\ Len(seen) = 1 /\ Sound(seen[1])
    BY <1>5, TransferPosition DEF Stmt
  <2>3. Row(c) \in Accounts
    BY <1>1, <1>5, <2>2, RequestTypes DEF Stmt, Row
  <2>4. TransferProgress(k)
    <3>1. CASE call[c].at = m + 1 /\ Now(c) = Stmt("forupdate", 1) /\ Len(seen) = 0
      BY <1>2, <2>1, <2>3, <3>1 DEF TransferProgress
    <3>2. CASE /\ call[c].at = m + 2 /\ Now(c) = Stmt("forupdate", 2)
               /\ Len(seen) = 1 /\ Sound(seen[1])
      <4>1. v \in Rows /\ AddsUp(v)
        BY <1>5, <3>2 DEF Stmt
      <4> QED BY <1>2, <2>1, <3>2, <4>1 DEF TransferProgress
    <3> QED BY <2>2, <3>1, <3>2
  <2> QED BY <1>5, <2>4 DEF Progress
<1>6. CASE r.kind = "complete"
  <2>1. \/ call[c].at = 1 /\ Len(seen) = 0
        \/ call[c].at = 2 /\ Now(c) = Stmt("read", 2) /\ Len(seen) = 1
    BY <1>6, CompletePosition DEF Stmt
  <2>2. call[c].at = 2 => Sound(v)
    BY <1>1, <1>6, <2>1, RequestTypes DEF Stmt, Row
  <2>3. CompleteProgress(k)
    <3>1. CASE call[c].at = 1 /\ Len(seen) = 0
      BY <1>2, <3>1 DEF CompleteProgress
    <3>2. CASE call[c].at = 2 /\ Len(seen) = 1
      <4>1. k.at = 3 /\ Len(k.seen) = 2 /\ k.seen[2] = v
        BY <1>2, <3>2
      <4> QED BY <2>2, <3>2, <4>1 DEF CompleteProgress
    <3> QED BY <2>1, <3>1, <3>2
  <2> QED BY <1>6, <2>3 DEF Progress
<1>7. CASE r.kind = "fail"
  <2>1. call[c].at = 1 /\ Len(seen) = 0
    BY <1>7, FailPosition DEF Stmt
  <2>2. FailProgress(k)
    BY <1>2, <2>1 DEF FailProgress
  <2> QED BY <1>7, <2>2 DEF Progress
<1> QED BY <1>1, <1>3, <1>4, <1>5, <1>6, <1>7 DEF Kinds

\* A Save, and an operation of a batch that is skipped, see nothing new.
LEMMA SavedProgress ==
  ASSUME CallsOK, NEW c \in Clients, At(c, "save"),
         NEW k, k.req = call[c].req, k.at = call[c].at + 1, k.seen = call[c].seen
  PROVE  Progress(k)
<1> DEFINE r == call[c].req
           seen == call[c].seen
<1>1. r \in Requests /\ r.kind \in Kinds /\ call[c].at \in Nat /\ Len(seen) \in Nat
  BY CallTypes, RequestTypes DEF At
<1>2. Running(c) /\ ~Finished(c) /\ Now(c).do = "save"
  BY DEF At
<1>3. CASE r.kind \in {"lock", "unlock"}
  <2>1. call[c].at = 2 /\ Len(seen) = 1 /\ Sound(seen[1])
    BY <1>2, <1>3, PlainPosition DEF Stmt
  <2> QED BY <1>3, <2>1 DEF Progress, PlainProgress
<1>4. CASE r.kind \in {"batchlock", "batchunlock"}
  <2>1. /\ call[c].at = 2 * Len(seen) /\ Len(seen) \in 1..Len(r.keys)
        /\ \A i \in 1..Len(seen) : Sound(seen[i])
    BY <1>2, <1>4, BatchPosition DEF Stmt
  <2>2. Len(r.keys) \in Nat
    BY <1>1, RequestTypes
  <2>3. \A n, l \in Nat : n \in 1..l => 2 * n + 1 \in 1..2 * l + 1
    OBVIOUS
  <2>4. k.at = 2 * Len(k.seen) + 1 /\ k.at \in 1..2 * Len(k.req.keys) + 1
    BY <1>1, <2>1, <2>2, <2>3
  <2> QED BY <1>4, <2>1, <2>4 DEF Progress, BatchProgress
<1>5. CASE r.kind = "transfer"
  <2>1. Len(MutexOrder(r)) \in 1..2
    BY <1>1, <1>5, MutexOrderType
  <2>2. /\ \/ call[c].at = Len(MutexOrder(r)) + 3 \/ call[c].at = Len(MutexOrder(r)) + 4
        /\ Len(seen) = 2 /\ Sound(seen[1]) /\ seen[2] \in Rows /\ AddsUp(seen[2])
    BY <1>2, <1>5, TransferPosition DEF Stmt
  <2>3. TransferProgress(k)
    BY <2>1, <2>2 DEF TransferProgress
  <2> QED BY <1>5, <2>3 DEF Progress
<1>6. CASE r.kind = "complete"
  <2>1. (call[c].at = 3 \/ call[c].at = 4) /\ Len(seen) = 2 /\ Sound(seen[2])
    BY <1>2, <1>6, CompletePosition DEF Stmt
  <2> QED BY <1>6, <2>1 DEF Progress, CompleteProgress
<1>7. CASE r.kind = "fail"
  <2>1. call[c].at = 2 /\ Len(seen) = 1
    BY <1>2, <1>7, FailPosition DEF Stmt
  <2> QED BY <1>7, <2>1 DEF Progress, FailProgress
<1> QED BY <1>1, <1>3, <1>4, <1>5, <1>6, <1>7 DEF Kinds

\* Only transfers take mutexes.
LEMMA MutexProgress ==
  ASSUME CallsOK, NEW c \in Clients, At(c, "mutex"),
         NEW k, k.req = call[c].req, k.at = call[c].at + 1, k.seen = call[c].seen
  PROVE  Progress(k)
<1>1. call[c].req \in Requests /\ call[c].req.kind \in Kinds
  BY CallTypes, RequestTypes DEF At
<1>2. Running(c) /\ ~Finished(c) /\ Now(c).do = "mutex"
  BY DEF At
<1>3. call[c].req.kind = "transfer"
  <2>1. call[c].req.kind \notin {"lock", "unlock"}
    BY <1>2, PlainPosition DEF Stmt
  <2>2. call[c].req.kind \notin {"batchlock", "batchunlock"}
    BY <1>2, BatchPosition DEF Stmt
  <2>3. call[c].req.kind # "complete"
    BY <1>2, CompletePosition DEF Stmt
  <2>4. call[c].req.kind # "fail"
    BY <1>2, FailPosition DEF Stmt
  <2> QED BY <1>1, <2>1, <2>2, <2>3, <2>4 DEF Kinds
<1>4. Len(MutexOrder(call[c].req)) \in 1..2
  BY <1>1, <1>3, MutexOrderType
<1>5. call[c].at \in 1..Len(MutexOrder(call[c].req)) /\ Len(call[c].seen) = 0
  BY <1>2, <1>3, TransferPosition DEF Stmt
<1>6. TransferProgress(k)
  BY <1>4, <1>5 DEF TransferProgress
<1> QED BY <1>3, <1>6 DEF Progress

-----------------------------------------------------------------------------
(***************************************************************************)
(* The invariant, action by action.                                        *)
(***************************************************************************)
\* A step changes the record of one call.
LEMMA OneCall ==
  ASSUME CallsOK, NEW c \in Clients, NEW k \in Calls,
         call' = [call EXCEPT ![c] = k],
         k.req # None => Progress(k)
  PROVE  CallsOK'
<1>1. call' \in [Clients -> Calls] /\ call'[c] = k /\ \A d \in Clients \ {c} : call'[d] = call[d]
  BY DEF CallsOK
<1> QED BY <1>1 DEF CallsOK, Running

LEMMA TwoFields ==
  ASSUME NEW k \in Calls, NEW n, NEW w
  PROVE  /\ [k EXCEPT !.at = n, !.seen = w]
              = [req |-> k.req, at |-> n, seen |-> w, dirty |-> k.dirty]
         /\ [k EXCEPT !.at = n, !.dirty = w]
              = [req |-> k.req, at |-> n, seen |-> k.seen, dirty |-> w]
<1> DEFINE p == [req |-> k.req, at |-> n, seen |-> k.seen, dirty |-> k.dirty]
<1>1. [k EXCEPT !.at = n] = p
  BY DEF Calls
<1>2. /\ [k EXCEPT !.at = n, !.seen = w] = [[k EXCEPT !.at = n] EXCEPT !.seen = w]
      /\ [k EXCEPT !.at = n, !.dirty = w] = [[k EXCEPT !.at = n] EXCEPT !.dirty = w]
  OBVIOUS
<1>3. /\ [p EXCEPT !.seen = w] = [req |-> k.req, at |-> n, seen |-> w, dirty |-> k.dirty]
      /\ [p EXCEPT !.dirty = w] = [req |-> k.req, at |-> n, seen |-> k.seen, dirty |-> w]
  OBVIOUS
<1> HIDE DEF p
<1> QED BY <1>1, <1>2, <1>3

LEMMA NoCallType == NoCall \in Calls /\ NoCall.req = None
<1>1. [k \in Keys |-> None] \in Tables
  BY DEF Tables, Values, Sound, Keys
<1>2. <<>> \in Seq(Values)
  OBVIOUS
<1> QED BY <1>1, <1>2 DEF NoCall, Calls

LEMMA InvokeOK ==
  ASSUME CallsOK, NEW c \in Clients, NEW r \in Requests, Invoke(c, r)
  PROVE  CallsOK'
<1> DEFINE k == [NoCall EXCEPT !.req = r, !.at = 1]
<1>1. k \in Calls /\ k.req = r /\ k.at = 1 /\ k.seen = <<>>
  BY NoCallType DEF Calls, NoCall
<1>2. /\ r.kind = "transfer" => Len(MutexOrder(r)) \in 1..2
      /\ Len(r.keys) \in Nat /\ Len(<<>>) = 0
  BY MutexOrderType, RequestTypes
<1>3. /\ PlainProgress(k) /\ CompleteProgress(k) /\ FailProgress(k)
  BY <1>1 DEF PlainProgress, CompleteProgress, FailProgress
<1>4. BatchProgress(k)
  BY <1>1, <1>2 DEF BatchProgress
<1>5. r.kind = "transfer" => TransferProgress(k)
  BY <1>1, <1>2 DEF TransferProgress
<1>6. Progress(k)
  BY <1>1, <1>3, <1>4, <1>5 DEF Progress
<1>7. call' = [call EXCEPT ![c] = k]
  BY DEF Invoke
<1> HIDE DEF k
<1> QED BY <1>1, <1>6, <1>7, OneCall

LEMMA ReleaseOK ==
  ASSUME CallsOK, NEW c \in Clients, Release(c)
  PROVE  CallsOK'
BY NoCallType, OneCall DEF Release

LEMMA TakeMutexOK ==
  ASSUME CallsOK, NEW c \in Clients, TakeMutex(c)
  PROVE  CallsOK'
<1> DEFINE k == [call[c] EXCEPT !.at = @ + 1]
<1>1. call[c] \in Calls /\ At(c, "mutex")
  BY CallTypes DEF TakeMutex, At
<1>2. k \in Calls /\ k.req = call[c].req /\ k.at = call[c].at + 1 /\ k.seen = call[c].seen
  BY <1>1 DEF Calls
<1>3. call' = [call EXCEPT ![c] = k]
  BY DEF TakeMutex, CallsOK
<1> HIDE DEF k
<1> QED BY <1>1, <1>2, <1>3, MutexProgress, OneCall

LEMMA SkipOperationOK ==
  ASSUME CallsOK, NEW c \in Clients, SkipOperation(c)
  PROVE  CallsOK'
<1> DEFINE k == [call[c] EXCEPT !.at = @ + 1]
<1>1. call[c] \in Calls /\ At(c, "save")
  BY CallTypes DEF SkipOperation, Rejected
<1>2. k \in Calls /\ k.req = call[c].req /\ k.at = call[c].at + 1 /\ k.seen = call[c].seen
  BY <1>1 DEF Calls
<1>3. call' = [call EXCEPT ![c] = k]
  BY DEF SkipOperation, CallsOK
<1> HIDE DEF k
<1> QED BY <1>1, <1>2, <1>3, SavedProgress, OneCall

LEMMA ReadOK ==
  ASSUME db \in Tables, CallsOK, NEW c \in Clients, Read(c)
  PROVE  CallsOK'
<1> DEFINE v == Visible(c, Row(c))
           w == Append(call[c].seen, v)
           k == [req |-> call[c].req, at |-> call[c].at + 1, seen |-> w, dirty |-> call[c].dirty]
<1>1. call[c] \in Calls /\ Running(c) /\ ~Finished(c) /\ Now(c).do = "read"
  BY CallTypes DEF Read, At
<1>2. v \in Values /\ (Row(c) \in Accounts => Sound(v))
  BY <1>1, RowType, VisibleType
<1>3. call[c].req.kind # "transfer"
  BY <1>1, TransferPosition DEF Stmt
<1>4. call' = [call EXCEPT ![c] = k]
  <2>1. [call[c] EXCEPT !.at = @ + 1, !.seen = Append(@, v)] = k
    BY <1>1, TwoFields
  <2>2. call' = [call EXCEPT ![c] = [call[c] EXCEPT !.at = @ + 1, !.seen = Append(@, v)]]
    BY DEF Read, CallsOK
  <2> QED BY <2>1, <2>2
<1> HIDE DEF v
<1>5. k \in Calls /\ k.req = call[c].req /\ k.at = call[c].at + 1 /\ k.seen = w
      /\ Len(w) = Len(call[c].seen) + 1 /\ w[Len(call[c].seen) + 1] = v
      /\ \A i \in 1..Len(call[c].seen) : w[i] = call[c].seen[i]
  <2>1. call[c].seen \in Seq(Values)
    BY <1>1 DEF Calls
  <2>2. w \in Seq(Values)
    BY <1>1, <1>2, <2>1, AppendProperties
  <2>3. /\ Len(w) = Len(call[c].seen) + 1 /\ w[Len(call[c].seen) + 1] = v
        /\ \A i \in 1..Len(call[c].seen) : w[i] = call[c].seen[i]
    BY <1>2, <2>1, AppendProperties
  <2> HIDE DEF w
  <2> QED BY <1>1, <1>2, <2>2, <2>3 DEF Calls
<1> HIDE DEF k, w
<1>6. Progress(k)
  BY <1>1, <1>2, <1>3, <1>5, SeenProgress
<1> QED BY <1>4, <1>5, <1>6, OneCall

LEMMA ForUpdateOK ==
  ASSUME db \in Tables, CallsOK, NEW c \in Clients, ForUpdate(c)
  PROVE  CallsOK'
<1> DEFINE found == Visible(c, Row(c)) # None
           creates == call[c].req.kind = "transfer" /\ Now(c).slot = 2
           v == IF ~found /\ creates THEN L!Zero ELSE Visible(c, Row(c))
           w == Append(call[c].seen, v)
           k == [req |-> call[c].req, at |-> call[c].at + 1, seen |-> w, dirty |-> call[c].dirty]
<1>1. call[c] \in Calls /\ Running(c) /\ ~Finished(c) /\ Now(c).do = "forupdate"
  BY CallTypes DEF ForUpdate, At
<1>2. L!Zero \in Rows /\ AddsUp(L!Zero) /\ L!Zero \in Values
  BY DEF L!Zero, Rows, AddsUp, Values
<1>3. Visible(c, Row(c)) \in Values /\ (Row(c) \in Accounts => Sound(Visible(c, Row(c))))
  BY <1>1, RowType, VisibleType
<1>4. call[c].req.kind = "transfer" => Row(c) \in Accounts
  <2>1. call[c].req \in Requests
    BY <1>1, CallTypes
  <2> QED BY <1>1, <2>1, TransferPosition, RequestTypes DEF Stmt, Row
<1>5. v \in Values /\ (Row(c) \in Accounts => Sound(v))
  BY <1>2, <1>3 DEF Sound
<1>6. creates => v \in Rows /\ AddsUp(v)
  BY <1>2, <1>3, <1>4 DEF Sound
<1>7. call' = [call EXCEPT ![c] = k]
  <2>1. [call[c] EXCEPT !.at = @ + 1, !.seen = Append(@, v)] = k
    <3> HIDE DEF v
    <3> QED BY <1>1, TwoFields
  <2>2. call' = [call EXCEPT ![c] = [call[c] EXCEPT !.at = @ + 1, !.seen = Append(@, v)]]
    BY DEF ForUpdate, CallsOK
  <2> QED BY <2>1, <2>2
<1> HIDE DEF v
<1>8. k \in Calls /\ k.req = call[c].req /\ k.at = call[c].at + 1 /\ k.seen = w
      /\ Len(w) = Len(call[c].seen) + 1 /\ w[Len(call[c].seen) + 1] = v
      /\ \A i \in 1..Len(call[c].seen) : w[i] = call[c].seen[i]
  <2>1. call[c].seen \in Seq(Values)
    BY <1>1 DEF Calls
  <2>2. w \in Seq(Values)
    BY <1>1, <1>5, <2>1, AppendProperties
  <2>3. /\ Len(w) = Len(call[c].seen) + 1 /\ w[Len(call[c].seen) + 1] = v
        /\ \A i \in 1..Len(call[c].seen) : w[i] = call[c].seen[i]
    BY <1>5, <2>1, AppendProperties
  <2> HIDE DEF w
  <2> QED BY <1>1, <1>5, <2>2, <2>3 DEF Calls
<1> HIDE DEF k, w
<1>9. Progress(k)
  BY <1>1, <1>5, <1>6, <1>8, SeenProgress
<1> QED BY <1>7, <1>8, <1>9, OneCall

LEMMA SaveOK ==
  ASSUME CallsOK, NEW c \in Clients, Save(c)
  PROVE  CallsOK'
<1> DEFINE v == Saved(call[c].req, call[c].seen, Now(c).slot)
           t == [call[c].dirty EXCEPT ![Row(c)] = v]
           k == [req |-> call[c].req, at |-> call[c].at + 1, seen |-> call[c].seen, dirty |-> t]
<1>1. call[c] \in Calls /\ At(c, "save") /\ ~Rejected(c)
  BY CallTypes DEF Save, At
<1>2. Row(c) \in Keys
  BY <1>1, RowType DEF At
<1>3. /\ Row(c) \in Accounts => v \in Rows /\ AddsUp(v)
      /\ Row(c) \in Txs => v \in Statuses
  BY <1>1, SavedType
<1>4. call' = [call EXCEPT ![c] = k]
  <2>1. [call[c] EXCEPT !.at = @ + 1, !.dirty = t] = k
    <3> HIDE DEF v, t
    <3> QED BY <1>1, TwoFields
  <2>2. call' = [call EXCEPT ![c] = [call[c] EXCEPT !.at = @ + 1, !.dirty = t]]
    BY DEF Save, CallsOK
  <2> QED BY <2>1, <2>2
<1> HIDE DEF v
<1>5. t \in Tables
  <2>1. call[c].dirty \in Tables
    BY <1>1 DEF Calls
  <2> QED BY <1>2, <1>3, <2>1, AccountsAssumption DEF Tables, Values, Sound, Keys
<1> HIDE DEF t
<1>6. k \in Calls /\ k.req = call[c].req /\ k.at = call[c].at + 1 /\ k.seen = call[c].seen
  BY <1>1, <1>5 DEF Calls
<1> HIDE DEF k
<1> QED BY <1>1, <1>4, <1>6, SavedProgress, OneCall

LEMMA InitIInv == Init => IInv
<1> SUFFICES ASSUME Init PROVE IInv
  OBVIOUS
<1>1. db \in Tables
  <2>1. /\ InitialDB = [k \in Keys |-> InitialDB[k]]
        /\ \A a \in Accounts : Sound(InitialDB[a])
        /\ \A x \in Txs : InitialDB[x] \in Statuses \cup {None}
    BY InitialAssumption DEF TableOK, Sound
  <2>2. \A k \in Keys : InitialDB[k] \in Values
    BY <2>1 DEF Keys, Values, Sound
  <2> QED BY <2>1, <2>2 DEF Init, Tables
<1>2. CallsOK
  BY NoCallType DEF Init, CallsOK, Running
<1>3. OtherTypes
  <2>1. granted \in [Accounts -> Int]
    BY <1>1 DEF Init, Tables, Sound, Rows
  <2> QED BY <2>1, CallsAssumption DEF Init, OtherTypes
<1> QED BY <1>1, <1>2, <1>3 DEF IInv

\* Rows become durable by Commit alone, as the call that commits sees them.
LEMMA CommitOK ==
  ASSUME IInv, NEW c \in Clients, Commit(c)
  PROVE  db' \in Tables /\ granted' \in [Accounts -> Int]
<1>1. db \in Tables /\ CallsOK /\ Running(c)
  BY DEF IInv, Commit
<1>2. db' = [k \in Keys |-> Visible(c, k)]
  BY DEF Commit
<1>3. db' \in Tables
  BY <1>1, <1>2, VisibleType DEF Tables, Keys
<1>4. call[c].req.amount \in Nat
  BY <1>1, CallTypes, RequestTypes
<1>5. \A a \in Accounts : LockedBy(c, a) \in Int
  BY <1>4 DEF LockedBy
<1> QED BY <1>3, <1>5 DEF IInv, OtherTypes, Commit

LEMMA LocksOK ==
  ASSUME IInv, NEW c \in Clients,
         TakeMutex(c) \/ ForUpdate(c) \/ Save(c) \/ Release(c)
  PROVE  /\ rowLock' \in [Keys -> Clients \cup {None}]
         /\ mutex' \in [Accounts -> Clients \cup {None}]
<1>1. /\ rowLock \in [Keys -> Clients \cup {None}]
      /\ mutex \in [Accounts -> Clients \cup {None}]
  BY DEF IInv, OtherTypes
<1>2. CASE TakeMutex(c)
  BY <1>1, <1>2 DEF TakeMutex
<1>3. CASE ForUpdate(c)
  BY <1>1, <1>3 DEF ForUpdate
<1>4. CASE Save(c)
  BY <1>1, <1>4 DEF Save
<1>5. CASE Release(c)
  BY <1>1, <1>5 DEF Release
<1> QED BY <1>2, <1>3, <1>4, <1>5

LEMMA NextIInv == IInv /\ [Next]_vars => IInv'
<1> SUFFICES ASSUME IInv, [Next]_vars PROVE IInv'
  OBVIOUS
<1> USE DEF IInv
<1>1. ASSUME NEW c \in Clients, NEW r \in Requests, Invoke(c, r) PROVE IInv'
  <2>1. calls' \in 0..MaxCalls
    BY <1>1, CallsAssumption DEF Invoke, OtherTypes
  <2> QED BY <1>1, <2>1, InvokeOK DEF Invoke, OtherTypes
<1>2. ASSUME NEW c \in Clients, TakeMutex(c) PROVE IInv'
  BY <1>2, TakeMutexOK, LocksOK DEF TakeMutex, OtherTypes
<1>3. ASSUME NEW c \in Clients, Read(c) PROVE IInv'
  BY <1>3, ReadOK DEF Read, OtherTypes
<1>4. ASSUME NEW c \in Clients, ForUpdate(c) PROVE IInv'
  BY <1>4, ForUpdateOK, LocksOK DEF ForUpdate, OtherTypes
<1>5. ASSUME NEW c \in Clients, Save(c) PROVE IInv'
  BY <1>5, SaveOK, LocksOK DEF Save, OtherTypes
<1>6. ASSUME NEW c \in Clients, SkipOperation(c) PROVE IInv'
  BY <1>6, SkipOperationOK DEF SkipOperation, OtherTypes
<1>7. ASSUME NEW c \in Clients, Reject(c) \/ Abort(c) PROVE IInv'
  BY <1>7, ReleaseOK, LocksOK DEF Reject, Abort, Release, OtherTypes
<1>8. ASSUME NEW c \in Clients, Commit(c) PROVE IInv'
  BY <1>8, ReleaseOK, LocksOK, CommitOK DEF Commit, Release, OtherTypes
<1>9. CASE UNCHANGED vars
  BY <1>9 DEF vars, CallsOK, OtherTypes, Running
<1> QED BY <1>1, <1>2, <1>3, <1>4, <1>5, <1>6, <1>7, <1>8, <1>9 DEF Next, Step

\* A call never sees more rows than it names.
LEMMA SeenBound ==
  ASSUME CallsOK, NEW c \in Clients, Running(c)
  PROVE  Len(call[c].seen) <= Len(call[c].req.keys)
<1> DEFINE k == call[c]
<1>1. k.req \in Requests /\ k.req.kind \in Kinds /\ Progress(k) /\ Len(k.seen) \in Nat
  BY CallTypes, RequestTypes
<1>2. CASE k.req.kind \in {"lock", "unlock", "fail"}
  <2>1. Len(k.req.keys) = 1
    BY <1>1, <1>2, RequestTypes
  <2> QED BY <1>1, <1>2, <2>1 DEF Progress, PlainProgress, FailProgress
<1>3. CASE k.req.kind \in {"batchlock", "batchunlock"}
  <2>1. \A n, l, a \in Nat : (a = 2 * n \/ a = 2 * n + 1) /\ a <= 2 * l + 1 => n <= l
    OBVIOUS
  <2>2. BatchProgress(k) /\ Len(k.req.keys) \in Nat
    BY <1>1, <1>3, RequestTypes DEF Progress
  <2>3. k.at \in Nat /\ k.at <= 2 * Len(k.req.keys) + 1
    BY <2>2 DEF BatchProgress
  <2> QED BY <1>1, <2>1, <2>2, <2>3 DEF BatchProgress
<1>4. CASE k.req.kind \in {"transfer", "complete"}
  <2>1. Len(k.req.keys) = 2
    BY <1>1, <1>4, RequestTypes
  <2>2. Len(k.seen) <= 2
    BY <1>1, <1>4 DEF Progress, TransferProgress, CompleteProgress
  <2> QED BY <2>1, <2>2
<1> QED BY <1>1, <1>2, <1>3, <1>4 DEF Kinds

LEMMA IInvImplies == IInv => TypeOK /\ RowsAddUp
<1> SUFFICES ASSUME IInv PROVE TypeOK /\ RowsAddUp
  OBVIOUS
<1>1. ASSUME NEW t \in Tables PROVE TableOK(t)
  BY <1>1 DEF Tables, TableOK, Sound
<1>2. ASSUME NEW c \in Clients
      PROVE  /\ call[c].req \in Requests \cup {None} /\ call[c].at \in Nat
             /\ TableOK(call[c].dirty)
             /\ Running(c) => Len(call[c].seen) <= Len(call[c].req.keys)
  BY <1>1, <1>2, SeenBound DEF IInv, CallsOK, Calls
<1>3. TypeOK
  BY <1>1, <1>2 DEF IInv, OtherTypes, TypeOK
<1>4. RowsAddUp
  BY DEF IInv, Tables, Sound, RowsAddUp
<1> QED BY <1>3, <1>4

\* Every variable stays in its type, whatever calls run at once.
THEOREM TypeCorrect == Spec => []TypeOK
BY InitIInv, NextIInv, IInvImplies, PTL DEF Spec

\* Every committed row adds up and has no negative part, whatever the
\* interleaving of LockFunds .. FailTransaction, their refusals and failures.
THEOREM RowsAlwaysAddUp == Spec => []RowsAddUp
BY InitIInv, NextIInv, IInvImplies, PTL DEF Spec

-----------------------------------------------------------------------------
(***************************************************************************)
(* Standoffs.                                                              *)
(***************************************************************************)
\* What a client holds: mutexes of accounts that its transfer has come to, and
\* rows only once it has all its mutexes.
MutexesHeld(c) ==
  \A a \in Accounts : mutex[a] = c =>
    /\ Running(c) /\ call[c].req.kind = "transfer"
    /\ \E i \in 1..Len(MutexOrder(call[c].req)) :
         i < call[c].at /\ call[c].req.keys[MutexOrder(call[c].req)[i]] = a

RowsHeld(c) ==
  \A k \in Keys : rowLock[k] = c =>
    /\ Running(c)
    /\ call[c].req.kind = "transfer" => call[c].at > Len(MutexOrder(call[c].req))

HInv == IInv /\ \A c \in Clients : MutexesHeld(c) /\ RowsHeld(c)

\* Only transfers come to a mutex, and in the order of the accounts.
LEMMA MutexPosition ==
  ASSUME CallsOK, NEW c \in Clients, At(c, "mutex")
  PROVE  LET r == call[c].req IN
         /\ r \in Requests /\ r.kind = "transfer"
         /\ call[c].at \in 1..Len(MutexOrder(r))
         /\ Row(c) = r.keys[MutexOrder(r)[call[c].at]] /\ Row(c) \in Accounts
<1> DEFINE r == call[c].req
<1>1. Running(c) /\ ~Finished(c) /\ Now(c).do = "mutex" /\ r \in Requests /\ r.kind \in Kinds
  BY CallTypes, RequestTypes DEF At
<1>2. r.kind = "transfer"
  <2>1. r.kind \notin {"lock", "unlock"}
    BY <1>1, PlainPosition DEF Stmt
  <2>2. r.kind \notin {"batchlock", "batchunlock"}
    BY <1>1, BatchPosition DEF Stmt
  <2>3. r.kind # "complete" /\ r.kind # "fail"
    BY <1>1, CompletePosition, FailPosition DEF Stmt
  <2> QED BY <1>1, <2>1, <2>2, <2>3 DEF Kinds
<1>3. call[c].at \in 1..Len(MutexOrder(r))
  BY <1>1, <1>2, TransferPosition DEF Stmt
<1>4. Row(c) = r.keys[MutexOrder(r)[call[c].at]]
  <2>1. Program(r)[call[c].at] = Stmt("mutex", MutexOrder(r)[call[c].at])
    BY <1>1, <1>2, <1>3, TransferProgram
  <2> QED BY <2>1 DEF Row, Now, Stmt
<1>5. Row(c) \in Accounts
  <2>1. MutexOrder(r)[call[c].at] \in 1..2
    BY <1>1, <1>2, <1>3, MutexOrderType
  <2> QED BY <1>1, <1>2, <1>4, <2>1, RequestTypes
<1> QED BY <1>1, <1>2, <1>3, <1>4, <1>5

\* A statement on a row comes after the mutexes.
LEMMA RowPosition ==
  ASSUME CallsOK, NEW c \in Clients, Running(c), ~Finished(c), Now(c).do # "mutex",
         call[c].req.kind = "transfer"
  PROVE  call[c].at > Len(MutexOrder(call[c].req))
<1>1. Len(MutexOrder(call[c].req)) \in 1..2
  BY CallTypes, MutexOrderType
<1> QED BY <1>1, TransferPosition

\* A call that goes on to its next statement.
LEMMA HoldsOnward ==
  ASSUME CallsOK, NEW c \in Clients, MutexesHeld(c), RowsHeld(c),
         Running(c), call'[c].req = call[c].req, call'[c].at = call[c].at + 1,
         \A a \in Accounts : mutex'[a] = c => mutex[a] = c \/ (At(c, "mutex") /\ a = Row(c)),
         \A k \in Keys : rowLock'[k] = c =>
           rowLock[k] = c \/ (~Finished(c) /\ Now(c).do # "mutex")
  PROVE  MutexesHeld(c)' /\ RowsHeld(c)'
<1> DEFINE r == call[c].req
           m == Len(MutexOrder(r))
<1>1. call[c].at \in Nat /\ r \in Requests /\ Running(c)'
  BY CallTypes DEF Running
<1>2. r.kind = "transfer" => m \in 1..2
  BY <1>1, MutexOrderType
<1>3. MutexesHeld(c)'
  <2> SUFFICES ASSUME NEW a \in Accounts, mutex'[a] = c
               PROVE  /\ r.kind = "transfer"
                      /\ \E i \in 1..m : i < call[c].at + 1 /\ r.keys[MutexOrder(r)[i]] = a
    BY <1>1 DEF MutexesHeld
  <2>1. CASE mutex[a] = c
    <3>1. r.kind = "transfer"
      BY <2>1 DEF MutexesHeld
    <3>2. PICK i \in 1..m : i < call[c].at /\ r.keys[MutexOrder(r)[i]] = a
      BY <2>1 DEF MutexesHeld
    <3> QED BY <1>1, <1>2, <3>1, <3>2
  <2>2. CASE At(c, "mutex") /\ a = Row(c)
    BY <1>1, <2>2, MutexPosition
  <2> QED BY <2>1, <2>2
<1>4. RowsHeld(c)'
  <2> SUFFICES ASSUME NEW k \in Keys, rowLock'[k] = c, r.kind = "transfer"
               PROVE  call[c].at + 1 > m
    BY <1>1 DEF RowsHeld
  <2>1. call[c].at > m
    <3>1. CASE rowLock[k] = c
      BY <3>1 DEF RowsHeld
    <3>2. CASE ~Finished(c) /\ Now(c).do # "mutex"
      BY <3>2, RowPosition
    <3> QED BY <3>1, <3>2
  <2> QED BY <1>1, <1>2, <2>1
<1> QED BY <1>3, <1>4

\* What a step of one client leaves of another.
LEMMA HoldsOthers ==
  ASSUME NEW d \in Clients, MutexesHeld(d), RowsHeld(d), call'[d] = call[d],
         \A a \in Accounts : mutex'[a] = d => mutex[a] = d,
         \A k \in Keys : rowLock'[k] = d => rowLock[k] = d
  PROVE  MutexesHeld(d)' /\ RowsHeld(d)'
BY DEF MutexesHeld, RowsHeld, Running

LEMMA InitHInv == Init => HInv
<1> SUFFICES ASSUME Init PROVE HInv
  OBVIOUS
<1>1. \A c \in Clients : c # None
  BY NoneAssumption
<1> QED BY <1>1, InitIInv DEF Init, HInv, MutexesHeld, RowsHeld

LEMMA NextHInv == HInv /\ [Next]_vars => HInv'
<1> SUFFICES ASSUME HInv, [Next]_vars PROVE HInv'
  OBVIOUS
<1>1. IInv /\ IInv' /\ CallsOK /\ OtherTypes
  BY NextIInv DEF HInv, IInv
<1>2. rowLock \in [Keys -> Clients \cup {None}] /\ mutex \in [Accounts -> Clients \cup {None}]
  BY <1>1 DEF OtherTypes
<1>3. \A c \in Clients : MutexesHeld(c) /\ RowsHeld(c)
  BY DEF HInv
<1> SUFFICES \A c \in Clients : MutexesHeld(c)' /\ RowsHeld(c)'
  BY <1>1 DEF HInv
<1>4. CASE UNCHANGED vars
  BY <1>3, <1>4, HoldsOthers DEF vars
<1>5. ASSUME NEW c \in Clients, NEW r \in Requests, Invoke(c, r)
      PROVE  \A d \in Clients : MutexesHeld(d)' /\ RowsHeld(d)'
  <2>1. mutex' = mutex /\ rowLock' = rowLock /\ ~Running(c)
        /\ \A d \in Clients \ {c} : call'[d] = call[d]
    BY <1>1, <1>5 DEF Invoke, CallsOK
  <2>2. MutexesHeld(c)' /\ RowsHeld(c)'
    <3>1. MutexesHeld(c) /\ RowsHeld(c)
      BY <1>3
    <3>2. (\A a \in Accounts : mutex[a] # c) /\ \A k \in Keys : rowLock[k] # c
      BY <2>1, <3>1 DEF MutexesHeld, RowsHeld
    <3> QED BY <2>1, <3>2 DEF MutexesHeld, RowsHeld
  <2>3. \A d \in Clients \ {c} : MutexesHeld(d)' /\ RowsHeld(d)'
    BY <1>3, <2>1, HoldsOthers
  <2> QED BY <2>2, <2>3
<1>6. ASSUME NEW c \in Clients, TakeMutex(c) \/ Read(c) \/ ForUpdate(c) \/ Save(c) \/ SkipOperation(c)
      PROVE  \A d \in Clients : MutexesHeld(d)' /\ RowsHeld(d)'
  <2>1. Running(c) /\ call[c] \in Calls
    BY <1>1, <1>6, CallTypes DEF TakeMutex, Read, ForUpdate, Save, SkipOperation, At
  <2>2. call'[c].req = call[c].req /\ call'[c].at = call[c].at + 1
        /\ \A d \in Clients \ {c} : call'[d] = call[d]
    BY <1>1, <1>6, <2>1 DEF TakeMutex, Read, ForUpdate, Save, SkipOperation, CallsOK, Calls
  <2>3. \A a \in Accounts : \/ mutex'[a] = mutex[a]
                            \/ At(c, "mutex") /\ a = Row(c) /\ mutex'[a] = c
    BY <1>2, <1>6 DEF TakeMutex, Read, ForUpdate, Save, SkipOperation
  <2>4. \A k \in Keys : \/ rowLock'[k] = rowLock[k]
                        \/ ~Finished(c) /\ Now(c).do # "mutex" /\ rowLock'[k] = c
    BY <1>2, <1>6 DEF TakeMutex, Read, ForUpdate, Save, SkipOperation, At
  <2>5. MutexesHeld(c)' /\ RowsHeld(c)'
    BY <1>1, <1>3, <2>1, <2>2, <2>3, <2>4, HoldsOnward
  <2>6. \A d \in Clients \ {c} : MutexesHeld(d)' /\ RowsHeld(d)'
    BY <1>3, <2>2, <2>3, <2>4, HoldsOthers
  <2> QED BY <2>5, <2>6
<1>7. ASSUME NEW c \in Clients, Release(c)
      PROVE  \A d \in Clients : MutexesHeld(d)' /\ RowsHeld(d)'
  <2>1. \A d \in Clients \ {c} : call'[d] = call[d]
    BY <1>1, <1>7 DEF Release, CallsOK
  <2>2. c # None
    BY NoneAssumption
  <2>3. /\ \A a \in Accounts : mutex'[a] # c /\ (mutex'[a] = mutex[a] \/ mutex'[a] = None)
        /\ \A k \in Keys : rowLock'[k] # c /\ (rowLock'[k] = rowLock[k] \/ rowLock'[k] = None)
    BY <1>7, <2>2 DEF Release
  <2>4. MutexesHeld(c)' /\ RowsHeld(c)'
    BY <2>3 DEF MutexesHeld, RowsHeld
  <2>5. \A d \in Clients \ {c} : MutexesHeld(d)' /\ RowsHeld(d)'
    BY <1>3, <2>1, <2>3, NoneAssumption, HoldsOthers
  <2> QED BY <2>4, <2>5
<1> QED BY <1>4, <1>5, <1>6, <1>7 DEF Next, Step, Reject, Abort, Commit

\* Among finitely many members of a set one has the highest number.
Less == {ss \in Nat \X Nat : ss[1] < ss[2]}

LEMMA LessWellFounded == IsWellFoundedOn(Less, Nat)
<1>1. OpToRel(<, Nat) = Less
  BY Zenon DEF OpToRel, Less
<1> QED BY <1>1, NatLessThanWellFounded, Zenon

LEMMA SomeIsLast ==
  ASSUME NEW S, IsFiniteSet(S), S # {}, NEW f \in [S -> Nat]
  PROVE  \E x \in S : \A y \in S : f[y] <= f[x]
<1> DEFINE Above(x) == {y \in S : f[y] > f[x]}
           N == {n \in Nat : \E x \in S : n = Cardinality(Above(x))}
<1>1. \A x \in S : IsFiniteSet(Above(x)) /\ Cardinality(Above(x)) \in Nat
  BY FS_Subset, FS_CardinalityType
<1>2. N \in SUBSET Nat /\ N # {}
  BY <1>1
<1>3. PICK n \in N : \A j \in N : ~ (<<j, n>> \in Less)
  BY <1>2, LessWellFounded, WFMin, Zenon
<1>4. PICK x \in S : n = Cardinality(Above(x))
  BY <1>3
<1>5. ASSUME NEW y \in S, f[y] > f[x] PROVE FALSE
  <2>1. Above(y) \in SUBSET Above(x)
    <3> SUFFICES ASSUME NEW z \in S, f[z] > f[y] PROVE f[z] > f[x]
      OBVIOUS
    <3>1. f[z] \in Nat /\ f[y] \in Nat /\ f[x] \in Nat
      BY <1>4
    <3> QED BY <1>5, <3>1
  <2>2. y \in Above(x) /\ y \notin Above(y)
    BY <1>5
  <2>3. Cardinality(Above(y)) <= Cardinality(Above(x)) /\ Cardinality(Above(x)) # Cardinality(Above(y))
    <3> HIDE DEF Above
    <3>1. IsFiniteSet(Above(x))
      BY <1>1
    <3> QED BY <2>1, <2>2, <3>1, FS_Subset
  <2> HIDE DEF Above
  <2>4. Cardinality(Above(y)) \in N /\ Cardinality(Above(y)) \in Nat /\ n \in Nat
    BY <1>1, <1>3
  <2>5. Cardinality(Above(y)) < n
    BY <1>4, <2>3, <2>4, <1>1
  <2>6. <<Cardinality(Above(y)), n>> \in Less
    BY <2>4, <2>5 DEF Less
  <2> QED BY <1>3, <2>4, <2>6
<1>6. \A y \in S : f[y] \in Nat /\ f[x] \in Nat
  BY <1>4
<1> QED BY <1>5, <1>6

\* Who waits for a mutex that d holds, while d waits for one itself, waits for the
\* lower account.
LEMMA MutexesAscend ==
  ASSUME HInv, NEW c \in Clients, NEW d \in Clients, At(c, "mutex"), At(d, "mutex"),
         mutex[Row(c)] = d
  PROVE  Row(c) \in Nat /\ Row(d) \in Nat /\ Row(c) < Row(d)
<1> DEFINE r == call[d].req
           m == Len(MutexOrder(r))
<1>1. CallsOK /\ MutexesHeld(d)
  BY DEF HInv, IInv
<1>2. Row(c) \in Accounts /\ Row(d) \in Accounts
  BY <1>1, MutexPosition
<1>3. /\ r \in Requests /\ r.kind = "transfer" /\ call[d].at \in 1..m
      /\ Row(d) = r.keys[MutexOrder(r)[call[d].at]]
  BY <1>1, MutexPosition
<1>4. PICK i \in 1..m : i < call[d].at /\ r.keys[MutexOrder(r)[i]] = Row(c)
  BY <1>1, <1>2 DEF MutexesHeld
<1>5. m \in 1..2
  BY <1>3, MutexOrderType
<1>6. m = 2 /\ i = 1 /\ call[d].at = 2
  BY <1>3, <1>4, <1>5
<1>7. r.keys[1] \in Nat /\ r.keys[2] \in Nat
  BY <1>3, RequestTypes, AccountsAssumption
<1>8. r.keys[1] # r.keys[2]
  <2>1. r.keys[1] = r.keys[2] => MutexOrder(r) = <<1>>
    BY DEF MutexOrder
  <2>2. Len(<<1>>) = 1
    OBVIOUS
  <2> QED BY <1>6, <2>1, <2>2
<1>9. CASE r.keys[1] < r.keys[2]
  <2>1. MutexOrder(r) = <<1, 2>>
    BY <1>8, <1>9 DEF MutexOrder
  <2> QED BY <1>3, <1>4, <1>6, <1>7, <1>9, <2>1
<1>10. CASE ~(r.keys[1] < r.keys[2])
  <2>1. MutexOrder(r) = <<2, 1>>
    BY <1>8, <1>10 DEF MutexOrder
  <2> QED BY <1>3, <1>4, <1>6, <1>7, <1>8, <1>10, <2>1
<1> QED BY <1>9, <1>10

\* Who holds a row has all its mutexes.
LEMMA RowHoldersAreDone ==
  ASSUME HInv, NEW d \in Clients, NEW k \in Keys, rowLock[k] = d
  PROVE  ~At(d, "mutex")
<1> SUFFICES ASSUME At(d, "mutex") PROVE FALSE
  OBVIOUS
<1>1. CallsOK /\ RowsHeld(d)
  BY DEF HInv, IInv
<1>2. /\ call[d].req \in Requests /\ call[d].req.kind = "transfer"
      /\ call[d].at \in 1..Len(MutexOrder(call[d].req))
  BY <1>1, MutexPosition
<1>3. call[d].at > Len(MutexOrder(call[d].req))
  BY <1>1, <1>2 DEF RowsHeld
<1>4. Len(MutexOrder(call[d].req)) \in 1..2
  BY <1>2, MutexOrderType
<1> QED BY <1>2, <1>3, <1>4

LEMMA StandoffsHaveCycles == HInv => StandoffsAreSeen
<1> SUFFICES ASSUME HInv, NEW S \in SUBSET Clients, IsFiniteSet(S), S # {},
                    \A c \in S : \E d \in S : WaitsFor(c, d)
             PROVE  \E c \in S : InCycle(c)
  BY DEF StandoffsAreSeen
<1>1. CallsOK
  BY DEF HInv, IInv
<1>2. ASSUME NEW c \in S, WaitsForRow(c)
      PROVE  /\ rowLock[Row(c)] \in S /\ WaitsForRow(rowLock[Row(c)])
  <2>1. ~At(c, "mutex") /\ Running(c) /\ ~Finished(c) /\ Now(c).do # "mutex"
    BY <1>2 DEF WaitsForRow, At
  <2>2. PICK d \in S : WaitsFor(c, d)
    OBVIOUS
  <2>3. rowLock[Row(c)] = d
    BY <2>1, <2>2 DEF WaitsFor
  <2>4. Row(c) \in Keys
    BY <1>1, <2>1, RowType
  <2>5. ~At(d, "mutex")
    BY <2>3, <2>4, RowHoldersAreDone
  <2>6. WaitsForRow(d)
    BY <2>5 DEF WaitsFor
  <2> QED BY <2>3, <2>6
<1>3. CASE \E c \in S : WaitsForRow(c)
  <2>1. PICK c \in S : WaitsForRow(c)
    BY <1>3
  <2> DEFINE R == {d \in S : WaitsForRow(d)}
  <2>2. R \in SUBSET Clients /\ c \in R /\ \A d \in R : WaitsForRow(d) /\ rowLock[Row(d)] \in R
    BY <1>2, <2>1
  <2>3. InCycle(c)
    BY <2>1, <2>2 DEF InCycle
  <2> QED BY <2>3
<1>4. CASE \A c \in S : ~WaitsForRow(c)
  <2>1. \A c \in S : At(c, "mutex") /\ mutex[Row(c)] \in S
    BY <1>4 DEF WaitsFor
  <2> DEFINE f == [c \in S |-> Row(c)]
  <2>2. f \in [S -> Nat]
    BY <1>1, <2>1, MutexPosition, AccountsAssumption
  <2>3. PICK c \in S : \A d \in S : f[d] <= f[c]
    BY <2>2, SomeIsLast
  <2>4. Row(c) \in Nat /\ Row(mutex[Row(c)]) \in Nat /\ Row(c) < Row(mutex[Row(c)])
    BY <2>1, MutexesAscend
  <2>5. f[mutex[Row(c)]] = Row(mutex[Row(c)]) /\ f[c] = Row(c)
    BY <2>1
  <2>6. Row(mutex[Row(c)]) <= Row(c)
    BY <2>1, <2>3, <2>5
  <2> QED BY <2>4, <2>6
<1> QED BY <1>3, <1>4

\* Clients that wait for each other include a cycle that the database's detector sees,
\* whatever calls they make and however many there are: mutexes are taken in the order
\* of the accounts, and before the first row.
THEOREM DetectorSeesAll == Spec => []StandoffsAreSeen
BY InitHInv, NextHInv, StandoffsHaveCycles, PTL DEF Spec
=============================================================================
