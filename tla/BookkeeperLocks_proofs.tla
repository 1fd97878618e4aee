---------------------- MODULE BookkeeperLocks_proofs ----------------------
(***************************************************************************)
(* LocksAreBacked, for every number of clients, accounts and calls, if     *)
(* every call reads FOR UPDATE: batches, each account once, and transfers. *)
(* (With LockFunds and UnlockFunds, which do not, it fails: Book_lost.)    *)
(*                                                                         *)
(* The argument: a call that will write a row it has read holds the lock   *)
(* of that row, so what it has seen is still what is committed.  A row     *)
(* that is not there has no lock; the transfer that creates it holds the   *)
(* account's mutex, and nobody else creates rows.                          *)
(***************************************************************************)
EXTENDS Bookkeeper_proofs

BatchKinds == {"batchlock", "batchunlock"}

ReadForUpdate ==
  \A r \in Requests :
    \/ /\ r.kind \in BatchKinds
       /\ \A i, j \in 1..Len(r.keys) : r.keys[i] = r.keys[j] => i = j
    \/ r.kind = "transfer"

\* What a call has written and not committed: under the row's lock, and off
\* from the committed row by what the call is to lock.
WritesBacked(c) ==
  \A a \in Accounts : call[c].dirty[a] # None =>
    /\ rowLock[a] = c
    /\ db[a] # None => call[c].dirty[a].locked = db[a].locked + LockedBy(c, a)
    /\ db[a] = None => /\ call[c].req.kind = "transfer" /\ mutex[a] = c
                       /\ call[c].dirty[a].locked = 0

\* A batch has written accounts of operations before the present one, and what
\* it has read last is committed.
BatchBacked(c) ==
  LET keys == call[c].req.keys
      n    == Len(call[c].seen)
  IN  /\ \A a \in Accounts : call[c].dirty[a] # None =>
           \E i \in 1..Len(keys) : keys[i] = a /\ 2 * i < call[c].at
      /\ call[c].at = 2 * n /\ call[c].seen[n] # None =>
           rowLock[keys[n]] = c /\ db[keys[n]] = call[c].seen[n]

\* A transfer holds its mutexes, and what it has read is committed, or is to
\* be created.
TransferBacked(c) ==
  LET keys  == call[c].req.keys
      order == MutexOrder(call[c].req)
      m     == Len(order)
      at    == call[c].at
      seen  == call[c].seen
  IN  /\ \A i \in 1..m : at > i => mutex[keys[order[i]]] = c
      /\ at > m + 1 /\ seen[1] # None => rowLock[keys[1]] = c /\ db[keys[1]] = seen[1]
      /\ at > m + 2 => \/ rowLock[keys[2]] = c /\ db[keys[2]] = seen[2] /\ seen[2] # None
                       \/ db[keys[2]] = None /\ seen[2] = L!Zero
      /\ at <= m + 3 => \A a \in Accounts : call[c].dirty[a] = None

CallBacked(c) ==
  Running(c) =>
    /\ WritesBacked(c)
    /\ call[c].req.kind \in BatchKinds => BatchBacked(c)
    /\ call[c].req.kind = "transfer" => TransferBacked(c)

\* What a call moves into the locked part of an account that it writes.
Moved(r) ==
  CASE r.kind \in {"lock", "batchlock"}     -> r.amount
    [] r.kind \in {"unlock", "batchunlock"} -> -r.amount
    [] OTHER -> 0

Granted == \A a \in Accounts : granted[a] = IF db[a] = None THEN 0 ELSE db[a].locked

LInv == IInv /\ Granted /\ \A c \in Clients : CallBacked(c)

-----------------------------------------------------------------------------
(***************************************************************************)
(* What a step of one client leaves alone of another.                      *)
(***************************************************************************)
LEMMA BothMutexes ==
  ASSUME NEW r \in Requests, r.kind = "transfer"
  PROVE  \E i \in 1..Len(MutexOrder(r)) : r.keys[MutexOrder(r)[i]] = r.keys[2]
<1>1. CASE r.keys[1] = r.keys[2]
  <2>1. MutexOrder(r) = <<1>>
    BY <1>1 DEF MutexOrder
  <2>2. 1 \in 1..Len(MutexOrder(r)) /\ MutexOrder(r)[1] = 1
    BY <2>1
  <2> QED BY <1>1, <2>2
<1>2. CASE r.keys[1] # r.keys[2] /\ r.keys[1] < r.keys[2]
  <2>1. MutexOrder(r) = <<1, 2>>
    BY <1>2 DEF MutexOrder
  <2>2. 2 \in 1..Len(MutexOrder(r)) /\ MutexOrder(r)[2] = 2
    BY <2>1
  <2> QED BY <2>2
<1>3. CASE r.keys[1] # r.keys[2] /\ ~(r.keys[1] < r.keys[2])
  <2>1. MutexOrder(r) = <<2, 1>>
    BY <1>3 DEF MutexOrder
  <2>2. 1 \in 1..Len(MutexOrder(r)) /\ MutexOrder(r)[1] = 2
    BY <2>1
  <2> QED BY <2>2
<1> QED BY <1>1, <1>2, <1>3

LEMMA Others ==
  ASSUME CallsOK, NEW d \in Clients, CallBacked(d), call'[d] = call[d],
         \A a \in Accounts : rowLock[a] = d => rowLock'[a] = d /\ db'[a] = db[a],
         \A a \in Accounts : mutex[a] = d => mutex'[a] = d /\ (db[a] = None => db'[a] = None)
  PROVE  CallBacked(d)'
<1> SUFFICES ASSUME Running(d)
             PROVE  /\ WritesBacked(d)'
                    /\ call[d].req.kind \in BatchKinds => BatchBacked(d)'
                    /\ call[d].req.kind = "transfer" => TransferBacked(d)'
  BY DEF CallBacked, Running
<1>2. call[d].req \in Requests /\ call[d].at \in Nat /\ Len(call[d].seen) \in Nat /\ Progress(call[d])
  BY CallTypes
<1>3. WritesBacked(d)'
  <2>1. \A a \in Accounts : LockedBy(d, a)' = LockedBy(d, a)
    BY DEF LockedBy
  <2>2. WritesBacked(d)
    BY DEF CallBacked
  <2> QED BY <2>1, <2>2 DEF WritesBacked
<1>4. ASSUME call[d].req.kind \in BatchKinds PROVE BatchBacked(d)'
  <2>1. BatchBacked(d)
    BY <1>4 DEF CallBacked
  <2>2. call[d].at = 2 * Len(call[d].seen) => call[d].req.keys[Len(call[d].seen)] \in Accounts
    <3> SUFFICES ASSUME call[d].at = 2 * Len(call[d].seen)
                 PROVE  call[d].req.keys[Len(call[d].seen)] \in Accounts
      OBVIOUS
    <3>1. /\ BatchProgress(call[d]) /\ Len(call[d].req.keys) \in Nat
          /\ \A i \in 1..Len(call[d].req.keys) : call[d].req.keys[i] \in Accounts
      BY <1>2, <1>4, RequestTypes DEF Progress, BatchKinds
    <3>2. \A n, l \in Nat : 2 * n \in 1..2 * l + 1 => n \in 1..l
      OBVIOUS
    <3>3. 2 * Len(call[d].seen) \in 1..2 * Len(call[d].req.keys) + 1
      BY <3>1 DEF BatchProgress
    <3>4. Len(call[d].seen) \in 1..Len(call[d].req.keys)
      BY <1>2, <3>1, <3>2, <3>3
    <3> QED BY <3>1, <3>4
  <2> QED BY <2>1, <2>2 DEF BatchBacked
<1>5. ASSUME call[d].req.kind = "transfer" PROVE TransferBacked(d)'
  <2> DEFINE r == call[d].req
             m == Len(MutexOrder(r))
  <2>1. TransferBacked(d)
    BY <1>5 DEF CallBacked
  <2>2. r.keys[1] \in Accounts /\ r.keys[2] \in Accounts
    BY <1>2, <1>5, RequestTypes
  <2>3. m \in 1..2 /\ \A i \in 1..m : r.keys[MutexOrder(r)[i]] \in Accounts
    BY <1>2, <1>5, <2>2, MutexOrderType
  <2>4. \A i \in 1..m : call[d].at > i => mutex'[r.keys[MutexOrder(r)[i]]] = d
    BY <2>1, <2>3 DEF TransferBacked
  <2>5. call[d].at > m + 1 /\ call[d].seen[1] # None =>
          rowLock'[r.keys[1]] = d /\ db'[r.keys[1]] = call[d].seen[1]
    BY <2>1, <2>2 DEF TransferBacked
  <2>6. call[d].at > m + 2 => mutex[r.keys[2]] = d
    <3> SUFFICES ASSUME call[d].at > m + 2 PROVE mutex[r.keys[2]] = d
      OBVIOUS
    <3>1. PICK i \in 1..m : r.keys[MutexOrder(r)[i]] = r.keys[2]
      BY <1>2, <1>5, BothMutexes
    <3>2. call[d].at > i
      BY <1>2, <2>3
    <3> QED BY <2>1, <3>1, <3>2 DEF TransferBacked
  <2>7. call[d].at > m + 2 => \/ rowLock'[r.keys[2]] = d /\ db'[r.keys[2]] = call[d].seen[2] /\ call[d].seen[2] # None
                              \/ db'[r.keys[2]] = None /\ call[d].seen[2] = L!Zero
    BY <2>1, <2>2, <2>6 DEF TransferBacked
  <2>8. call[d].at <= m + 3 => \A a \in Accounts : call[d].dirty[a] = None
    BY <2>1 DEF TransferBacked
  <2> QED BY <2>4, <2>5, <2>7, <2>8 DEF TransferBacked
<1> QED BY <1>3, <1>4, <1>5

-----------------------------------------------------------------------------
(***************************************************************************)
(* What a step leaves of the client that takes it.                         *)
(***************************************************************************)
LEMMA KindOf ==
  ASSUME ReadForUpdate, CallsOK, NEW c \in Clients, Running(c)
  PROVE  /\ call[c].req \in Requests
         /\ call[c].req.kind \in BatchKinds \/ call[c].req.kind = "transfer"
BY CallTypes DEF ReadForUpdate

LEMMA InvokeBacked ==
  ASSUME CallsOK, NEW c \in Clients, NEW r \in Requests, Invoke(c, r)
  PROVE  CallBacked(c)'
<1> DEFINE k == [NoCall EXCEPT !.req = r, !.at = 1]
<1>1. k.req = r /\ k.at = 1 /\ k.seen = <<>> /\ k.dirty = [x \in Keys |-> None]
  BY DEF NoCall
<1>2. call'[c] = k
  BY DEF Invoke, CallsOK
<1> HIDE DEF k
<1>3. \A a \in Accounts : k.dirty[a] = None
  BY <1>1 DEF Keys
<1>4. WritesBacked(c)'
  BY <1>2, <1>3 DEF WritesBacked
<1>5. BatchBacked(c)'
  BY <1>1, <1>2, <1>3 DEF BatchBacked
<1>6. r.kind = "transfer" => TransferBacked(c)'
  BY <1>1, <1>2, <1>3, MutexOrderType DEF TransferBacked
<1> QED BY <1>1, <1>2, <1>4, <1>5, <1>6 DEF CallBacked

LEMMA TakeMutexBacked ==
  ASSUME ReadForUpdate, IInv, NEW c \in Clients, CallBacked(c), TakeMutex(c)
  PROVE  CallBacked(c)'
<1> DEFINE r == call[c].req
           m == Len(MutexOrder(r))
           at == call[c].at
<1>1. CallsOK /\ Running(c) /\ ~Finished(c) /\ Now(c).do = "mutex"
  BY DEF IInv, TakeMutex, At
<1>2. r \in Requests /\ r.kind = "transfer"
  <2>1. r.kind \notin BatchKinds
    BY <1>1, BatchPosition DEF Stmt, BatchKinds
  <2> QED BY <1>1, <2>1, KindOf
<1>3. m \in 1..2 /\ \A i \in 1..m : r.keys[MutexOrder(r)[i]] \in Accounts
  BY <1>2, MutexOrderType, RequestTypes
<1>4. at \in 1..m
  BY <1>1, <1>2, TransferPosition DEF Stmt
<1>5. Row(c) = r.keys[MutexOrder(r)[at]]
  <2>1. Program(r)[at] = Stmt("mutex", MutexOrder(r)[at])
    BY <1>2, <1>4, TransferProgram
  <2> QED BY <2>1 DEF Row, Now, Stmt
<1>6. /\ call'[c].req = r /\ call'[c].at = at + 1 /\ call'[c].seen = call[c].seen
      /\ call'[c].dirty = call[c].dirty
  <2>1. call[c] \in Calls
    BY <1>1, CallTypes
  <2> QED BY <1>1, <2>1 DEF TakeMutex, CallsOK, Calls
<1>7. mutex' = [mutex EXCEPT ![Row(c)] = c] /\ mutex \in [Accounts -> Clients \cup {None}]
  BY DEF TakeMutex, IInv, OtherTypes
<1>8. TransferBacked(c)
  BY <1>1, <1>2 DEF CallBacked
<1>9. \A a \in Accounts : call'[c].dirty[a] = None
  BY <1>3, <1>4, <1>6, <1>8 DEF TransferBacked
<1>10. \A i \in 1..m : at + 1 > i => mutex'[r.keys[MutexOrder(r)[i]]] = c
  <2> SUFFICES ASSUME NEW i \in 1..m, at + 1 > i
               PROVE  mutex'[r.keys[MutexOrder(r)[i]]] = c
    OBVIOUS
  <2>1. CASE i = at
    BY <1>3, <1>5, <1>7, <2>1
  <2>2. CASE at > i
    <3>1. mutex[r.keys[MutexOrder(r)[i]]] = c
      BY <1>8, <2>2 DEF TransferBacked
    <3> QED BY <1>3, <1>7, <3>1
  <2> QED BY <1>3, <1>4, <2>1, <2>2
<1>11. TransferBacked(c)'
  BY <1>3, <1>4, <1>6, <1>9, <1>10 DEF TransferBacked
<1> QED BY <1>2, <1>6, <1>9, <1>11 DEF CallBacked, WritesBacked, BatchKinds

LEMMA SkipBacked ==
  ASSUME IInv, NEW c \in Clients, CallBacked(c), SkipOperation(c)
  PROVE  CallBacked(c)'
<1>1. CallsOK /\ Running(c) /\ At(c, "save") /\ call[c].req.kind \in BatchKinds
  BY DEF IInv, SkipOperation, Rejected, Batch, BatchKinds
<1>2. /\ call'[c].req = call[c].req /\ call'[c].at = call[c].at + 1
      /\ call'[c].seen = call[c].seen /\ call'[c].dirty = call[c].dirty
  <2>1. call[c] \in Calls
    BY <1>1, CallTypes
  <2> QED BY <1>1, <2>1 DEF SkipOperation, CallsOK, Calls
<1>3. rowLock' = rowLock /\ db' = db /\ mutex' = mutex
  BY DEF SkipOperation
<1>4. WritesBacked(c) /\ BatchBacked(c)
  BY <1>1 DEF CallBacked
<1>5. WritesBacked(c)'
  BY <1>2, <1>3, <1>4 DEF WritesBacked, LockedBy
<1>6. BatchBacked(c)'
  <2>1. call[c].at = 2 * Len(call[c].seen) /\ Len(call[c].seen) \in Nat /\ Len(call[c].req.keys) \in Nat
    <3>1. call[c].req \in Requests
      BY <1>1, CallTypes
    <3> QED BY <1>1, <3>1, BatchPosition, CallTypes, RequestTypes DEF At, Stmt, BatchKinds
  <2>2. \A n \in Nat : 2 * n + 1 # 2 * n
    OBVIOUS
  <2>3. call'[c].at # 2 * Len(call'[c].seen)
    BY <1>2, <2>1, <2>2
  <2>4. \A a \in Accounts : call'[c].dirty[a] # None =>
          \E i \in 1..Len(call'[c].req.keys) : call'[c].req.keys[i] = a /\ 2 * i < call'[c].at
    <3> SUFFICES ASSUME NEW a \in Accounts, call[c].dirty[a] # None
                 PROVE  \E i \in 1..Len(call[c].req.keys) : call[c].req.keys[i] = a /\ 2 * i < call[c].at + 1
      BY <1>2
    <3>1. PICK i \in 1..Len(call[c].req.keys) : call[c].req.keys[i] = a /\ 2 * i < call[c].at
      BY <1>4 DEF BatchBacked
    <3> QED BY <2>1, <3>1
  <2> QED BY <2>3, <2>4 DEF BatchBacked
<1> QED BY <1>1, <1>2, <1>5, <1>6 DEF CallBacked, BatchKinds

LEMMA ForUpdateBacked ==
  ASSUME ReadForUpdate, IInv, NEW c \in Clients, CallBacked(c), ForUpdate(c)
  PROVE  CallBacked(c)'
<1> DEFINE r == call[c].req
           at == call[c].at
           seen == call[c].seen
           x == Visible(c, Row(c))
           v == IF x = None /\ r.kind = "transfer" /\ Now(c).slot = 2 THEN L!Zero ELSE x
<1>1. CallsOK /\ Running(c) /\ ~Finished(c) /\ Now(c).do = "forupdate" /\ ~Rejected(c)
  BY DEF IInv, ForUpdate, At
<1>2. /\ r \in Requests /\ at \in Nat /\ seen \in Seq(Values) /\ Len(seen) \in Nat
      /\ r.kind \in BatchKinds \/ r.kind = "transfer"
  BY <1>1, CallTypes, KindOf
<1>3. /\ call'[c].req = r /\ call'[c].at = at + 1 /\ call'[c].seen = Append(seen, v)
      /\ call'[c].dirty = call[c].dirty
  <2>1. call[c] \in Calls
    BY <1>1, CallTypes
  <2>2. call' = [call EXCEPT ![c] = [call[c] EXCEPT !.at = @ + 1, !.seen = Append(@, v)]]
    BY <1>1 DEF ForUpdate, CallsOK
  <2> HIDE DEF v
  <2>3. call'[c] = [call[c] EXCEPT !.at = @ + 1, !.seen = Append(@, v)]
    BY <1>1, <2>2 DEF CallsOK
  <2>4. [call[c] EXCEPT !.at = @ + 1, !.seen = Append(@, v)]
          = [req |-> r, at |-> at + 1, seen |-> Append(seen, v), dirty |-> call[c].dirty]
    BY <2>1, TwoFields
  <2> QED BY <2>3, <2>4
<1>4. v \in Values
  BY <1>1, RowType, VisibleType DEF IInv, L!Zero, Rows, Values
<1>5. /\ Len(Append(seen, v)) = Len(seen) + 1 /\ Append(seen, v)[Len(seen) + 1] = v
      /\ \A i \in 1..Len(seen) : Append(seen, v)[i] = seen[i]
  <2> HIDE DEF v
  <2> QED BY <1>2, <1>4, AppendProperties
<1>6. db' = db /\ mutex' = mutex /\ rowLock \in [Keys -> Clients \cup {None}]
  BY DEF ForUpdate, IInv, OtherTypes
<1>7. \A k \in Keys : rowLock[k] = c => rowLock'[k] = c
  BY <1>6 DEF ForUpdate
<1>8. x # None => rowLock'[Row(c)] = c
  BY <1>1, <1>6, RowType DEF ForUpdate
<1> HIDE DEF v
<1>9. WritesBacked(c)'
  <2>1. WritesBacked(c)
    BY <1>1 DEF CallBacked
  <2> QED BY <1>3, <1>6, <1>7, <2>1 DEF WritesBacked, LockedBy, Keys
<1>10. CASE r.kind \in BatchKinds
  <2> DEFINE n == Len(seen)
  <2>1. /\ at = 2 * n + 1 /\ n + 1 \in 1..Len(r.keys) /\ Now(c) = Stmt("forupdate", n + 1)
    BY <1>1, <1>10, BatchPosition DEF Stmt, BatchKinds
  <2>2. Row(c) = r.keys[n + 1] /\ Len(r.keys) \in Nat /\ Row(c) \in Accounts
    BY <1>2, <1>10, <2>1, RequestTypes DEF Row, Stmt, BatchKinds
  <2>3. BatchBacked(c)
    BY <1>1, <1>10 DEF CallBacked
  <2>4. call[c].dirty[Row(c)] = None
    <3> SUFFICES ASSUME call[c].dirty[Row(c)] # None PROVE FALSE
      OBVIOUS
    <3>1. PICK i \in 1..Len(r.keys) : r.keys[i] = Row(c) /\ 2 * i < at
      BY <2>2, <2>3 DEF BatchBacked
    <3>2. i = n + 1
      BY <1>2, <1>10, <2>1, <2>2, <3>1 DEF ReadForUpdate, BatchKinds
    <3>3. \A j \in Nat : ~(2 * (j + 1) < 2 * j + 1)
      OBVIOUS
    <3> QED BY <1>2, <2>1, <3>1, <3>2, <3>3
  <2>5. v = db[Row(c)] /\ v = x
    BY <1>10, <2>4 DEF v, Visible, BatchKinds
  <2>6. BatchBacked(c)'
    <3>1. \A a \in Accounts : call'[c].dirty[a] # None =>
            \E i \in 1..Len(r.keys) : r.keys[i] = a /\ 2 * i < at + 1
      <4> SUFFICES ASSUME NEW a \in Accounts, call[c].dirty[a] # None
                   PROVE  \E i \in 1..Len(r.keys) : r.keys[i] = a /\ 2 * i < at + 1
        BY <1>3
      <4>1. PICK i \in 1..Len(r.keys) : r.keys[i] = a /\ 2 * i < at
        BY <2>3 DEF BatchBacked
      <4> QED BY <1>2, <2>2, <4>1
    <3>2. v # None => rowLock'[r.keys[n + 1]] = c /\ db'[r.keys[n + 1]] = v
      BY <1>6, <1>8, <2>2, <2>5
    <3> QED BY <1>3, <1>5, <3>1, <3>2 DEF BatchBacked
  <2> QED BY <1>3, <1>9, <1>10, <2>6 DEF CallBacked, BatchKinds
<1>11. CASE r.kind = "transfer"
  <2> DEFINE m == Len(MutexOrder(r))
  <2>1. TransferBacked(c) /\ m \in 1..2
    BY <1>1, <1>2, <1>11, MutexOrderType DEF CallBacked
  <2>2. \/ at = m + 1 /\ Now(c) = Stmt("forupdate", 1) /\ Len(seen) = 0
        \/ at = m + 2 /\ Now(c) = Stmt("forupdate", 2) /\ Len(seen) = 1
    BY <1>1, <1>11, TransferPosition DEF Stmt
  <2>3. r.keys[1] \in Accounts /\ r.keys[2] \in Accounts
    BY <1>2, <1>11, RequestTypes
  <2>4. \A a \in Accounts : call[c].dirty[a] = None
    BY <2>1, <2>2 DEF TransferBacked
  <2>5. \A i \in 1..m : at + 1 > i => mutex'[r.keys[MutexOrder(r)[i]]] = c
    BY <1>6, <2>1, <2>2 DEF TransferBacked
  <2>6. CASE at = m + 1 /\ Now(c) = Stmt("forupdate", 1) /\ Len(seen) = 0
    <3>1. Row(c) = r.keys[1] /\ Now(c).slot = 1
      BY <2>6 DEF Row, Stmt
    <3>2. v = db[r.keys[1]] /\ v = x
      BY <2>3, <2>4, <3>1 DEF v, Visible
    <3>3. Append(seen, v)[1] = v
      BY <1>5, <2>6
    <3>4. v # None => rowLock'[r.keys[1]] = c /\ db'[r.keys[1]] = v
      BY <1>6, <1>8, <3>1, <3>2
    <3>5. ~(at + 1 > m + 2)
      BY <2>1, <2>6
    <3>6. TransferBacked(c)'
      BY <1>3, <2>4, <2>5, <3>3, <3>4, <3>5 DEF TransferBacked
    <3> QED BY <1>3, <1>9, <1>11, <3>6 DEF CallBacked, BatchKinds
  <2>7. CASE at = m + 2 /\ Now(c) = Stmt("forupdate", 2) /\ Len(seen) = 1
    <3>1. Row(c) = r.keys[2] /\ Now(c).slot = 2
      BY <2>7 DEF Row, Stmt
    <3>2. x = db[r.keys[2]]
      BY <2>3, <2>4, <3>1 DEF Visible
    <3>3. Append(seen, v)[1] = seen[1] /\ Append(seen, v)[2] = v
      <4>1. 1 \in 1..Len(seen) /\ Len(seen) + 1 = 2
        BY <2>7
      <4> QED BY <1>5, <4>1
    <3>4. \/ rowLock'[r.keys[2]] = c /\ db'[r.keys[2]] = v /\ v # None
          \/ db'[r.keys[2]] = None /\ v = L!Zero
      BY <1>6, <1>8, <1>11, <3>1, <3>2 DEF v
    <3>5. seen[1] # None => rowLock'[r.keys[1]] = c /\ db'[r.keys[1]] = seen[1]
      BY <1>6, <1>7, <2>1, <2>3, <2>7 DEF TransferBacked, Keys
    <3>6. TransferBacked(c)'
      BY <1>3, <2>1, <2>4, <2>5, <2>7, <3>3, <3>4, <3>5 DEF TransferBacked
    <3> QED BY <1>3, <1>9, <1>11, <3>6 DEF CallBacked, BatchKinds
  <2> QED BY <2>2, <2>6, <2>7
<1> QED BY <1>2, <1>10, <1>11

LEMMA SaveBacked ==
  ASSUME ReadForUpdate, IInv, NEW c \in Clients, CallBacked(c), Save(c)
  PROVE  CallBacked(c)'
<1> DEFINE r == call[c].req
           at == call[c].at
           seen == call[c].seen
           k == Row(c)
           v == Saved(r, seen, Now(c).slot)
           t == [call[c].dirty EXCEPT ![k] = v]
<1>1. CallsOK /\ Running(c) /\ ~Finished(c) /\ Now(c).do = "save" /\ ~Rejected(c) /\ At(c, "save")
  BY DEF IInv, Save, At
<1>2. /\ r \in Requests /\ at \in Nat /\ Len(seen) \in Nat /\ r.amount \in Nat
      /\ r.kind \in BatchKinds \/ r.kind = "transfer"
      /\ call[c].dirty \in Tables
  BY <1>1, CallTypes, KindOf, RequestTypes
<1>3. /\ call'[c].req = r /\ call'[c].at = at + 1 /\ call'[c].seen = seen /\ call'[c].dirty = t
  <2>1. call[c] \in Calls
    BY <1>1, CallTypes
  <2>2. call' = [call EXCEPT ![c] = [call[c] EXCEPT !.at = @ + 1, !.dirty = t]]
    BY <1>1 DEF Save, CallsOK
  <2> HIDE DEF t
  <2>3. call'[c] = [call[c] EXCEPT !.at = @ + 1, !.dirty = t]
    BY <1>1, <2>2 DEF CallsOK
  <2>4. [call[c] EXCEPT !.at = @ + 1, !.dirty = t]
          = [req |-> r, at |-> at + 1, seen |-> seen, dirty |-> t]
    BY <2>1, TwoFields
  <2> QED BY <2>3, <2>4
<1>4. db' = db /\ mutex' = mutex /\ rowLock' = [rowLock EXCEPT ![k] = c]
  BY DEF Save
<1>5. rowLock \in [Keys -> Clients \cup {None}] /\ db \in Tables
  BY DEF IInv, OtherTypes
<1>6. \A a \in Accounts : call'[c].dirty[a] = IF a = k THEN v ELSE call[c].dirty[a]
  BY <1>2, <1>3 DEF Tables, Keys
<1>7. \A a \in Accounts : /\ rowLock[a] = c => rowLock'[a] = c
                          /\ a = k => rowLock'[a] = c
  BY <1>4, <1>5 DEF Keys
<1>8. seen # <<>> => ~Refused(r, seen)
  BY <1>1 DEF Rejected, Batch
<1>9. WritesBacked(c)
  BY <1>1 DEF CallBacked
<1> HIDE DEF v, t
\* It remains to see that what is saved is off by what the call locks.
<1>10. ASSUME k \in Accounts => /\ db[k] # None => v.locked = db[k].locked + Moved(r)
                                /\ db[k] = None => /\ r.kind = "transfer" /\ mutex[k] = c
                                                   /\ v.locked = 0
       PROVE  WritesBacked(c)'
  <2>1. \A a \in Accounts : call'[c].dirty[a] # None => LockedBy(c, a)' = Moved(r)
    BY <1>3 DEF LockedBy, Moved
  <2>2. \A a \in Accounts : call[c].dirty[a] # None => LockedBy(c, a) = Moved(r)
    BY DEF LockedBy, Moved
  <2> SUFFICES ASSUME NEW a \in Accounts, call'[c].dirty[a] # None
               PROVE  /\ rowLock'[a] = c
                      /\ db[a] # None => call'[c].dirty[a].locked = db[a].locked + Moved(r)
                      /\ db[a] = None => /\ r.kind = "transfer" /\ mutex[a] = c
                                         /\ call'[c].dirty[a].locked = 0
    BY <1>3, <1>4, <2>1 DEF WritesBacked
  <2>3. CASE a = k
    <3>1. call'[c].dirty[a] = v /\ rowLock'[a] = c
      BY <1>6, <1>7, <2>3
    <3>2. k \in Accounts
      BY <2>3
    <3>3. /\ db[k] # None => v.locked = db[k].locked + Moved(r)
          /\ db[k] = None => r.kind = "transfer" /\ mutex[k] = c /\ v.locked = 0
      BY <1>10, <3>2
    <3> HIDE DEF k
    <3> QED BY <2>3, <3>1, <3>3
  <2>4. CASE a # k
    <3>1. call[c].dirty[a] # None /\ call'[c].dirty[a] = call[c].dirty[a]
      BY <1>6, <2>4
    <3> QED BY <1>7, <1>9, <2>2, <3>1 DEF WritesBacked
  <2> QED BY <2>3, <2>4
<1>11. CASE r.kind \in BatchKinds
  <2> DEFINE n == Len(seen)
  <2>1. at = 2 * n /\ n \in 1..Len(r.keys) /\ Now(c) = Stmt("save", n) /\ Sound(seen[n])
    BY <1>1, <1>11, BatchPosition DEF Stmt, BatchKinds
  <2>2. k = r.keys[n] /\ Len(r.keys) \in Nat /\ k \in Accounts /\ Now(c).slot = n
    BY <1>2, <1>11, <2>1, RequestTypes DEF Row, Stmt, BatchKinds
  <2>3. BatchBacked(c)
    BY <1>1, <1>11 DEF CallBacked
  <2>4. seen[n] # None
    <3>1. ~Refused(r, seen)
      BY <1>8, <2>1
    <3> QED BY <1>11, <3>1 DEF Refused, L!CanLock, L!CanUnlock, BatchKinds
  <2>5. db[k] = seen[n] /\ db[k] \in Rows
    BY <2>1, <2>2, <2>3, <2>4 DEF BatchBacked, Sound
  <2>6. v.locked = db[k].locked + Moved(r)
    <3>1. CASE r.kind = "batchlock"
      BY <2>2, <2>5, <3>1 DEF v, Saved, L!Add, Moved
    <3>2. CASE r.kind = "batchunlock"
      BY <2>2, <2>5, <3>2 DEF v, Saved, L!Add, Moved
    <3> QED BY <1>11, <3>1, <3>2 DEF BatchKinds
  <2>7. WritesBacked(c)'
    BY <1>10, <2>4, <2>5, <2>6
  <2>8. BatchBacked(c)'
    <3>1. \A j \in Nat : 2 * j + 1 # 2 * j /\ 2 * j < 2 * j + 1
      OBVIOUS
    <3>2. call'[c].at # 2 * Len(call'[c].seen)
      BY <1>2, <1>3, <2>1, <3>1
    <3>3. \A a \in Accounts : call'[c].dirty[a] # None =>
            \E i \in 1..Len(r.keys) : r.keys[i] = a /\ 2 * i < at + 1
      <4> SUFFICES ASSUME NEW a \in Accounts, call'[c].dirty[a] # None
                   PROVE  \E i \in 1..Len(r.keys) : r.keys[i] = a /\ 2 * i < at + 1
        OBVIOUS
      <4>1. CASE a = k
        BY <1>2, <2>1, <2>2, <3>1, <4>1
      <4>2. CASE a # k
        <5>1. PICK i \in 1..Len(r.keys) : r.keys[i] = a /\ 2 * i < at
          BY <1>6, <2>3, <4>2 DEF BatchBacked
        <5> QED BY <1>2, <2>2, <5>1
      <4> QED BY <4>1, <4>2
    <3> QED BY <1>3, <3>2, <3>3 DEF BatchBacked
  <2> QED BY <1>3, <1>11, <2>7, <2>8 DEF CallBacked, BatchKinds
<1>12. CASE r.kind = "transfer"
  <2> DEFINE m == Len(MutexOrder(r))
  <2>1. TransferBacked(c) /\ m \in 1..2
    BY <1>1, <1>2, <1>12, MutexOrderType DEF CallBacked
  <2>2. /\ \/ at = m + 3 /\ Now(c) = Stmt("save", 1)
           \/ at = m + 4 /\ Now(c) = Stmt("save", 2)
        /\ Len(seen) = 2 /\ Sound(seen[1]) /\ seen[2] \in Rows
    BY <1>1, <1>12, TransferPosition DEF Stmt
  <2>3. r.keys[1] \in Accounts /\ r.keys[2] \in Accounts
    BY <1>2, <1>12, RequestTypes
  <2>4. seen[1] # None
    BY <1>8, <1>12, <2>2 DEF Refused
  <2>5. Moved(r) = 0
    BY <1>12 DEF Moved
  <2>6. ASSUME Now(c) = Stmt("save", 1) PROVE WritesBacked(c)'
    <3>1. k = r.keys[1] /\ Now(c).slot = 1
      BY <2>6 DEF Row, Stmt
    <3>2. db[k] = seen[1] /\ seen[1] \in Rows
      BY <2>1, <2>2, <2>4, <3>1 DEF TransferBacked, Sound
    <3>3. v.locked = db[k].locked + 0
      BY <1>12, <3>1, <3>2 DEF v, Saved, L!Add
    <3>4. db[k] # None /\ v.locked = db[k].locked + Moved(r)
      BY <2>4, <2>5, <3>2, <3>3
    <3> QED BY <1>10, <3>4
  <2>7. ASSUME Now(c) = Stmt("save", 2) PROVE WritesBacked(c)'
    <3>1. k = r.keys[2] /\ Now(c).slot = 2
      BY <2>7 DEF Row, Stmt
    <3>2. v.locked = seen[2].locked + 0
      BY <1>12, <3>1 DEF v, Saved, L!Add
    <3>3. mutex[k] = c
      <4>1. PICK i \in 1..m : r.keys[MutexOrder(r)[i]] = r.keys[2]
        BY <1>2, <1>12, BothMutexes
      <4>2. at > i
        BY <2>1, <2>2
      <4> QED BY <2>1, <3>1, <4>1, <4>2 DEF TransferBacked
    <3>4. \/ db[k] = seen[2] /\ seen[2] # None
          \/ db[k] = None /\ seen[2] = L!Zero
      BY <2>1, <2>2, <3>1 DEF TransferBacked
    <3>5. db[k] # None => v.locked = db[k].locked + Moved(r)
      BY <2>5, <3>2, <3>4
    <3>6. db[k] = None => v.locked = 0
      BY <3>2, <3>4 DEF L!Zero
    <3> QED BY <1>10, <1>12, <3>3, <3>5, <3>6
  <2>8. WritesBacked(c)'
    BY <2>2, <2>6, <2>7
  <2>9. TransferBacked(c)'
    <3>1. \A i \in 1..m : at + 1 > i => mutex'[r.keys[MutexOrder(r)[i]]] = c
      BY <1>4, <2>1, <2>2 DEF TransferBacked
    <3>2. rowLock'[r.keys[1]] = c /\ db'[r.keys[1]] = seen[1]
      BY <1>4, <1>7, <2>1, <2>2, <2>3, <2>4 DEF TransferBacked
    <3>3. \/ rowLock'[r.keys[2]] = c /\ db'[r.keys[2]] = seen[2] /\ seen[2] # None
          \/ db'[r.keys[2]] = None /\ seen[2] = L!Zero
      BY <1>4, <1>7, <2>1, <2>2, <2>3 DEF TransferBacked
    <3> QED BY <1>3, <2>1, <2>2, <3>1, <3>2, <3>3 DEF TransferBacked
  <2> QED BY <1>3, <1>12, <2>8, <2>9 DEF CallBacked, BatchKinds
<1> QED BY <1>2, <1>11, <1>12

-----------------------------------------------------------------------------
(***************************************************************************)
(* Every step.                                                             *)
(***************************************************************************)
LEMMA InitLInv == Init => LInv
<1> SUFFICES ASSUME Init PROVE LInv
  OBVIOUS
<1>1. \A c \in Clients : ~Running(c)
  BY NoCallType DEF Init, Running
<1> QED BY <1>1, InitIInv DEF LInv, Granted, Init, CallBacked

\* A call gives the lock of a row, or a mutex, to itself only, and takes away
\* its own only.
LEMMA OthersKeep ==
  ASSUME LInv, NEW c \in Clients, NEW d \in Clients \ {c},
         TakeMutex(c) \/ ForUpdate(c) \/ Save(c) \/ Release(c)
  PROVE  /\ \A a \in Accounts : rowLock[a] = d => rowLock'[a] = d
         /\ \A a \in Accounts : mutex[a] = d => mutex'[a] = d
<1>1. /\ rowLock \in [Keys -> Clients \cup {None}] /\ Accounts \subseteq Keys
      /\ mutex \in [Accounts -> Clients \cup {None}] /\ d # c /\ d # None
  BY NoneAssumption DEF LInv, IInv, OtherTypes, Keys
<1>2. CASE TakeMutex(c)
  BY <1>1, <1>2 DEF TakeMutex
<1>3. CASE ForUpdate(c)
  BY <1>1, <1>3 DEF ForUpdate, Free
<1>4. CASE Save(c)
  BY <1>1, <1>4 DEF Save, Free
<1>5. CASE Release(c)
  BY <1>1, <1>5 DEF Release
<1> QED BY <1>2, <1>3, <1>4, <1>5

\* What one call commits, no other call depends on.
LEMMA CommitKeeps ==
  ASSUME LInv, NEW c \in Clients, Commit(c), NEW a \in Accounts
  PROVE  /\ call[c].dirty[a] = None => db'[a] = db[a]
         /\ call[c].dirty[a] # None => db'[a] = call[c].dirty[a] /\ rowLock[a] = c
         /\ call[c].dirty[a] # None /\ db[a] = None => mutex[a] = c
<1>1. WritesBacked(c)
  BY DEF LInv, CallBacked, Commit
<1>2. db'[a] = Visible(c, a)
  BY DEF Commit, Keys
<1> QED BY <1>1, <1>2 DEF WritesBacked, Visible

LEMMA CommitGrants ==
  ASSUME LInv, NEW c \in Clients, Commit(c)
  PROVE  Granted'
<1> SUFFICES ASSUME NEW a \in Accounts
             PROVE  granted'[a] = IF db'[a] = None THEN 0 ELSE db'[a].locked
  BY DEF Granted
<1>1. /\ granted[a] = IF db[a] = None THEN 0 ELSE db[a].locked
      /\ granted[a] \in Int
  BY DEF LInv, Granted, IInv, OtherTypes
<1>2. granted'[a] = granted[a] + LockedBy(c, a)
  BY DEF Commit
<1>3. WritesBacked(c) /\ Running(c)
  BY DEF LInv, CallBacked, Commit
<1>4. CASE call[c].dirty[a] = None
  <2>1. LockedBy(c, a) = 0
    BY <1>4 DEF LockedBy
  <2> QED BY <1>1, <1>2, <1>4, <2>1, CommitKeeps
<1>5. CASE call[c].dirty[a] # None
  <2>1. db'[a] = call[c].dirty[a]
    BY <1>5, CommitKeeps
  <2>2. CASE db[a] # None
    <3>1. call[c].dirty[a].locked = db[a].locked + LockedBy(c, a)
      BY <1>3, <1>5, <2>2 DEF WritesBacked
    <3> QED BY <1>1, <1>2, <1>5, <2>1, <2>2, <3>1
  <2>3. CASE db[a] = None
    <3>1. call[c].dirty[a].locked = 0 /\ LockedBy(c, a) = 0
      BY <1>3, <1>5, <2>3 DEF WritesBacked, LockedBy
    <3> QED BY <1>1, <1>2, <1>5, <2>1, <2>3, <3>1
  <2> QED BY <2>2, <2>3
<1> QED BY <1>4, <1>5

LEMMA Released ==
  ASSUME CallsOK, NEW c \in Clients, Release(c)
  PROVE  CallBacked(c)'
BY NoCallType DEF Release, CallBacked, Running, CallsOK

LEMMA OtherCalls ==
  ASSUME LInv, NEW c \in Clients, NEW d \in Clients \ {c}, Step(c) \/ Abort(c)
  PROVE  CallBacked(d)'
<1>1. CallsOK /\ CallBacked(d) /\ call \in [Clients -> Calls] /\ d # None
  BY NoneAssumption DEF LInv, IInv, CallsOK
<1>2. ASSUME db' = db, call'[d] = call[d],
             \A a \in Accounts : rowLock[a] = d => rowLock'[a] = d,
             \A a \in Accounts : mutex[a] = d => mutex'[a] = d
      PROVE  CallBacked(d)'
  BY <1>1, <1>2, Others
<1>3. CASE TakeMutex(c)
  BY <1>1, <1>2, <1>3, OthersKeep DEF TakeMutex
<1>4. CASE Read(c)
  BY <1>1, <1>2, <1>4 DEF Read
<1>5. CASE ForUpdate(c)
  <2>1. db' = db /\ call'[d] = call[d]
    BY <1>1, <1>5 DEF ForUpdate
  <2> QED BY <1>2, <1>5, <2>1, OthersKeep
<1>6. CASE Save(c)
  BY <1>1, <1>2, <1>6, OthersKeep DEF Save
<1>7. CASE SkipOperation(c)
  BY <1>1, <1>2, <1>7 DEF SkipOperation
<1>8. CASE Reject(c) \/ Abort(c)
  <2>1. Release(c) /\ db' = db
    BY <1>8 DEF Reject, Abort
  <2> QED BY <1>1, <1>2, <2>1, OthersKeep DEF Release
<1>9. CASE Commit(c)
  <2>1. Release(c) /\ call'[d] = call[d]
    BY <1>1, <1>9 DEF Commit, Release
  <2>2. \A a \in Accounts : rowLock[a] = d => rowLock'[a] = d /\ db'[a] = db[a]
    BY <1>1, <1>9, <2>1, OthersKeep, CommitKeeps
  <2>3. \A a \in Accounts : mutex[a] = d => mutex'[a] = d /\ (db[a] = None => db'[a] = None)
    BY <1>1, <1>9, <2>1, OthersKeep, CommitKeeps
  <2> QED BY <1>1, <2>1, <2>2, <2>3, Others
<1> QED BY <1>3, <1>4, <1>5, <1>6, <1>7, <1>8, <1>9 DEF Step

LEMMA OwnCall ==
  ASSUME ReadForUpdate, LInv, NEW c \in Clients, Step(c) \/ Abort(c)
  PROVE  CallBacked(c)'
<1>1. IInv /\ CallsOK /\ CallBacked(c)
  BY DEF LInv, IInv
<1>2. CASE Read(c)
  <2>1. Running(c) /\ ~Finished(c) /\ Now(c).do = "read"
    BY <1>2 DEF Read, At
  <2>2. call[c].req.kind \notin BatchKinds /\ call[c].req.kind # "transfer"
    BY <1>1, <2>1, BatchPosition, TransferPosition DEF Stmt, BatchKinds
  <2> QED BY <1>1, <2>1, <2>2, KindOf
<1>3. CASE Reject(c) \/ Abort(c) \/ Commit(c)
  BY <1>1, <1>3, Released DEF Reject, Abort, Commit
<1> QED BY <1>1, <1>2, <1>3, TakeMutexBacked, ForUpdateBacked, SaveBacked, SkipBacked DEF Step

LEMMA NextLInv == ReadForUpdate /\ LInv /\ [Next]_vars => LInv'
<1> SUFFICES ASSUME ReadForUpdate, LInv, [Next]_vars PROVE LInv'
  OBVIOUS
<1>1. IInv'
  BY NextIInv DEF LInv
<1>2. ASSUME NEW c \in Clients, NEW r \in Requests, Invoke(c, r)
      PROVE  Granted' /\ \A d \in Clients : CallBacked(d)'
  <2>1. Granted' /\ CallBacked(c)'
    BY <1>2, InvokeBacked DEF LInv, IInv, Granted, Invoke
  <2>2. ASSUME NEW d \in Clients \ {c} PROVE CallBacked(d)'
    <3>1. CallsOK /\ CallBacked(d) /\ call'[d] = call[d]
      BY <1>2 DEF LInv, IInv, CallsOK, Invoke
    <3> QED BY <1>2, <3>1, Others DEF Invoke
  <2> QED BY <2>1, <2>2
<1>3. ASSUME NEW c \in Clients, Step(c) \/ Abort(c)
      PROVE  Granted' /\ \A d \in Clients : CallBacked(d)'
  <2>1. \A d \in Clients : CallBacked(d)'
    BY <1>3, OwnCall, OtherCalls
  <2>2. CASE Commit(c)
    BY <2>1, <2>2, CommitGrants
  <2>3. CASE ~Commit(c)
    <3>1. db' = db /\ granted' = granted
      BY <1>3, <2>3 DEF Step, TakeMutex, Read, ForUpdate, Save, SkipOperation, Reject, Abort
    <3> QED BY <2>1, <3>1 DEF LInv, Granted
  <2> QED BY <2>2, <2>3
<1>4. CASE UNCHANGED vars
  <2>1. \A d \in Clients : CallBacked(d)'
    BY <1>4, Others DEF LInv, IInv, vars
  <2> QED BY <1>1, <1>4, <2>1 DEF LInv, Granted, vars
<1> QED BY <1>1, <1>2, <1>3, <1>4 DEF LInv, Next

LEMMA LInvImplies == LInv => LocksAreBacked
BY DEF LInv, Granted, LocksAreBacked

\* If every call reads FOR UPDATE, what callers were told is locked is locked,
\* neither more nor less, in every interleaving.
THEOREM LocksStayBacked ==
  ASSUME ReadForUpdate
  PROVE  Spec => []LocksAreBacked
BY InitLInv, NextLInv, LInvImplies, PTL DEF Spec
=============================================================================
