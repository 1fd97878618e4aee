---------------------- MODULE BookkeeperLedger_proofs ----------------------
(***************************************************************************)
(* ImplementsLedger, for every number of clients, accounts and calls, if   *)
(* every call reads FOR UPDATE (BookkeeperLocks_proofs), batches name      *)
(* accounts that exist and transfers have two users.                       *)
(*                                                                         *)
(* A call takes place when it commits.  By then it holds the locks of all  *)
(* the rows it has looked at, those it could not change included, so what  *)
(* it decided on is what is committed.  (A batch that names an account     *)
(* that does not exist holds no lock for it: a transfer may create it      *)
(* before the batch commits.)                                              *)
(***************************************************************************)
EXTENDS BookkeeperLocks_proofs

LedgerCalls ==
  /\ ReadForUpdate
  /\ \A r \in Requests :
       /\ r.kind \in BatchKinds => \A i \in 1..Len(r.keys) : InitialDB[r.keys[i]] # None
       /\ r.kind = "transfer" => r.keys[1] # r.keys[2]

\* No call deletes a row.
RowsStay == \A a \in Accounts : InitialDB[a] # None => db[a] # None

\* What an operation of a batch makes of a row that allows it.
Allows(r, row) ==
  IF r.kind = "batchlock" THEN L!CanLock(row, r.amount) ELSE L!CanUnlock(row, r.amount)
Changed(r, row) ==
  IF r.kind = "batchlock" THEN L!Add(row, 0, -r.amount, r.amount)
  ELSE L!Add(row, 0, r.amount, -r.amount)

\* A batch holds the rows of all accounts it has come to, and has written those
\* that allowed it, as they are committed.
BatchExact(c) ==
  LET r  == call[c].req
      n  == Len(call[c].seen)
      at == call[c].at
  IN  /\ at = 2 * n => call[c].seen[n] # None
      /\ \A i \in 1..Len(r.keys) :
           /\ 2 * i <= at => rowLock[r.keys[i]] = c
           /\ 2 * i < at => call[c].dirty[r.keys[i]] =
                IF Allows(r, db[r.keys[i]]) THEN Changed(r, db[r.keys[i]]) ELSE None

\* A transfer has written nothing but what it moves between its accounts.
TransferExact(c) ==
  LET r    == call[c].req
      m    == Len(MutexOrder(r))
      at   == call[c].at
      seen == call[c].seen
      d    == call[c].dirty
  IN  /\ at > m + 3 => /\ L!CanLock(seen[1], r.amount)
                       /\ d[r.keys[1]] = L!Add(seen[1], -r.amount, -r.amount, 0)
      /\ at > m + 4 => d[r.keys[2]] = L!Add(seen[2], r.amount, r.amount, 0)
      /\ \A a \in Accounts : a # r.keys[1] /\ a # r.keys[2] => d[a] = None

Exact(c) ==
  Running(c) =>
    /\ call[c].req.kind \in BatchKinds => BatchExact(c)
    /\ call[c].req.kind = "transfer" => TransferExact(c)

EInv == LInv /\ RowsStay /\ \A c \in Clients : Exact(c)

-----------------------------------------------------------------------------
(***************************************************************************)
(* What a step of one client leaves alone of another.                      *)
(***************************************************************************)
LEMMA OthersExact ==
  ASSUME CallsOK, NEW d \in Clients, Exact(d), call'[d] = call[d],
         \A a \in Accounts : rowLock[a] = d => rowLock'[a] = d /\ db'[a] = db[a]
  PROVE  Exact(d)'
<1> SUFFICES ASSUME Running(d)
             PROVE  /\ call[d].req.kind \in BatchKinds => BatchExact(d)'
                    /\ call[d].req.kind = "transfer" => TransferExact(d)'
  BY DEF Exact, Running
<1>1. ASSUME call[d].req.kind = "transfer" PROVE TransferExact(d)'
  BY <1>1 DEF Exact, TransferExact
<1>2. ASSUME call[d].req.kind \in BatchKinds PROVE BatchExact(d)'
  <2> DEFINE r == call[d].req
             at == call[d].at
  <2>1. BatchExact(d) /\ at \in Nat
    BY <1>2, CallTypes DEF Exact
  <2>2. Len(r.keys) \in Nat /\ \A i \in 1..Len(r.keys) : r.keys[i] \in Accounts
    BY <1>2, CallTypes, RequestTypes DEF BatchKinds
  <2>3. ASSUME NEW i \in 1..Len(r.keys), 2 * i <= at
        PROVE  /\ rowLock'[r.keys[i]] = d
               /\ db'[r.keys[i]] = db[r.keys[i]]
    BY <2>1, <2>2, <2>3 DEF BatchExact
  <2>4. \A i \in 1..Len(r.keys) : 2 * i < at => 2 * i <= at
    BY <2>1, <2>2
  <2>5. ASSUME NEW i \in 1..Len(r.keys), 2 * i < at
        PROVE  call[d].dirty[r.keys[i]] =
                 IF Allows(r, db'[r.keys[i]]) THEN Changed(r, db'[r.keys[i]]) ELSE None
    BY <2>1, <2>3, <2>4, <2>5 DEF BatchExact
  <2>6. at = 2 * Len(call[d].seen) => call[d].seen[Len(call[d].seen)] # None
    BY <2>1 DEF BatchExact
  <2> HIDE DEF r, at
  <2> QED BY <2>3, <2>5, <2>6 DEF BatchExact, Allows, Changed, r, at
<1> QED BY <1>1, <1>2

-----------------------------------------------------------------------------
(***************************************************************************)
(* What a step leaves of the client that takes it.                         *)
(***************************************************************************)
LEMMA InvokeExact ==
  ASSUME LedgerCalls, CallsOK, NEW c \in Clients, NEW r \in Requests, Invoke(c, r)
  PROVE  Exact(c)'
<1> DEFINE k == [NoCall EXCEPT !.req = r, !.at = 1]
<1>1. k.req = r /\ k.at = 1 /\ k.seen = <<>> /\ k.dirty = [x \in Keys |-> None]
  BY DEF NoCall
<1>2. call'[c] = k
  BY DEF Invoke, CallsOK
<1> HIDE DEF k
<1>3. r.kind \in BatchKinds => BatchExact(c)'
  <2>1. \A i \in 1..Len(r.keys) : ~(2 * i <= 1) /\ ~(2 * i < 1)
    BY RequestTypes
  <2>2. 1 # 2 * Len(<<>>)
    OBVIOUS
  <2> QED BY <1>1, <1>2, <2>1, <2>2 DEF BatchExact
<1>4. r.kind = "transfer" => TransferExact(c)'
  <2>1. \A a \in Accounts : k.dirty[a] = None
    BY <1>1 DEF Keys
  <2> QED BY <1>1, <1>2, <2>1, MutexOrderType DEF TransferExact
<1> QED BY <1>1, <1>2, <1>3, <1>4 DEF Exact

LEMMA TakeMutexExact ==
  ASSUME LedgerCalls, IInv, NEW c \in Clients, Exact(c), TakeMutex(c)
  PROVE  Exact(c)'
<1> DEFINE r == call[c].req
           m == Len(MutexOrder(r))
           at == call[c].at
<1>1. CallsOK /\ Running(c) /\ ~Finished(c) /\ Now(c).do = "mutex"
  BY DEF IInv, TakeMutex, At
<1>2. r \in Requests /\ r.kind = "transfer"
  <2>1. r.kind \notin BatchKinds
    BY <1>1, BatchPosition DEF Stmt, BatchKinds
  <2> QED BY <1>1, <2>1, KindOf DEF LedgerCalls
<1>3. m \in 1..2 /\ at \in 1..m
  BY <1>1, <1>2, TransferPosition, MutexOrderType DEF Stmt
<1>4. /\ call'[c].req = r /\ call'[c].at = at + 1 /\ call'[c].seen = call[c].seen
      /\ call'[c].dirty = call[c].dirty
  <2>1. call[c] \in Calls
    BY <1>1, CallTypes
  <2> QED BY <1>1, <2>1 DEF TakeMutex, CallsOK, Calls
<1>5. \A a \in Accounts : a # r.keys[1] /\ a # r.keys[2] => call[c].dirty[a] = None
  BY <1>1, <1>2 DEF Exact, TransferExact
<1>6. TransferExact(c)'
  BY <1>3, <1>4, <1>5 DEF TransferExact
<1> QED BY <1>2, <1>4, <1>6 DEF Exact, BatchKinds

\* An operation that is skipped does not allow its row as it is committed.
LEMMA SkipExact ==
  ASSUME LedgerCalls, IInv, NEW c \in Clients, CallBacked(c), Exact(c), SkipOperation(c)
  PROVE  Exact(c)'
<1> DEFINE r == call[c].req
           n == Len(call[c].seen)
           at == call[c].at
<1>1. /\ CallsOK /\ Running(c) /\ At(c, "save") /\ r.kind \in BatchKinds
      /\ Refused(r, call[c].seen)
  BY DEF IInv, SkipOperation, Rejected, Batch, BatchKinds
<1>2. /\ call'[c].req = r /\ call'[c].at = at + 1
      /\ call'[c].seen = call[c].seen /\ call'[c].dirty = call[c].dirty
  <2>1. call[c] \in Calls
    BY <1>1, CallTypes
  <2> QED BY <1>1, <2>1 DEF SkipOperation, CallsOK, Calls
<1>3. rowLock' = rowLock /\ db' = db
  BY DEF SkipOperation
<1>4. BatchBacked(c) /\ BatchExact(c)
  BY <1>1 DEF CallBacked, Exact
<1>5. r \in Requests /\ at = 2 * n /\ n \in 1..Len(r.keys) /\ Len(r.keys) \in Nat /\ n \in Nat
  BY <1>1, BatchPosition, CallTypes, RequestTypes DEF At, Stmt, BatchKinds
<1>6. db[r.keys[n]] = call[c].seen[n] /\ r.keys[n] \in Accounts
  BY <1>1, <1>4, <1>5, RequestTypes DEF BatchBacked, BatchExact, BatchKinds
<1>7. ~Allows(r, db[r.keys[n]])
  BY <1>1, <1>6 DEF Refused, Allows, BatchKinds
<1>8. call[c].dirty[r.keys[n]] = None
  <2> SUFFICES ASSUME call[c].dirty[r.keys[n]] # None PROVE FALSE
    OBVIOUS
  <2>1. PICK i \in 1..Len(r.keys) : r.keys[i] = r.keys[n] /\ 2 * i < at
    BY <1>4, <1>6 DEF BatchBacked
  <2>2. i = n
    BY <1>1, <1>5, <2>1 DEF LedgerCalls, ReadForUpdate, BatchKinds
  <2> QED BY <1>5, <2>1, <2>2
<1>9. \A i \in 1..Len(r.keys) : /\ 2 * i <= at + 1 => 2 * i <= at
                                /\ 2 * i < at + 1 => 2 * i < at \/ i = n
  BY <1>5
<1>10. at + 1 # 2 * n
  BY <1>5
<1>11. BatchExact(c)'
  <2>1. ASSUME NEW i \in 1..Len(r.keys), 2 * i <= at + 1 PROVE rowLock[r.keys[i]] = c
    BY <1>4, <1>9, <2>1 DEF BatchExact
  <2>2. ASSUME NEW i \in 1..Len(r.keys), 2 * i < at + 1
        PROVE  call[c].dirty[r.keys[i]] =
                 IF Allows(r, db[r.keys[i]]) THEN Changed(r, db[r.keys[i]]) ELSE None
    BY <1>4, <1>7, <1>8, <1>9, <2>2 DEF BatchExact
  <2> QED BY <1>2, <1>3, <1>10, <2>1, <2>2 DEF BatchExact, Allows, Changed
<1> QED BY <1>1, <1>2, <1>11 DEF Exact, BatchKinds

LEMMA ForUpdateExact ==
  ASSUME LedgerCalls, IInv, RowsStay, NEW c \in Clients, Exact(c), ForUpdate(c)
  PROVE  Exact(c)'
<1> DEFINE r == call[c].req
           at == call[c].at
           seen == call[c].seen
           n == Len(seen)
           x == Visible(c, Row(c))
           v == IF x = None /\ r.kind = "transfer" /\ Now(c).slot = 2 THEN L!Zero ELSE x
<1>1. CallsOK /\ Running(c) /\ ~Finished(c) /\ Now(c).do = "forupdate"
  BY DEF IInv, ForUpdate, At
<1>2. /\ r \in Requests /\ at \in Nat /\ seen \in Seq(Values) /\ n \in Nat
      /\ r.kind \in BatchKinds \/ r.kind = "transfer"
  BY <1>1, CallTypes, KindOf DEF LedgerCalls
<1>3. /\ call'[c].req = r /\ call'[c].at = at + 1 /\ call'[c].seen = Append(seen, v)
      /\ call'[c].dirty = call[c].dirty
  <2>1. call[c] \in Calls
    BY <1>1, CallTypes
  <2>2. call' = [call EXCEPT ![c] = [call[c] EXCEPT !.at = @ + 1, !.seen = Append(@, v)]]
    BY <1>1 DEF ForUpdate, CallsOK
  <2> HIDE DEF v
  <2>3. call'[c] = [call[c] EXCEPT !.at = @ + 1, !.seen = Append(@, v)]
    BY <1>1, <2>2 DEF CallsOK
  <2>4. [call[c] EXCEPT !.at = @ + 1, !.seen = Append(@, v)]
          = [req |-> r, at |-> at + 1, seen |-> Append(seen, v), dirty |-> call[c].dirty]
    BY <2>1, TwoFields
  <2> QED BY <2>3, <2>4
<1>4. v \in Values
  BY <1>1, RowType, VisibleType DEF IInv, L!Zero, Rows, Values
<1>5. Len(Append(seen, v)) = n + 1 /\ Append(seen, v)[n + 1] = v
  <2> HIDE DEF v
  <2> QED BY <1>2, <1>4, AppendProperties
<1>6. db' = db /\ rowLock \in [Keys -> Clients \cup {None}]
  BY DEF ForUpdate, IInv, OtherTypes
<1>7. \A a \in Accounts : rowLock[a] = c => rowLock'[a] = c
  BY <1>6 DEF ForUpdate, Keys
<1>8. x # None => rowLock'[Row(c)] = c
  BY <1>1, <1>6, RowType DEF ForUpdate
<1>9. CASE r.kind \in BatchKinds
  <2>1. /\ at = 2 * n + 1 /\ n + 1 \in 1..Len(r.keys) /\ Now(c) = Stmt("forupdate", n + 1)
    BY <1>1, <1>9, BatchPosition DEF Stmt, BatchKinds
  <2>2. /\ Row(c) = r.keys[n + 1] /\ Len(r.keys) \in Nat
        /\ \A i \in 1..Len(r.keys) : r.keys[i] \in Accounts
    BY <1>2, <1>9, <2>1, RequestTypes DEF Row, Stmt, BatchKinds
  <2>3. x # None
    BY <1>2, <1>9, <2>1, <2>2 DEF Visible, RowsStay, LedgerCalls
  <2>4. v # None
    BY <1>9, <2>3 DEF BatchKinds
  <2>5. \A i \in 1..Len(r.keys) : /\ 2 * i <= at + 1 => 2 * i <= at \/ i = n + 1
                                  /\ 2 * i < at + 1 => 2 * i < at
    BY <1>2, <2>1, <2>2
  <2>6. BatchExact(c)
    BY <1>1, <1>9 DEF Exact
  <2> HIDE DEF x, v
  <2>7. BatchExact(c)'
    <3>1. ASSUME NEW i \in 1..Len(r.keys), 2 * i <= at + 1 PROVE rowLock'[r.keys[i]] = c
      <4>1. CASE i = n + 1
        BY <1>8, <2>2, <2>3, <4>1
      <4>2. CASE 2 * i <= at
        BY <1>7, <2>2, <2>6, <4>2 DEF BatchExact
      <4> QED BY <2>5, <3>1, <4>1, <4>2
    <3>2. ASSUME NEW i \in 1..Len(r.keys), 2 * i < at + 1
          PROVE  call[c].dirty[r.keys[i]] =
                   IF Allows(r, db[r.keys[i]]) THEN Changed(r, db[r.keys[i]]) ELSE None
      BY <2>5, <2>6, <3>2 DEF BatchExact
    <3> QED BY <1>3, <1>5, <1>6, <2>4, <3>1, <3>2 DEF BatchExact, Allows, Changed
  <2> QED BY <1>3, <1>9, <2>7 DEF Exact, BatchKinds
<1>10. CASE r.kind = "transfer"
  <2> DEFINE m == Len(MutexOrder(r))
  <2>1. m \in 1..2 /\ (at = m + 1 \/ at = m + 2)
    BY <1>1, <1>2, <1>10, MutexOrderType, TransferPosition DEF Stmt
  <2>2. \A a \in Accounts : a # r.keys[1] /\ a # r.keys[2] => call[c].dirty[a] = None
    BY <1>1, <1>10 DEF Exact, TransferExact
  <2>3. ~(at + 1 > m + 3) /\ ~(at + 1 > m + 4)
    BY <2>1
  <2> HIDE DEF v
  <2>4. TransferExact(c)'
    BY <1>3, <2>2, <2>3 DEF TransferExact
  <2> QED BY <1>3, <1>10, <2>4 DEF Exact, BatchKinds
<1> QED BY <1>2, <1>9, <1>10

LEMMA SaveExact ==
  ASSUME LedgerCalls, IInv, NEW c \in Clients, CallBacked(c), Exact(c), Save(c)
  PROVE  Exact(c)'
<1> DEFINE r == call[c].req
           at == call[c].at
           seen == call[c].seen
           n == Len(seen)
           k == Row(c)
           v == Saved(r, seen, Now(c).slot)
           t == [call[c].dirty EXCEPT ![k] = v]
<1>1. CallsOK /\ Running(c) /\ ~Finished(c) /\ Now(c).do = "save" /\ ~Rejected(c) /\ At(c, "save")
  BY DEF IInv, Save, At
<1>2. /\ r \in Requests /\ at \in Nat /\ n \in Nat
      /\ r.kind \in BatchKinds \/ r.kind = "transfer"
      /\ call[c].dirty \in Tables
  BY <1>1, CallTypes, KindOf DEF LedgerCalls
<1>3. /\ call'[c].req = r /\ call'[c].at = at + 1 /\ call'[c].seen = seen /\ call'[c].dirty = t
  <2>1. call[c] \in Calls
    BY <1>1, CallTypes
  <2>2. call' = [call EXCEPT ![c] = [call[c] EXCEPT !.at = @ + 1, !.dirty = t]]
    BY <1>1 DEF Save, CallsOK
  <2> HIDE DEF t
  <2>3. call'[c] = [call[c] EXCEPT !.at = @ + 1, !.dirty = t]
    BY <1>1, <2>2 DEF CallsOK
  <2>4. [call[c] EXCEPT !.at = @ + 1, !.dirty = t]
          = [req |-> r, at |-> at + 1, seen |-> seen, dirty |-> t]
    BY <2>1, TwoFields
  <2> QED BY <2>3, <2>4
<1>4. db' = db /\ rowLock' = [rowLock EXCEPT ![k] = c] /\ rowLock \in [Keys -> Clients \cup {None}]
  BY DEF Save, IInv, OtherTypes
<1>5. \A a \in Accounts : call'[c].dirty[a] = IF a = k THEN v ELSE call[c].dirty[a]
  BY <1>2, <1>3 DEF Tables, Keys
<1>6. \A a \in Accounts : rowLock[a] = c => rowLock'[a] = c
  BY <1>4 DEF Keys
<1>7. seen # <<>> => ~Refused(r, seen)
  BY <1>1 DEF Rejected, Batch
<1> HIDE DEF v, t
<1>8. CASE r.kind \in BatchKinds
  <2>1. at = 2 * n /\ n \in 1..Len(r.keys) /\ Now(c) = Stmt("save", n)
    BY <1>1, <1>8, BatchPosition DEF Stmt, BatchKinds
  <2>2. /\ k = r.keys[n] /\ Len(r.keys) \in Nat /\ Now(c).slot = n
        /\ \A i \in 1..Len(r.keys) : r.keys[i] \in Accounts
    BY <1>2, <1>8, <2>1, RequestTypes DEF Row, Stmt, BatchKinds
  <2>3. BatchBacked(c) /\ BatchExact(c)
    BY <1>1, <1>8 DEF CallBacked, Exact
  <2>4. db[k] = seen[n]
    BY <2>1, <2>2, <2>3 DEF BatchBacked, BatchExact
  <2>5. Allows(r, db[k])
    <3>1. ~Refused(r, seen)
      BY <1>7, <2>1
    <3> QED BY <1>8, <2>4, <3>1 DEF Refused, Allows, BatchKinds
  <2>6. v = Changed(r, db[k])
    <3>1. CASE r.kind = "batchlock"
      BY <2>2, <2>4, <3>1 DEF v, Saved, Changed
    <3>2. CASE r.kind = "batchunlock"
      BY <2>2, <2>4, <3>2 DEF v, Saved, Changed
    <3> QED BY <1>8, <3>1, <3>2 DEF BatchKinds
  <2>7. \A i \in 1..Len(r.keys) : /\ 2 * i <= at + 1 => 2 * i <= at
                                  /\ 2 * i < at + 1 => 2 * i < at \/ i = n
                                  /\ r.keys[i] = k => i = n
    <3>1. \A i \in 1..Len(r.keys) : r.keys[i] = k => i = n
      BY <1>2, <1>8, <2>1, <2>2 DEF LedgerCalls, ReadForUpdate, BatchKinds
    <3>2. \A i \in 1..Len(r.keys) : /\ 2 * i <= at + 1 => 2 * i <= at
                                    /\ 2 * i < at + 1 => 2 * i < at \/ i = n
      BY <1>2, <2>1, <2>2
    <3> QED BY <3>1, <3>2
  <2>8. at + 1 # 2 * n
    BY <1>2, <2>1
  <2>9. BatchExact(c)'
    <3>1. ASSUME NEW i \in 1..Len(r.keys), 2 * i <= at + 1 PROVE rowLock'[r.keys[i]] = c
      BY <1>6, <2>2, <2>3, <2>7, <3>1 DEF BatchExact
    <3>2. ASSUME NEW i \in 1..Len(r.keys), 2 * i < at + 1
          PROVE  call'[c].dirty[r.keys[i]] =
                   IF Allows(r, db[r.keys[i]]) THEN Changed(r, db[r.keys[i]]) ELSE None
      <4>1. CASE i = n
        BY <1>5, <2>2, <2>5, <2>6, <4>1
      <4>2. CASE i # n
        <5>1. 2 * i < at /\ r.keys[i] # k /\ r.keys[i] \in Accounts
          BY <2>2, <2>7, <3>2, <4>2
        <5> QED BY <1>5, <2>3, <5>1 DEF BatchExact
      <4> QED BY <4>1, <4>2
    <3> QED BY <1>3, <1>4, <2>8, <3>1, <3>2 DEF BatchExact, Allows, Changed
  <2> QED BY <1>3, <1>8, <2>9 DEF Exact, BatchKinds
<1>9. CASE r.kind = "transfer"
  <2> DEFINE m == Len(MutexOrder(r))
  <2>1. /\ \/ at = m + 3 /\ Now(c) = Stmt("save", 1)
           \/ at = m + 4 /\ Now(c) = Stmt("save", 2)
        /\ n = 2
    BY <1>1, <1>9, TransferPosition DEF Stmt
  <2>2. /\ r.keys[1] \in Accounts /\ r.keys[2] \in Accounts /\ r.keys[1] # r.keys[2]
        /\ m \in 1..2
    BY <1>2, <1>9, RequestTypes, MutexOrderType DEF LedgerCalls
  <2>3. L!CanLock(seen[1], r.amount)
    <3>1. ~Refused(r, seen)
      BY <1>7, <2>1
    <3> QED BY <1>9, <2>1, <3>1 DEF Refused
  <2>4. TransferExact(c)
    BY <1>1, <1>9 DEF Exact
  <2>5. ASSUME at = m + 3, Now(c) = Stmt("save", 1) PROVE TransferExact(c)'
    <3>1. k = r.keys[1] /\ v = L!Add(seen[1], -r.amount, -r.amount, 0)
      BY <1>9, <2>5 DEF Row, Stmt, v, Saved
    <3>2. ~(at + 1 > m + 4)
      BY <2>2, <2>5
    <3>3. \A a \in Accounts : a # r.keys[1] /\ a # r.keys[2] => call'[c].dirty[a] = None
      BY <1>5, <2>4, <3>1 DEF TransferExact
    <3>4. call'[c].dirty[r.keys[1]] = v
      BY <1>5, <2>2, <3>1
    <3> QED BY <1>3, <2>3, <3>1, <3>2, <3>3, <3>4 DEF TransferExact
  <2>6. ASSUME at = m + 4, Now(c) = Stmt("save", 2) PROVE TransferExact(c)'
    <3>1. k = r.keys[2] /\ v = L!Add(seen[2], r.amount, r.amount, 0)
      BY <1>9, <2>6 DEF Row, Stmt, v, Saved
    <3>2. at > m + 3
      BY <2>2, <2>6
    <3>3. \A a \in Accounts : a # r.keys[1] /\ a # r.keys[2] => call'[c].dirty[a] = None
      BY <1>5, <2>4, <3>1 DEF TransferExact
    <3>4. /\ call'[c].dirty[r.keys[1]] = L!Add(seen[1], -r.amount, -r.amount, 0)
          /\ call'[c].dirty[r.keys[2]] = v
      BY <1>5, <2>2, <2>4, <3>1, <3>2 DEF TransferExact
    <3> QED BY <1>3, <2>3, <3>1, <3>3, <3>4 DEF TransferExact
  <2>7. TransferExact(c)'
    BY <2>1, <2>5, <2>6
  <2> QED BY <1>3, <1>9, <2>7 DEF Exact, BatchKinds
<1> QED BY <1>2, <1>8, <1>9

-----------------------------------------------------------------------------
(***************************************************************************)
(* A commit is a step of the ledger.                                       *)
(***************************************************************************)
Shown == [a \in Accounts |-> db[a]]

LEMMA AddIsRow ==
  ASSUME NEW row \in Rows, NEW x \in Int, NEW y \in Int, NEW z \in Int
  PROVE  L!Add(row, x, y, z) \in Rows /\ L!Add(row, x, y, z) # None
BY NoRowAssumption DEF L!Add, Rows

LEMMA BatchTakesPlace ==
  ASSUME LedgerCalls, EInv, NEW c \in Clients, Commit(c),
         NEW r \in Requests, call[c].req = r, r.kind \in BatchKinds
  PROVE  L!Next
<1>1. CallsOK /\ Running(c) /\ Finished(c) /\ BatchBacked(c) /\ BatchExact(c)
  BY DEF EInv, LInv, IInv, CallBacked, Exact, Commit
<1>2. r \in Requests /\ Len(r.keys) \in Nat /\ BatchProgress(call[c]) /\ DOMAIN r.keys = 1..Len(r.keys)
  BY <1>1, CallTypes, RequestTypes DEF Progress, BatchKinds
<1>3. call[c].at > 2 * Len(r.keys)
  BY <1>1, <1>2, BatchProgram DEF Finished, BatchKinds
<1>4. \A i \in 1..Len(r.keys) : 2 * i < call[c].at
  BY <1>2, <1>3 DEF BatchProgress
<1>8. /\ r.amount \in Nat
      /\ \A a \in Accounts : db[a] # None => db[a] \in Rows
      /\ \A row \in Rows, x, y, z \in Int : L!Add(row, x, y, z) # None
  BY <1>1, <1>2, AddIsRow, RequestTypes DEF EInv, LInv, IInv, Tables, Sound
<1>5. ASSUME NEW a \in Accounts
      PROVE  Shown'[a] = IF (\E i \in DOMAIN r.keys : r.keys[i] = a) /\ Allows(r, db[a])
                           THEN Changed(r, db[a]) ELSE db[a]
  <2>1. /\ Shown'[a] = db'[a]
        /\ db'[a] = IF call[c].dirty[a] # None THEN call[c].dirty[a] ELSE db[a]
    BY DEF Shown, Commit, Visible, Keys
  <2>2. CASE \E i \in DOMAIN r.keys : r.keys[i] = a
    <3>1. PICK i \in 1..Len(r.keys) : r.keys[i] = a
      BY <1>2, <2>2
    <3>2. call[c].dirty[a] = IF Allows(r, db[a]) THEN Changed(r, db[a]) ELSE None
      BY <1>1, <1>4, <3>1 DEF BatchExact
    <3>3. Allows(r, db[a]) => Changed(r, db[a]) # None
      BY <1>2, <1>8 DEF Allows, Changed, L!CanLock, L!CanUnlock
    <3> QED BY <2>1, <2>2, <3>2, <3>3
  <2>3. CASE ~\E i \in DOMAIN r.keys : r.keys[i] = a
    <3>1. call[c].dirty[a] = None
      BY <1>1, <1>2, <2>3 DEF BatchBacked
    <3> QED BY <2>1, <2>3, <3>1
  <2> QED BY <2>2, <2>3
<1>6. CASE r.kind = "batchlock"
  <2>1. L!LockEach(r)
    BY <1>5, <1>6 DEF L!LockEach, Shown, Allows, Changed
  <2> QED BY <1>6, <2>1 DEF L!Next
<1>7. CASE r.kind = "batchunlock"
  <2>1. L!UnlockEach(r)
    BY <1>5, <1>7 DEF L!UnlockEach, Shown, Allows, Changed
  <2> QED BY <1>7, <2>1 DEF L!Next
<1> QED BY <1>6, <1>7 DEF BatchKinds

LEMMA TransferTakesPlace ==
  ASSUME LedgerCalls, EInv, NEW c \in Clients, Commit(c),
         NEW r \in Requests, call[c].req = r, r.kind = "transfer"
  PROVE  L!Next
<1> DEFINE m == Len(MutexOrder(r))
           seen == call[c].seen
<1>1. CallsOK /\ Running(c) /\ Finished(c) /\ TransferBacked(c) /\ TransferExact(c)
  BY DEF EInv, LInv, IInv, CallBacked, Exact, Commit
<1>2. /\ r \in Requests /\ m \in 1..2 /\ call[c].at \in Nat
      /\ r.keys[1] \in Accounts /\ r.keys[2] \in Accounts /\ r.keys[1] # r.keys[2]
  BY <1>1, CallTypes, RequestTypes, MutexOrderType DEF LedgerCalls
<1>3. call[c].at > m + 4 /\ call[c].at > m + 3 /\ call[c].at > m + 2 /\ call[c].at > m + 1
  <2>1. Len(Program(r)) = m + 4
    BY <1>2, TransferProgram
  <2> QED BY <1>1, <1>2, <2>1 DEF Finished
<1>4. L!CanLock(seen[1], r.amount) /\ db[r.keys[1]] = seen[1]
  BY <1>1, <1>3 DEF TransferBacked, TransferExact, L!CanLock
<1>5. seen[2] = IF db[r.keys[2]] = None THEN L!Zero ELSE db[r.keys[2]]
  BY <1>1, <1>3 DEF TransferBacked
<1>6. \A a \in Accounts : db'[a] = IF call[c].dirty[a] # None THEN call[c].dirty[a] ELSE db[a]
  BY DEF Commit, Visible, Keys
<1>7. /\ L!Add(seen[1], -r.amount, -r.amount, 0) # None
      /\ L!Add(seen[2], r.amount, r.amount, 0) # None
  <2>1. seen[1] \in Rows /\ r.amount \in Nat
    BY <1>1, <1>2, <1>4, RequestTypes DEF EInv, LInv, IInv, Tables, Sound, L!CanLock
  <2>2. seen[2] \in Rows
    BY <1>1, <1>2, <1>5 DEF EInv, LInv, IInv, Tables, Sound, L!Zero, Rows
  <2> QED BY <2>1, <2>2, AddIsRow
<1>8. /\ db'[r.keys[1]] = L!Add(db[r.keys[1]], -r.amount, -r.amount, 0)
      /\ db'[r.keys[2]] = L!Add(seen[2], r.amount, r.amount, 0)
      /\ \A a \in Accounts : a # r.keys[1] /\ a # r.keys[2] => db'[a] = db[a]
  BY <1>1, <1>2, <1>3, <1>4, <1>6, <1>7 DEF TransferExact
<1>9. L!Transfer(r)
  <2>1. Shown' = [Shown EXCEPT
          ![r.keys[1]] = L!Add(@, -r.amount, -r.amount, 0),
          ![r.keys[2]] = L!Add(IF @ = None THEN L!Zero ELSE @, r.amount, r.amount, 0)]
    BY <1>2, <1>5, <1>8 DEF Shown
  <2> QED BY <1>2, <1>4, <2>1 DEF L!Transfer, Shown
<1> QED BY <1>9 DEF L!Next

LEMMA CommitTakesPlace ==
  ASSUME LedgerCalls, EInv, NEW c \in Clients, Commit(c)
  PROVE  L!Next
<1>1. CallsOK /\ Running(c)
  BY DEF EInv, LInv, IInv, Commit
<1>2. PICK r \in Requests : call[c].req = r
  BY <1>1, CallTypes
<1>3. r.kind \in BatchKinds \/ r.kind = "transfer"
  BY <1>1, <1>2, KindOf DEF LedgerCalls
<1> QED BY <1>2, <1>3, BatchTakesPlace, TransferTakesPlace

-----------------------------------------------------------------------------
(***************************************************************************)
(* Every step.                                                             *)
(***************************************************************************)
LEMMA InitEInv == Init => EInv
<1> SUFFICES ASSUME Init PROVE EInv
  OBVIOUS
<1>1. \A c \in Clients : ~Running(c)
  BY NoCallType DEF Init, Running
<1> QED BY <1>1, InitLInv DEF EInv, RowsStay, Exact, Init

LEMMA OwnExact ==
  ASSUME LedgerCalls, EInv, NEW c \in Clients, Step(c) \/ Abort(c)
  PROVE  Exact(c)'
<1>1. IInv /\ CallsOK /\ CallBacked(c) /\ Exact(c) /\ RowsStay
  BY DEF EInv, LInv, IInv
<1>2. CASE Read(c)
  <2>1. Running(c) /\ ~Finished(c) /\ Now(c).do = "read"
    BY <1>2 DEF Read, At
  <2>2. call[c].req.kind \notin BatchKinds /\ call[c].req.kind # "transfer"
    BY <1>1, <2>1, BatchPosition, TransferPosition DEF Stmt, BatchKinds
  <2> QED BY <1>1, <2>1, <2>2, KindOf DEF LedgerCalls
<1>3. CASE Reject(c) \/ Abort(c) \/ Commit(c)
  <2>1. Release(c)
    BY <1>3 DEF Reject, Abort, Commit
  <2> QED BY <1>1, <2>1, NoCallType DEF Release, Exact, Running, CallsOK
<1> QED BY <1>1, <1>2, <1>3, TakeMutexExact, ForUpdateExact, SaveExact, SkipExact DEF Step

LEMMA OthersStayExact ==
  ASSUME LedgerCalls, EInv, NEW c \in Clients, NEW d \in Clients \ {c}, Step(c) \/ Abort(c)
  PROVE  Exact(d)'
<1>1. LInv /\ CallsOK /\ Exact(d) /\ call \in [Clients -> Calls] /\ d # None
  BY NoneAssumption DEF EInv, LInv, IInv, CallsOK
<1>2. call'[d] = call[d]
  BY <1>1 DEF Step, TakeMutex, Read, ForUpdate, Save, SkipOperation, Reject, Commit, Abort, Release
<1>3. \A a \in Accounts : rowLock[a] = d => rowLock'[a] = d
  <2>1. CASE TakeMutex(c) \/ ForUpdate(c) \/ Save(c) \/ Release(c)
    BY <1>1, <2>1, OthersKeep
  <2>2. CASE Read(c) \/ SkipOperation(c)
    BY <2>2 DEF Read, SkipOperation
  <2> QED BY <2>1, <2>2 DEF Step, Reject, Commit, Abort
<1>4. \A a \in Accounts : rowLock[a] = d => db'[a] = db[a]
  <2>1. CASE Commit(c)
    BY <1>1, <2>1, CommitKeeps
  <2>2. CASE ~Commit(c)
    BY <2>2 DEF Step, TakeMutex, Read, ForUpdate, Save, SkipOperation, Reject, Abort
  <2> QED BY <2>1, <2>2
<1> QED BY <1>1, <1>2, <1>3, <1>4, OthersExact

LEMMA NextEInv == LedgerCalls /\ EInv /\ [Next]_vars => EInv' /\ [L!Next]_Shown
<1> SUFFICES ASSUME LedgerCalls, EInv, [Next]_vars
             PROVE  EInv' /\ [L!Next]_Shown
  OBVIOUS
<1>1. LInv'
  BY NextLInv DEF EInv, LedgerCalls
<1>2. ASSUME db' = db PROVE RowsStay' /\ Shown' = Shown
  BY <1>2 DEF EInv, RowsStay, Shown
<1>3. ASSUME NEW c \in Clients, NEW r \in Requests, Invoke(c, r)
      PROVE  EInv' /\ Shown' = Shown
  <2>1. Exact(c)'
    BY <1>3, InvokeExact DEF EInv, LInv, IInv
  <2>2. ASSUME NEW d \in Clients \ {c} PROVE Exact(d)'
    <3>1. CallsOK /\ Exact(d) /\ call'[d] = call[d] /\ db' = db /\ rowLock' = rowLock
      BY <1>3 DEF EInv, LInv, IInv, CallsOK, Invoke
    <3> QED BY <3>1, OthersExact
  <2>3. db' = db
    BY <1>3 DEF Invoke
  <2> QED BY <1>1, <1>2, <2>1, <2>2, <2>3 DEF EInv
<1>4. ASSUME NEW c \in Clients, Step(c) \/ Abort(c)
      PROVE  EInv' /\ (L!Next \/ Shown' = Shown)
  <2>1. \A d \in Clients : Exact(d)'
    BY <1>4, OwnExact, OthersStayExact
  <2>2. CASE Commit(c)
    <3>1. RowsStay'
      BY <2>2 DEF EInv, RowsStay, Commit, Visible, Keys
    <3> QED BY <1>1, <2>1, <2>2, <3>1, CommitTakesPlace DEF EInv
  <2>3. CASE ~Commit(c)
    <3>1. db' = db
      BY <1>4, <2>3 DEF Step, TakeMutex, Read, ForUpdate, Save, SkipOperation, Reject, Abort
    <3> QED BY <1>1, <1>2, <2>1, <3>1 DEF EInv
  <2> QED BY <2>2, <2>3
<1>5. CASE UNCHANGED vars
  <2>1. \A d \in Clients : Exact(d)'
    BY <1>5, OthersExact DEF EInv, LInv, IInv, vars
  <2>2. db' = db
    BY <1>5 DEF vars
  <2> QED BY <1>1, <1>2, <2>1, <2>2 DEF EInv
<1> QED BY <1>3, <1>4, <1>5 DEF Next

\* If every call reads FOR UPDATE, batches name accounts that exist, each once,
\* and transfers have two users, every call takes place at one instant, or not
\* at all: the bookkeeper implements Ledger.
THEOREM CallsAreAtomic ==
  ASSUME LedgerCalls
  PROVE  Spec => ImplementsLedger
<1>1. EInv /\ [Next]_vars => EInv' /\ [L!Next]_Shown
  BY NextEInv
<1> QED BY <1>1, InitEInv, PTL DEF Spec, ImplementsLedger, L!Spec, Shown

-----------------------------------------------------------------------------
(***************************************************************************)
(* What follows from the ledger alone.                                     *)
(***************************************************************************)
\* Every operation of the ledger keeps the money.
LEMMA LedgerKeepsMoney ==
  ASSUME db \in Tables, L!Next
  PROVE  \A a \in Accounts : Gain(a) # 0 =>
           \E b \in Accounts \ {a} :
             Gain(a) + Gain(b) = 0 /\ \A d \in Accounts \ {a, b} : Gain(d) = 0
<1>1. PICK r \in Requests : \/ r.kind \in {"lock", "batchlock"} /\ L!LockEach(r)
                            \/ r.kind \in {"unlock", "batchunlock"} /\ L!UnlockEach(r)
                            \/ r.kind = "transfer" /\ L!Transfer(r)
  BY DEF L!Next
<1>2. r.amount \in Nat
  BY RequestTypes
<1>3. \A a \in Accounts : db[a] = None \/ (db[a] \in Rows /\ db[a].balance \in Int /\ db[a] # None)
  BY NoRowAssumption DEF Tables, Sound, Rows
<1>4. \A row \in Rows, x, y, z \in Int :
        L!Add(row, x, y, z) # None /\ L!Add(row, x, y, z).balance = row.balance + x
  <2>1. \A row \in Rows, x, y, z \in Int : L!Add(row, x, y, z).balance = row.balance + x
    BY DEF L!Add
  <2> QED BY <2>1, AddIsRow
<1>5. CASE L!LockEach(r) \/ L!UnlockEach(r)
  <2>1. ASSUME NEW a \in Accounts PROVE Gain(a) = 0
    <3>1. \/ db'[a] = db[a]
          \/ db[a] # None /\ db'[a] = L!Add(db[a], 0, -r.amount, r.amount)
          \/ db[a] # None /\ db'[a] = L!Add(db[a], 0, r.amount, -r.amount)
      BY <1>5 DEF L!LockEach, L!UnlockEach, L!CanLock, L!CanUnlock
    <3>2. CASE db'[a] = db[a]
      BY <1>3, <3>2 DEF Gain, Balance
    <3>3. CASE db'[a] # db[a]
      <4>1. db[a] \in Rows /\ db[a] # None /\ db'[a] # None /\ db'[a].balance = db[a].balance + 0
        BY <1>2, <1>3, <1>4, <3>1, <3>3
      <4> QED BY <1>3, <4>1 DEF Gain, Balance
    <3> QED BY <3>2, <3>3
  <2> QED BY <2>1
<1>6. CASE r.kind = "transfer" /\ L!Transfer(r)
  <2> DEFINE from == r.keys[1]
             to == r.keys[2]
             before == IF db[to] = None THEN L!Zero ELSE db[to]
  <2>1. from \in Accounts /\ to \in Accounts /\ from # to /\ db[from] # None
    BY <1>6, RequestTypes DEF L!Transfer, L!CanLock
  <2>2. /\ db'[from] = L!Add(db[from], -r.amount, -r.amount, 0)
        /\ db'[to] = L!Add(before, r.amount, r.amount, 0)
        /\ \A d \in Accounts : d # from /\ d # to => db'[d] = db[d]
    <3> DEFINE new == [Shown EXCEPT
            ![from] = L!Add(@, -r.amount, -r.amount, 0),
            ![to]   = L!Add(IF @ = None THEN L!Zero ELSE @, r.amount, r.amount, 0)]
    <3>1. Shown' = new
      BY <1>6 DEF L!Transfer, Shown
    <3>2. /\ new[from] = L!Add(db[from], -r.amount, -r.amount, 0)
          /\ new[to] = L!Add(before, r.amount, r.amount, 0)
          /\ \A d \in Accounts : d # from /\ d # to => new[d] = db[d]
      BY <2>1 DEF Shown
    <3>3. \A a \in Accounts : Shown'[a] = db'[a]
      BY DEF Shown
    <3> HIDE DEF new
    <3> QED BY <2>1, <3>1, <3>2, <3>3
  <2>3. before \in Rows /\ before.balance \in Int /\ before.balance = Balance(db, to)
    BY <1>3, <2>1 DEF L!Zero, Rows, Balance
  <2>4. Gain(from) = -r.amount
    BY <1>2, <1>3, <1>4, <2>1, <2>2 DEF Gain, Balance
  <2>5. Gain(to) = r.amount
    <3>1. db'[to] # None /\ db'[to].balance = before.balance + r.amount
      BY <1>2, <1>4, <2>2, <2>3
    <3>2. Balance(db', to) = before.balance + r.amount
      BY <3>1 DEF Balance
    <3> HIDE DEF before, to
    <3> QED BY <1>2, <2>3, <3>2 DEF Gain
  <2>6. \A d \in Accounts : d # from /\ d # to => Gain(d) = 0
    BY <1>3, <2>2 DEF Gain, Balance
  <2> HIDE DEF from, to
  <2> QED BY <1>2, <2>1, <2>4, <2>5, <2>6
<1> QED BY <1>1, <1>5, <1>6

LEMMA StepsKeepMoney ==
  LedgerCalls /\ EInv /\ [Next]_vars =>
    \A a \in Accounts : Gain(a) # 0 =>
      \E b \in Accounts \ {a} :
        Gain(a) + Gain(b) = 0 /\ \A d \in Accounts \ {a, b} : Gain(d) = 0
<1> SUFFICES ASSUME LedgerCalls, EInv, [Next]_vars
             PROVE  \A a \in Accounts : Gain(a) # 0 =>
                      \E b \in Accounts \ {a} :
                        Gain(a) + Gain(b) = 0 /\ \A d \in Accounts \ {a, b} : Gain(d) = 0
  OBVIOUS
<1>1. db \in Tables
  BY DEF EInv, LInv, IInv
<1>2. L!Next \/ Shown' = Shown
  BY NextEInv
<1>3. CASE Shown' = Shown
  <2>1. \A a \in Accounts : Shown'[a] = db'[a] /\ Shown[a] = db[a]
    BY DEF Shown
  <2>2. \A a \in Accounts : Gain(a) = 0
    BY <1>1, <1>3, <2>1 DEF Gain, Balance, Tables, Sound, Rows
  <2> QED BY <2>2
<1> QED BY <1>1, <1>2, <1>3, LedgerKeepsMoney

\* Under the same hypothesis no step makes money or loses any: what a transfer adds to
\* one balance it takes from one other, and nothing else changes a balance.
THEOREM NoMoneyIsMade ==
  ASSUME LedgerCalls
  PROVE  Spec => MoneyIsKept
<1>1. EInv /\ [Next]_vars =>
        EInv' /\ \A a \in Accounts : Gain(a) # 0 =>
                   \E b \in Accounts \ {a} :
                     Gain(a) + Gain(b) = 0 /\ \A d \in Accounts \ {a, b} : Gain(d) = 0
  BY NextEInv, StepsKeepMoney
<1> QED BY <1>1, InitEInv, PTL DEF Spec, MoneyIsKept
=============================================================================
