--------------------------- MODULE XAManager_proofs ---------------------------
(***************************************************************************)
(* Proofs about XAManager, for any sets of transactions and resources and  *)
(* any number of abort requests.                                           *)
(***************************************************************************)
EXTENDS XAManager, FiniteSetTheorems, TLAPS

-------------------------------------------------------------------------------
(***************************************************************************)
(* Type correctness.                                                       *)
(***************************************************************************)
LEMMA InitType == Init => TypeOK
<1>. SUFFICES ASSUME Init PROVE TypeOK
  OBVIOUS
<1>1. Idle \in Calls
  BY DEF Idle, Calls, Phases, Callers
<1>2. [pc |-> "idle", todo |-> {}, cur |-> None] \in Sweeps
  BY DEF Sweeps
<1>3. <<"none", "none">> \in Answers
  BY DEF Answers
<1>4. [total |-> 0, committed |-> 0, aborted |-> 0, heuristic |-> 0] \in Metrics
  BY DEF Metrics
<1>5. resources \in [Txns -> Seq(Resources)]
  BY DEF Init
<1>6. branch \in [Txns -> [Resources -> Branches]]
  BY DEF Init, Branches
<1>. QED
  BY <1>1, <1>2, <1>3, <1>4, <1>5, <1>6 DEF Init, TypeOK, Clients, States

\* Entering a call keeps the type of op.
LEMMA EnterType ==
  ASSUME TypeOK, NEW t \in Txns, NEW phase \in Phases, NEW by \in Callers,
         NEW call \in {"commit", "abort"}, Enter(t, phase, by, call)
  PROVE  op' \in [Txns -> Calls]
BY DEF TypeOK, Enter, Calls

\* So does the answer to the driving goroutine of client and answer ...
LEMMA AnswerType ==
  ASSUME TypeOK, NEW t \in Txns, NEW call \in {"commit", "abort"},
         NEW result \in {"ok", "error"}, Answer(t, call, result)
  PROVE  client' \in [Txns -> Clients] /\ answer' \in [Txns -> Answers]
<1>1. client' \in [Txns -> Clients]
  BY DEF TypeOK, Answer, Clients
<1>2. <<call, result>> \in Answers
  BY DEF Answers
<1>3. answer \in [Txns -> Answers]
  BY DEF TypeOK, Answers
<1>4. answer' = [answer EXCEPT ![t] = <<call, result>>]
  BY DEF Answer
<1>5. answer' \in [Txns -> Answers]
  BY <1>2, <1>3, <1>4
<1>. QED
  BY <1>1, <1>5

\* ... and the return of a call, whoever made it.
LEMMA ReturnType ==
  ASSUME TypeOK, NEW t \in Txns, NEW result \in {"ok", "error"}, Return(t, result)
  PROVE  /\ op' \in [Txns -> Calls]
         /\ client' \in [Txns -> Clients]
         /\ answer' \in [Txns -> Answers]
         /\ sweep' \in [Sweepers -> Sweeps]
<1>1. op' \in [Txns -> Calls]
  BY DEF TypeOK, Return, Calls, Idle, Phases, Callers
<1>2. op[t].call \in {"commit", "abort"}
  BY DEF TypeOK, Calls
<1>3. client' \in [Txns -> Clients] /\ answer' \in [Txns -> Answers]
  <2>1. CASE op[t].by = "client"
    BY <2>1, <1>2, AnswerType DEF Return
  <2>2. CASE op[t].by # "client"
    BY <2>2 DEF Return, TypeOK, Clients, Answers
  <2>. QED
    BY <2>1, <2>2
<1>4. sweep' \in [Sweepers -> Sweeps]
  <2>. DEFINE s == op[t].by
  <2>0. sweep \in [Sweepers -> Sweeps]
    BY DEF TypeOK, Sweeps
  <2>1. CASE s \in Sweepers
    <3>1. sweep' = [sweep EXCEPT ![s] = [sweep[s] EXCEPT !.pc = "scan", !.cur = None]]
      BY <2>0, <2>1 DEF Return, Sweeps
    <3>2. [sweep[s] EXCEPT !.pc = "scan", !.cur = None] \in Sweeps
      BY <2>0, <2>1 DEF Sweeps
    <3>. QED
      BY <2>0, <3>1, <3>2
  <2>2. CASE s \notin Sweepers
    BY <2>0, <2>2 DEF Return
  <2>. QED
    BY <2>1, <2>2
<1>. QED
  BY <1>1, <1>3, <1>4

\* The resource whose turn it is is one of the members.
LEMMA TurnType ==
  ASSUME TypeOK, NEW t \in Txns, HasTurn(t)
  PROVE  Turn(t) \in Resources /\ Turn(t) \in Members(t)
<1>1. resources[t] \in Seq(Resources) /\ op[t].next \in Nat \ {0}
  BY DEF TypeOK, Calls
<1>2. Len(resources[t]) \in Nat
  BY <1>1
<1>3. op[t].next \in 1..Len(resources[t])
  BY <1>1, <1>2 DEF HasTurn
<1>4. Turn(t) \in Resources
  BY <1>1, <1>3 DEF Turn
<1>. QED
  BY <1>3, <1>4 DEF Turn, Members

LEMMA CallRecordType ==
  ASSUME NEW c \in Calls, NEW n \in Nat \ {0}, NEW f \in BOOLEAN
  PROVE  [c EXCEPT !.next = n, !.failed = f] \in Calls
BY DEF Calls

\* Moving a call on to the next resource keeps the type of op.
LEMMA AdvanceType ==
  ASSUME TypeOK, NEW t \in Txns,
         \/ op' = [op EXCEPT ![t].next = @ + 1]
         \/ op' = [op EXCEPT ![t].next = @ + 1, ![t].failed = TRUE]
  PROVE  op' \in [Txns -> Calls]
<1>1. op \in [Txns -> Calls]
  BY DEF TypeOK
<1>2. op[t].next \in Nat \ {0} /\ op[t].next + 1 \in Nat \ {0}
  BY <1>1 DEF Calls
<1>3. /\ [op[t] EXCEPT !.next = @ + 1] \in Calls
      /\ [op[t] EXCEPT !.next = @ + 1, !.failed = TRUE] \in Calls
  <2>1. [op[t] EXCEPT !.next = @ + 1] \in Calls
    BY <1>1, <1>2 DEF Calls
  <2>2. [op[t] EXCEPT !.next = @ + 1, !.failed = TRUE] \in Calls
    BY <1>1, <1>2, CallRecordType
  <2>. QED
    BY <2>1, <2>2
<1>4. \/ op' = [op EXCEPT ![t] = [op[t] EXCEPT !.next = @ + 1]]
      \/ op' = [op EXCEPT ![t] = [op[t] EXCEPT !.next = @ + 1, !.failed = TRUE]]
  BY <1>1
<1>. QED
  BY <1>1, <1>3, <1>4

\* Giving one branch of one transaction another state keeps the type of branch.
LEMMA BranchType ==
  ASSUME TypeOK, NEW t \in Txns, NEW r \in Resources, NEW b \in Branches,
         branch' = [branch EXCEPT ![t][r] = b]
  PROVE  branch' \in [Txns -> [Resources -> Branches]]
<1>1. branch' = [branch EXCEPT ![t] = [branch[t] EXCEPT ![r] = b]]
  BY DEF TypeOK
<1>2. [branch[t] EXCEPT ![r] = b] \in [Resources -> Branches]
  BY DEF TypeOK
<1>. QED
  BY <1>1, <1>2 DEF TypeOK

\* Ends of calls keep the types of what they change.
LEMMA EndType ==
  ASSUME TypeOK, NEW t \in Txns, NEW outcome \in {"committed", "aborted"},
         NEW heuristic \in {"heur_commit", "heur_abort"},
         Completed(t, outcome) \/ Heuristic(t, heuristic)
  PROVE  /\ state' \in [Txns -> States]
         /\ metrics' \in Metrics
         /\ cleaning' \in SUBSET Txns
         /\ op' \in [Txns -> Calls]
         /\ client' \in [Txns -> Clients]
         /\ answer' \in [Txns -> Answers]
         /\ sweep' \in [Sweepers -> Sweeps]
<1>1. /\ op' \in [Txns -> Calls]
      /\ client' \in [Txns -> Clients]
      /\ answer' \in [Txns -> Answers]
      /\ sweep' \in [Sweepers -> Sweeps]
  BY ReturnType DEF Completed, Heuristic
<1>2. state' \in [Txns -> States] /\ cleaning' \in SUBSET Txns
  BY DEF TypeOK, Completed, Heuristic, States
<1>3. metrics' \in Metrics
  <2>1. metrics \in Metrics
    BY DEF TypeOK
  <2>2. metrics' = [metrics EXCEPT ![outcome] = @ + 1]
        \/ metrics' = [metrics EXCEPT !.heuristic = @ + 1]
    BY DEF Completed, Heuristic
  <2>. QED
    BY <2>1, <2>2 DEF Metrics
<1>. QED
  BY <1>1, <1>2, <1>3

\* One step of a call keeps the types.
LEMMA CallType ==
  ASSUME TypeOK, NEW t \in Txns, Call(t)
  PROVE  TypeOK'
<1>1. CASE OnePhase(t)
  <2>. DEFINE r == Turn(t)
  <2>1. r \in Resources
    BY <1>1, TurnType DEF OnePhase
  <2>2. branch' \in [Txns -> [Resources -> Branches]]
    <3>1. \E b \in Branches : branch' = [branch EXCEPT ![t][r] = b]
      BY <1>1, <2>1 DEF OnePhase, Branches, TypeOK
    <3>. QED
      BY <2>1, <3>1, BranchType
  <2>3. /\ op' \in [Txns -> Calls] /\ client' \in [Txns -> Clients]
        /\ answer' \in [Txns -> Answers] /\ sweep' \in [Sweepers -> Sweeps]
    <3>1. CASE Return(t, "ok")
      BY <3>1, ReturnType
    <3>2. CASE Enter(t, "rollback", "client", "commit") /\ UNCHANGED <<client, answer, sweep>>
      BY <3>2, EnterType DEF TypeOK, Phases, Callers
    <3>. QED
      BY <1>1, <3>1, <3>2 DEF OnePhase
  <2>4. committed' \in [Txns -> SUBSET Resources]
    BY <1>1, <2>1 DEF OnePhase, TypeOK
  <2>5. state' \in [Txns -> States]
    BY <1>1 DEF OnePhase, TypeOK, States
  <2>6. metrics' \in Metrics
    <3>1. metrics \in Metrics
      BY DEF TypeOK
    <3>2. metrics' = metrics \/ metrics' = [metrics EXCEPT !.committed = @ + 1]
      BY <1>1 DEF OnePhase
    <3>. QED
      BY <3>1, <3>2 DEF Metrics
  <2>. QED
    BY <1>1, <2>2, <2>3, <2>4, <2>5, <2>6 DEF OnePhase, TypeOK
<1>2. CASE PrepareResource(t)
  <2>. DEFINE r == Turn(t)
  <2>1. r \in Resources
    BY <1>2, TurnType DEF PrepareResource
  <2>2. branch' \in [Txns -> [Resources -> Branches]]
    <3>1. \E b \in Branches : branch' = [branch EXCEPT ![t][r] = b]
      BY <1>2 DEF PrepareResource, VoteYes, VoteNo, Branches
    <3>. QED
      BY <2>1, <3>1, BranchType
  <2>3. op' \in [Txns -> Calls]
    BY <1>2, EnterType, AdvanceType DEF PrepareResource, VoteYes, VoteNo, Phases, Callers
  <2>4. prepared' \in [Txns -> SUBSET Resources]
    <3>1. prepared \in [Txns -> SUBSET Resources]
      BY DEF TypeOK
    <3>2. prepared' = prepared \/ prepared' = [prepared EXCEPT ![t] = @ \cup {r}]
      BY <1>2 DEF PrepareResource, VoteYes, VoteNo
    <3>. QED
      BY <2>1, <3>1, <3>2
  <2>. QED
    BY <1>2, <2>2, <2>3, <2>4 DEF PrepareResource, TypeOK, mgrVars, envVars, callVars
<1>3. CASE AllPrepared(t)
  <2>1. op' \in [Txns -> Calls]
    BY <1>3, EnterType DEF AllPrepared, Phases, Callers
  <2>2. state' \in [Txns -> States]
    BY <1>3 DEF AllPrepared, TypeOK, States
  <2>. QED
    BY <1>3, <2>1, <2>2 DEF AllPrepared, TypeOK, mgrVars, envVars, callVars
<1>4. CASE CommitResource(t)
  <2>. DEFINE r == Turn(t)
  <2>1. r \in Resources
    BY <1>4, TurnType DEF CommitResource
  <2>2. branch' \in [Txns -> [Resources -> Branches]]
    <3>1. \E b \in Branches : branch' = [branch EXCEPT ![t][r] = b]
      BY <1>4, <2>1 DEF CommitResource, Branches, TypeOK
    <3>. QED
      BY <2>1, <3>1, BranchType
  <2>3. op' \in [Txns -> Calls]
    BY <1>4, AdvanceType DEF CommitResource
  <2>4. committed' \in [Txns -> SUBSET Resources]
    <3>1. committed \in [Txns -> SUBSET Resources]
      BY DEF TypeOK
    <3>2. committed' = committed \/ committed' = [committed EXCEPT ![t] = @ \cup {r}]
      BY <1>4 DEF CommitResource
    <3>. QED
      BY <2>1, <3>1, <3>2
  <2>. QED
    BY <1>4, <2>2, <2>3, <2>4 DEF CommitResource, TypeOK, mgrVars, envVars, callVars
<1>5. CASE FinishCommit(t)
  <2>1. Completed(t, "committed") \/ Heuristic(t, "heur_commit")
    BY <1>5 DEF FinishCommit
  <2>. QED
    BY <1>5, <2>1, EndType DEF FinishCommit, TypeOK
<1>6. CASE RollbackResource(t)
  <2>. DEFINE r == Turn(t)
  <2>1. r \in Resources
    BY <1>6, TurnType DEF RollbackResource
  <2>2. branch' \in [Txns -> [Resources -> Branches]]
    <3>1. branch[t][r] \in Branches
      BY <2>1 DEF TypeOK
    <3>2. RolledBack(branch[t][r]) \subseteq Branches
      BY <3>1 DEF RolledBack, Permanent, Branches
    <3>3. PICK b \in {branch[t][r]} \cup RolledBack(branch[t][r]) : branch' = [branch EXCEPT ![t][r] = b]
      BY <1>6 DEF RollbackResource
    <3>4. b \in Branches
      BY <3>1, <3>2, <3>3
    <3>. QED
      BY <2>1, <3>3, <3>4, BranchType
  <2>3. op' \in [Txns -> Calls]
    BY <1>6, AdvanceType DEF RollbackResource
  <2>. QED
    BY <1>6, <2>2, <2>3 DEF RollbackResource, TypeOK, mgrVars, envVars, callVars
<1>7. CASE FinishAbort(t)
  <2>1. Completed(t, "aborted") \/ Heuristic(t, "heur_abort")
    BY <1>7 DEF FinishAbort
  <2>. QED
    BY <1>7, <2>1, EndType DEF FinishAbort, TypeOK
<1>. QED
  BY <1>1, <1>2, <1>3, <1>4, <1>5, <1>6, <1>7 DEF Call

\* So does a step of the driving goroutine, ...
LEMMA ClientType ==
  ASSUME TypeOK, NEW t \in Txns, Client(t)
  PROVE  TypeOK'
<1>1. CASE Start(t)
  <2>1. metrics' \in Metrics
    <3>1. metrics \in Metrics /\ metrics' = [metrics EXCEPT !.total = @ + 1]
      BY <1>1 DEF Start, TypeOK
    <3>. QED
      BY <3>1 DEF Metrics
  <2>. QED
    BY <1>1, <2>1 DEF Start, TypeOK, Clients, States, callVars
<1>2. CASE OperationFails(t)
  BY <1>2 DEF OperationFails, TypeOK, Clients, txnVars, mgrVars, callVars
<1>3. ASSUME NEW r \in Resources, Enlist(t, r)
      PROVE  TypeOK'
  <2>1. resources' \in [Txns -> Seq(Resources)]
    <3>1. Append(resources[t], r) \in Seq(Resources)
      BY DEF TypeOK
    <3>. QED
      BY <1>3, <3>1 DEF Enlist, TypeOK
  <2>. QED
    BY <1>3, <2>1 DEF Enlist, TypeOK, mgrVars, envVars, callVars
<1>4. ASSUME NEW r \in Resources, EnlistRefused(t, r)
      PROVE  TypeOK'
  BY <1>4 DEF EnlistRefused, TypeOK, Clients, txnVars, mgrVars, callVars
<1>5. CASE CommitRefused(t)
  BY <1>5, AnswerType DEF CommitRefused, TypeOK, txnVars, mgrVars, callVars
<1>6. CASE CommitTimedOut(t)
  <2>1. op' \in [Txns -> Calls]
    BY <1>6, EnterType DEF CommitTimedOut, Phases, Callers
  <2>. QED
    BY <1>6, <2>1 DEF CommitTimedOut, TypeOK, Clients, mgrVars, callVars
<1>7. CASE CommitReadonly(t)
  <2>1. client' \in [Txns -> Clients] /\ answer' \in [Txns -> Answers]
    BY <1>7, AnswerType DEF CommitReadonly
  <2>. QED
    BY <1>7, <2>1 DEF CommitReadonly, TypeOK, States, mgrVars, callVars
<1>8. CASE BeginCommit(t)
  <2>1. op' \in [Txns -> Calls]
    BY <1>8, EnterType DEF BeginCommit, Phases, Callers
  <2>. QED
    BY <1>8, <2>1 DEF BeginCommit, TypeOK, Clients, mgrVars, callVars
<1>9. CASE ClientAbort(t)
  <2>1. op' \in [Txns -> Calls]
    BY <1>9, EnterType DEF ClientAbort, Phases, Callers
  <2>. QED
    BY <1>9, <2>1 DEF ClientAbort, TypeOK, Clients, mgrVars, callVars
<1>. QED
  BY <1>1, <1>2, <1>3, <1>4, <1>5, <1>6, <1>7, <1>8, <1>9 DEF Client

\* ... of the recovery goroutine or of Stop, ...
LEMMA SweepType ==
  ASSUME TypeOK, NEW s \in Sweepers, Sweep(s)
  PROVE  TypeOK'
<1>1. sweep \in [Sweepers -> Sweeps] /\ registered \in SUBSET Txns
  BY DEF TypeOK
<1>2. CASE Snapshot(s)
  <2>1. [pc |-> "scan", todo |-> registered, cur |-> None] \in Sweeps
    BY <1>1 DEF Sweeps
  <2>2. sweep' \in [Sweepers -> Sweeps]
    BY <1>1, <1>2, <2>1 DEF Snapshot
  <2>. QED
    BY <1>2, <2>2 DEF Snapshot, TypeOK, txnVars, mgrVars, envVars
<1>3. CASE CheckClock(s)
  <2>1. /\ [sweep[s] EXCEPT !.pc = "abort"] \in Sweeps
        /\ [sweep[s] EXCEPT !.pc = "scan", !.cur = None] \in Sweeps
    BY <1>1 DEF Sweeps
  <2>2. sweep' \in [Sweepers -> Sweeps]
    BY <1>1, <1>3, <2>1 DEF CheckClock
  <2>. QED
    BY <1>3, <2>2 DEF CheckClock, TypeOK, txnVars, mgrVars, envVars
<1>4. CASE SweepDone(s)
  <2>1. sweep' \in [Sweepers -> Sweeps]
    BY <1>1, <1>4 DEF SweepDone, Sweeps
  <2>. QED
    BY <1>4, <2>1 DEF SweepDone, TypeOK, txnVars, mgrVars, envVars
<1>5. ASSUME NEW t \in Txns, Inspect(s, t)
      PROVE  TypeOK'
  <2>1. /\ [pc |-> "abort", todo |-> sweep[s].todo \ {t}, cur |-> t] \in Sweeps
        /\ [pc |-> "clock", todo |-> sweep[s].todo \ {t}, cur |-> t] \in Sweeps
        /\ [sweep[s] EXCEPT !.todo = @ \ {t}] \in Sweeps
    BY <1>1 DEF Sweeps
  <2>2. \E w \in Sweeps : sweep' = [sweep EXCEPT ![s] = w]
    <3>1. CASE Unfinished(t)
      BY <1>5, <2>1, <3>1 DEF Inspect
    <3>2. CASE ~Unfinished(t)
      <4>1. sweep' = [sweep EXCEPT ![s] = [sweep[s] EXCEPT !.todo = @ \ {t}]]
        BY <1>5, <3>2 DEF Inspect
      <4>. QED
        BY <2>1, <4>1
    <3>. QED
      BY <3>1, <3>2
  <2>3. sweep' \in [Sweepers -> Sweeps]
    BY <1>1, <2>2
  <2>. QED
    BY <1>5, <2>3 DEF Inspect, TypeOK, txnVars, mgrVars, envVars
<1>6. ASSUME NEW t \in Txns, SweepAbort(s, t)
      PROVE  TypeOK'
  <2>1. sweep' \in [Sweepers -> Sweeps]
    BY <1>1, <1>6 DEF SweepAbort, Sweeps
  <2>2. op' \in [Txns -> Calls]
    BY <1>6, EnterType DEF SweepAbort, Phases, Callers
  <2>. QED
    BY <1>6, <2>1, <2>2 DEF SweepAbort, TypeOK, mgrVars, envVars
<1>. QED
  BY <1>2, <1>3, <1>4, <1>5, <1>6 DEF Sweep

\* ... and the rest: the clock, cleanup, the abort endpoint, the end of recovery.
LEMMA OtherType ==
  ASSUME TypeOK,
         \/ \E t \in Txns : Expire(t) \/ Cleanup(t) \/ ApiLookup(t) \/ ApiAbort(t)
         \/ RecoveryExits
  PROVE  TypeOK'
<1>1. ASSUME NEW t \in Txns, Expire(t) PROVE TypeOK'
  BY <1>1 DEF Expire, TypeOK, txnVars, mgrVars, callVars
<1>2. ASSUME NEW t \in Txns, Cleanup(t) PROVE TypeOK'
  BY <1>2 DEF Cleanup, TypeOK, txnVars, envVars, callVars
<1>3. ASSUME NEW t \in Txns, ApiLookup(t) PROVE TypeOK'
  BY <1>3 DEF ApiLookup, TypeOK, txnVars, mgrVars, envVars
<1>4. ASSUME NEW t \in Txns, ApiAbort(t) PROVE TypeOK'
  <2>1. op' \in [Txns -> Calls]
    BY <1>4, EnterType DEF ApiAbort, Phases, Callers
  <2>. QED
    BY <1>4, <2>1 DEF ApiAbort, TypeOK, mgrVars, envVars
<1>5. CASE RecoveryExits
  <2>1. sweep' \in [Sweepers -> Sweeps]
    <3>1. sweep \in [Sweepers -> Sweeps]
      BY DEF TypeOK
    <3>2. [sweep["recovery"] EXCEPT !.pc = "over"] \in Sweeps
      BY <3>1 DEF Sweepers, Sweeps
    <3>. QED
      BY <1>5, <3>1, <3>2 DEF RecoveryExits
  <2>. QED
    BY <1>5, <2>1 DEF RecoveryExits, TypeOK, txnVars, mgrVars, envVars
<1>. QED
  BY <1>1, <1>2, <1>3, <1>4, <1>5

\* The manager's data stay in their types: whoever calls it, in whatever order.
THEOREM TypeCorrect == Spec => []TypeOK
<1>1. ASSUME TypeOK, [Next]_vars
      PROVE  TypeOK'
  <2>1. CASE Next
    BY <1>1, <2>1, CallType, ClientType, SweepType, OtherType DEF Next
  <2>2. CASE UNCHANGED vars
    BY <1>1, <2>2 DEF TypeOK, vars, txnVars, mgrVars, envVars, callVars
  <2>. QED
    BY <1>1, <2>1, <2>2
<1>. QED
  BY InitType, <1>1, PTL DEF Spec

-------------------------------------------------------------------------------
(***************************************************************************)
(* The inductive invariant.  Which phase a transaction can be in says what *)
(* its state and its votes are; and before its Start nobody knows it.      *)
(***************************************************************************)

\* No branch of t is permanent.
Untouched(t) == \A r \in Resources : branch[t][r] \notin Permanent

\* Somebody holds a reference to t and may call Abort on it.
Known(t) ==
  \/ t \in registered \/ t \in apiWants
  \/ \E s \in Sweepers : t \in sweep[s].todo \/ sweep[s].cur = t

\* Nothing has happened to t and nobody knows it.
Fresh(t) ==
  /\ state[t] = "none" /\ resources[t] = <<>> /\ prepared[t] = {}
  /\ Unlocked(t) /\ Untouched(t) /\ ~Known(t)

\* What holds of t in each phase of a call.
PhaseInv(t) ==
  /\ (Unlocked(t) /\ Active(t)) => Untouched(t) /\ prepared[t] = {}
  /\ op[t].phase = "onephase" =>
       Active(t) /\ Len(resources[t]) = 1
  /\ op[t].phase = "prepare" =>
       /\ Active(t) /\ Untouched(t)
       /\ prepared[t] = {resources[t][i] : i \in {j \in 1..Len(resources[t]) : j < op[t].next}}
  /\ op[t].phase = "commit" =>
       /\ state[t] = "prepared" /\ prepared[t] = Members(t)
       /\ op[t].failed \/ \A i \in 1..Len(resources[t]) :
                            i < op[t].next => branch[t][resources[t][i]] = "committed"

\* The two properties, for one transaction.
Unanimous(t) ==
  (Len(resources[t]) > 1 /\ \E r \in Members(t) : branch[t][r] \in Permanent)
    => Members(t) = prepared[t]
Durable(t) ==
  (state[t] = "committed" /\ op[t].phase # "rollback") => \A r \in Members(t) : branch[t][r] = "committed"

TxnInv(t) ==
  /\ client[t] = "new" => Fresh(t)
  /\ PhaseInv(t)
  /\ Unanimous(t)
  /\ Durable(t)

Inv == \A t \in Txns : TxnInv(t)

LEMMA InitInv == Init => Inv
<1>. SUFFICES ASSUME Init, NEW t \in Txns
              PROVE  TxnInv(t)
  BY DEF Inv
<1>1. Fresh(t)
  BY NoneAssumption DEF Init, Fresh, Known, Unlocked, Idle, Untouched, Permanent, Sweepers
<1>2. PhaseInv(t)
  BY DEF Init, PhaseInv, Unlocked, Active, Idle
<1>3. Unanimous(t) /\ Durable(t)
  BY DEF Init, Unanimous, Durable
<1>. QED
  BY <1>1, <1>2, <1>3 DEF TxnInv

\* What a step leaves alone stays as it was.
LEMMA Frame ==
  ASSUME NEW u \in Txns, TxnInv(u),
         client'[u] = client[u], state'[u] = state[u], resources'[u] = resources[u],
         prepared'[u] = prepared[u], op'[u] = op[u], branch'[u] = branch[u],
         Known(u)' => Known(u)
  PROVE  TxnInv(u)'
<1>1. (client'[u] = "new" => Fresh(u))
  BY DEF TxnInv
<1>2. Fresh(u) => Fresh(u)'
  BY DEF Fresh, Unlocked, Untouched
<1>3. PhaseInv(u)'
  BY DEF TxnInv, PhaseInv, Unlocked, Active, Untouched, Members
<1>4. Unanimous(u)' /\ Durable(u)'
  BY DEF TxnInv, Unanimous, Durable, Members
<1>. QED
  BY <1>1, <1>2, <1>3, <1>4 DEF TxnInv

\* A transaction with a call in progress has been started.
LEMMA Started ==
  ASSUME NEW t \in Txns, TxnInv(t), ~Unlocked(t) \/ state[t] # "none" \/ Known(t)
  PROVE  client[t] # "new"
BY DEF TxnInv, Fresh

\* A return gives nobody a new reference and concerns one transaction only.
LEMMA ReturnFrame ==
  ASSUME TypeOK, NEW t \in Txns, NEW result \in {"ok", "error"}, Return(t, result)
  PROVE  /\ op'[t] = Idle
         /\ client[t] # "new" => client'[t] # "new"
         /\ \A u \in Txns \ {t} : op'[u] = op[u] /\ client'[u] = client[u]
         /\ \A s \in Sweepers : /\ sweep'[s].todo = sweep[s].todo
                                /\ sweep'[s].cur \in {sweep[s].cur, None}
<1>1. /\ op'[t] = Idle
      /\ client[t] # "new" => client'[t] # "new"
      /\ \A u \in Txns \ {t} : op'[u] = op[u] /\ client'[u] = client[u]
  BY DEF TypeOK, Return, Answer
<1>2. ASSUME NEW s \in Sweepers
      PROVE  sweep'[s].todo = sweep[s].todo /\ sweep'[s].cur \in {sweep[s].cur, None}
  <2>1. sweep \in [Sweepers -> Sweeps]
    BY DEF TypeOK
  <2>2. CASE op[t].by \in Sweepers
    <3>1. sweep' = [sweep EXCEPT ![op[t].by] = [sweep[op[t].by] EXCEPT !.pc = "scan", !.cur = None]]
      BY <2>1, <2>2 DEF Return
    <3>2. /\ [sweep[op[t].by] EXCEPT !.pc = "scan", !.cur = None].todo = sweep[op[t].by].todo
          /\ [sweep[op[t].by] EXCEPT !.pc = "scan", !.cur = None].cur = None
      BY <2>1, <2>2 DEF Sweeps
    <3>. QED
      BY <2>1, <2>2, <3>1, <3>2
  <2>3. CASE op[t].by \notin Sweepers
    BY <2>3 DEF Return
  <2>. QED
    BY <2>2, <2>3
<1>. QED
  BY <1>1, <1>2

LEMMA KnownFrame ==
  ASSUME NEW u \in Txns, registered' = registered, apiWants' = apiWants,
         \A s \in Sweepers : /\ sweep'[s].todo = sweep[s].todo
                             /\ sweep'[s].cur \in {sweep[s].cur, None}
  PROVE  Known(u)' => Known(u)
BY NoneAssumption DEF Known

\* A call on t is no concern of the other transactions.
LEMMA CallOthers ==
  ASSUME TypeOK, Inv, NEW t \in Txns, Call(t), NEW u \in Txns \ {t}
  PROVE  TxnInv(u)'
<1>1. /\ state'[u] = state[u] /\ resources'[u] = resources[u]
      /\ prepared'[u] = prepared[u] /\ branch'[u] = branch[u]
  BY DEF TypeOK, Call, OnePhase, PrepareResource, VoteYes, VoteNo, AllPrepared, CommitResource,
         FinishCommit, RollbackResource, FinishAbort, Completed, Heuristic
<1>2. /\ registered' = registered /\ apiWants' = apiWants
  BY DEF Call, OnePhase, PrepareResource, AllPrepared, CommitResource,
         FinishCommit, RollbackResource, FinishAbort, mgrVars, callVars
<1>3. \/ Return(t, "ok") \/ Return(t, "error")
      \/ UNCHANGED <<client, sweep>> /\ \E c : op' = [op EXCEPT ![t] = c]
  BY DEF Call, OnePhase, PrepareResource, VoteYes, VoteNo, AllPrepared, CommitResource,
         FinishCommit, RollbackResource, FinishAbort, Completed, Heuristic, Enter,
         envVars, callVars
<1>4. /\ op'[u] = op[u] /\ client'[u] = client[u]
      /\ \A s \in Sweepers : /\ sweep'[s].todo = sweep[s].todo
                             /\ sweep'[s].cur \in {sweep[s].cur, None}
  BY <1>3, ReturnFrame DEF TypeOK
<1>5. Known(u)' => Known(u)
  BY <1>2, <1>4, KnownFrame
<1>. QED
  BY <1>1, <1>4, <1>5, Frame DEF Inv

\* A transaction with a call in progress stays started.
LEMMA CallStarted ==
  ASSUME TypeOK, Inv, NEW t \in Txns, Call(t)
  PROVE  client'[t] # "new"
<1>1. ~Unlocked(t)
  BY DEF Call, OnePhase, PrepareResource, AllPrepared, CommitResource,
         FinishCommit, RollbackResource, FinishAbort, Unlocked
<1>2. client[t] # "new"
  BY <1>1, Started DEF Inv
<1>3. Return(t, "ok") \/ Return(t, "error") \/ UNCHANGED client
  BY DEF Call, OnePhase, PrepareResource, VoteYes, VoteNo, AllPrepared, CommitResource,
         FinishCommit, RollbackResource, FinishAbort, Completed, Heuristic, Enter,
         envVars, callVars
<1>. QED
  BY <1>2, <1>3, ReturnFrame

LEMMA OnePhaseInv ==
  ASSUME TypeOK, Inv, NEW t \in Txns, OnePhase(t)
  PROVE  PhaseInv(t)' /\ Unanimous(t)' /\ Durable(t)'
<1>. DEFINE r == Turn(t)
<1>0. /\ resources[t] \in Seq(Resources) /\ Len(resources[t]) = 1 /\ Active(t)
      /\ op[t].next = 1
  <2>1. Active(t) /\ Len(resources[t]) = 1
    BY DEF Inv, TxnInv, PhaseInv, OnePhase
  <2>2. resources[t] \in Seq(Resources) /\ op[t].next \in Nat \ {0}
    BY DEF TypeOK, Calls
  <2>. QED
    BY <2>1, <2>2 DEF OnePhase, HasTurn
<1>1. r \in Resources /\ Members(t) = {r}
  BY <1>0 DEF Turn, Members
<1>2. resources' = resources /\ Members(t)' = Members(t)
  BY DEF OnePhase, Members
<1>3. CASE /\ branch'    = [branch EXCEPT ![t][r] = "committed"]
           /\ state'     = [state EXCEPT ![t] = "committed"]
           /\ Return(t, "ok")
  <2>1. op'[t] = Idle /\ state'[t] = "committed" /\ branch'[t][r] = "committed"
    BY <1>1, <1>3, ReturnFrame DEF TypeOK
  <2>2. PhaseInv(t)'
    BY <2>1 DEF PhaseInv, Unlocked, Active, Idle
  <2>3. Unanimous(t)' /\ Durable(t)'
    <3>1. Len(resources'[t]) = 1 /\ Members(t)' = {r}
      BY <1>0, <1>1, <1>2
    <3>. QED
      BY <2>1, <3>1 DEF Unanimous, Durable
  <2>. QED
    BY <2>2, <2>3
<1>4. CASE Enter(t, "rollback", "client", "commit") /\ UNCHANGED state
  <2>1. op'[t].phase = "rollback" /\ state'[t] = "active"
    BY <1>0, <1>4 DEF Enter, TypeOK, Active
  <2>2. PhaseInv(t)'
    BY <2>1 DEF PhaseInv, Unlocked
  <2>3. Unanimous(t)' /\ Durable(t)'
    <3>1. Len(resources'[t]) = 1
      BY <1>0, <1>2
    <3>. QED
      BY <2>1, <3>1 DEF Unanimous, Durable
  <2>. QED
    BY <2>2, <2>3
<1>. QED
  BY <1>3, <1>4 DEF OnePhase

LEMMA PrepareInv ==
  ASSUME TypeOK, Inv, NEW t \in Txns, PrepareResource(t)
  PROVE  PhaseInv(t)' /\ Unanimous(t)' /\ Durable(t)'
<1>. DEFINE r == Turn(t)
            n == op[t].next
<1>0. /\ Active(t) /\ Untouched(t) /\ r \in Resources
      /\ prepared[t] = {resources[t][i] : i \in {j \in 1..Len(resources[t]) : j < n}}
  BY TurnType DEF Inv, TxnInv, PhaseInv, PrepareResource
<1>1. /\ n \in Nat \ {0} /\ Len(resources[t]) \in Nat /\ n <= Len(resources[t])
  BY DEF PrepareResource, HasTurn, TypeOK, Calls
<1>2. /\ resources' = resources /\ state' = state
  BY DEF PrepareResource
<1>3. Untouched(t)'
  BY <1>0 DEF PrepareResource, VoteYes, VoteNo, Untouched, Permanent, TypeOK
<1>4. Unanimous(t)' /\ Durable(t)'
  <2>1. \A q \in Members(t)' : branch'[t][q] \notin Permanent
    BY <1>2, <1>3 DEF Members, Untouched, TypeOK
  <2>2. state'[t] # "committed"
    BY <1>0, <1>2 DEF Active
  <2>. QED
    BY <2>1, <2>2 DEF Unanimous, Durable
<1>5. CASE VoteYes(t, r)
  <2>1. op'[t].phase = "prepare" /\ op'[t].next = n + 1
    BY <1>5 DEF VoteYes, PrepareResource, TypeOK, Calls
  <2>2. prepared'[t] = prepared[t] \cup {resources[t][n]}
    BY <1>5 DEF VoteYes, Turn, TypeOK
  <2>3. {j \in 1..Len(resources[t]) : j < n + 1} = {j \in 1..Len(resources[t]) : j < n} \cup {n}
    BY <1>1
  <2>4. prepared'[t] = {resources[t][i] : i \in {j \in 1..Len(resources[t]) : j < n + 1}}
    BY <1>0, <2>2, <2>3
  <2>5. PhaseInv(t)'
    BY <1>0, <1>2, <1>3, <2>1, <2>4 DEF PhaseInv, Active, Unlocked
  <2>. QED
    BY <1>4, <2>5
<1>6. CASE VoteNo(t, r)
  <2>1. op'[t].phase = "rollback"
    BY <1>6 DEF VoteNo, Enter, TypeOK
  <2>2. PhaseInv(t)'
    BY <2>1 DEF PhaseInv, Unlocked
  <2>. QED
    BY <1>4, <2>2
<1>. QED
  BY <1>5, <1>6 DEF PrepareResource

LEMMA AllPreparedInv ==
  ASSUME TypeOK, Inv, NEW t \in Txns, AllPrepared(t)
  PROVE  PhaseInv(t)' /\ Unanimous(t)' /\ Durable(t)'
<1>. DEFINE n == op[t].next
<1>1. /\ n \in Nat \ {0} /\ Len(resources[t]) \in Nat /\ ~(n <= Len(resources[t]))
      /\ prepared[t] = {resources[t][i] : i \in {j \in 1..Len(resources[t]) : j < n}}
  BY DEF AllPrepared, HasTurn, TypeOK, Calls, Inv, TxnInv, PhaseInv
<1>2. {j \in 1..Len(resources[t]) : j < n} = 1..Len(resources[t])
  BY <1>1
<1>3. prepared[t] = Members(t)
  BY <1>1, <1>2 DEF Members
<1>4. /\ op'[t].phase = "commit" /\ op'[t].next = 1 /\ state'[t] = "prepared"
      /\ resources' = resources /\ prepared' = prepared /\ branch' = branch
  BY DEF AllPrepared, Enter, TypeOK
<1>5. PhaseInv(t)'
  BY <1>1, <1>3, <1>4 DEF PhaseInv, Unlocked, Members
<1>6. Unanimous(t)' /\ Durable(t)'
  BY <1>3, <1>4 DEF Unanimous, Durable, Members
<1>. QED
  BY <1>5, <1>6

LEMMA CommitResourceInv ==
  ASSUME TypeOK, Inv, NEW t \in Txns, CommitResource(t)
  PROVE  PhaseInv(t)' /\ Unanimous(t)' /\ Durable(t)'
<1>. DEFINE r == Turn(t)
            n == op[t].next
<1>1. /\ op[t].phase = "commit" /\ r \in Resources /\ r = resources[t][n] /\ n \in Nat \ {0}
      /\ state[t] = "prepared" /\ prepared[t] = Members(t)
      /\ op[t].failed \/ \A i \in 1..Len(resources[t]) :
                           i < n => branch[t][resources[t][i]] = "committed"
  BY TurnType DEF CommitResource, Turn, TypeOK, Calls, Inv, TxnInv, PhaseInv
<1>2. /\ state' = state /\ resources' = resources /\ prepared' = prepared
      /\ Members(t)' = Members(t)
  BY DEF CommitResource, Members
<1>3. \A q \in Resources : branch[t][q] = "committed" => branch'[t][q] = "committed"
  BY <1>1 DEF CommitResource, TypeOK
<1>4. /\ op'[t].phase = "commit" /\ op'[t].next = n + 1
      /\ op'[t].failed \/ (op'[t].failed = op[t].failed /\ branch'[t][r] = "committed")
  <2>1. CASE /\ branch' = [branch EXCEPT ![t][r] = "committed"]
             /\ op'     = [op EXCEPT ![t].next = @ + 1]
    BY <1>1, <2>1 DEF TypeOK, Calls
  <2>2. CASE op' = [op EXCEPT ![t].next = @ + 1, ![t].failed = TRUE]
    BY <1>1, <2>2 DEF TypeOK, Calls
  <2>. QED
    BY <2>1, <2>2 DEF CommitResource
<1>5. op'[t].failed \/ \A i \in 1..Len(resources[t]) :
                         i < n + 1 => branch'[t][resources[t][i]] = "committed"
  <2>. SUFFICES ASSUME ~op'[t].failed, NEW i \in 1..Len(resources[t]), i < n + 1
                PROVE  branch'[t][resources[t][i]] = "committed"
    OBVIOUS
  <2>1. CASE i = n
    BY <1>1, <1>4, <2>1
  <2>2. CASE i < n
    <3>1. branch[t][resources[t][i]] = "committed" /\ resources[t][i] \in Resources
      BY <1>1, <1>4, <2>2 DEF TypeOK
    <3>. QED
      BY <1>3, <3>1
  <2>. QED
    BY <1>1, <2>1, <2>2
<1>6. PhaseInv(t)'
  BY <1>1, <1>2, <1>4, <1>5 DEF PhaseInv, Unlocked
<1>7. Unanimous(t)'
  BY <1>1, <1>2 DEF Unanimous
<1>8. Durable(t)'
  BY <1>1, <1>2 DEF Durable
<1>. QED
  BY <1>6, <1>7, <1>8

LEMMA FinishCommitInv ==
  ASSUME TypeOK, Inv, NEW t \in Txns, FinishCommit(t)
  PROVE  PhaseInv(t)' /\ Unanimous(t)' /\ Durable(t)'
<1>1. /\ op[t].phase = "commit" /\ prepared[t] = Members(t) /\ ~HasTurn(t)
      /\ op[t].failed \/ \A i \in 1..Len(resources[t]) :
                           i < op[t].next => branch[t][resources[t][i]] = "committed"
  BY DEF FinishCommit, Inv, TxnInv, PhaseInv
<1>2. /\ resources' = resources /\ prepared' = prepared /\ branch' = branch
      /\ Members(t)' = Members(t)
  BY DEF FinishCommit, Members
<1>3. op'[t] = Idle /\ state'[t] \in {"committed", "heur_commit"}
      /\ (state'[t] = "committed" => ~op[t].failed)
  BY ReturnFrame DEF FinishCommit, Completed, Heuristic, TypeOK
<1>4. PhaseInv(t)'
  BY <1>3 DEF PhaseInv, Unlocked, Active, Idle
<1>5. Unanimous(t)'
  BY <1>1, <1>2 DEF Unanimous
<1>6. Durable(t)'
  <2>. SUFFICES ASSUME state'[t] = "committed"
                PROVE  \A q \in Members(t) : branch[t][q] = "committed"
    BY <1>2 DEF Durable
  <2>1. op[t].next \in Nat /\ Len(resources[t]) \in Nat
    BY DEF TypeOK, Calls
  <2>. QED
    BY <1>1, <1>3, <2>1 DEF Members, HasTurn
<1>. QED
  BY <1>4, <1>5, <1>6

\* A rollback makes nothing permanent, and what was permanent stays so, perhaps
\* undone.
LEMMA RollbackEffect ==
  ASSUME TypeOK, NEW t \in Txns, RollbackResource(t)
  PROVE  /\ Turn(t) \in Resources /\ branch[t][Turn(t)] \in Branches
         /\ \E b \in {branch[t][Turn(t)]} \cup RolledBack(branch[t][Turn(t)]) :
              branch' = [branch EXCEPT ![t][Turn(t)] = b]
         /\ \A q \in Resources : branch'[t][q] \in Permanent <=> branch[t][q] \in Permanent
<1>. DEFINE r == Turn(t)
<1>1. r \in Resources /\ branch[t][r] \in Branches
  BY TurnType DEF RollbackResource, TypeOK
<1>2. PICK b \in {branch[t][r]} \cup RolledBack(branch[t][r]) :
        branch' = [branch EXCEPT ![t][r] = b]
  BY DEF RollbackResource
<1>3. b \in Permanent <=> branch[t][r] \in Permanent
  BY <1>1 DEF RolledBack, Permanent, Branches
<1>4. \A q \in Resources : branch'[t][q] = IF q = r THEN b ELSE branch[t][q]
  BY <1>1, <1>2 DEF TypeOK
<1>. QED
  BY <1>1, <1>2, <1>3, <1>4

LEMMA RollbackResourceInv ==
  ASSUME TypeOK, Inv, NEW t \in Txns, RollbackResource(t)
  PROVE  PhaseInv(t)' /\ Unanimous(t)' /\ Durable(t)'
<1>1. op'[t].phase = "rollback"
  BY DEF RollbackResource, TypeOK, Calls
<1>2. /\ state' = state /\ resources' = resources /\ prepared' = prepared
      /\ Members(t)' = Members(t) /\ Members(t) \in SUBSET Resources
  BY DEF RollbackResource, Members, TypeOK
<1>3. \A q \in Resources : branch'[t][q] \in Permanent <=> branch[t][q] \in Permanent
  BY RollbackEffect
<1>4. PhaseInv(t)'
  BY <1>1 DEF PhaseInv, Unlocked
<1>5. Unanimous(t)' /\ Durable(t)'
  BY <1>1, <1>2, <1>3 DEF Unanimous, Durable, Inv, TxnInv
<1>. QED
  BY <1>4, <1>5

LEMMA FinishAbortInv ==
  ASSUME TypeOK, Inv, NEW t \in Txns, FinishAbort(t)
  PROVE  PhaseInv(t)' /\ Unanimous(t)' /\ Durable(t)'
<1>1. op'[t] = Idle /\ state'[t] \in {"aborted", "heur_abort"}
  BY ReturnFrame DEF FinishAbort, Completed, Heuristic, TypeOK
<1>2. PhaseInv(t)' /\ Durable(t)'
  BY <1>1 DEF PhaseInv, Durable, Unlocked, Active, Idle
<1>3. Unanimous(t)'
  BY DEF FinishAbort, Inv, TxnInv, Unanimous, Members
<1>. QED
  BY <1>2, <1>3

\* Every step of a call preserves the invariant.
LEMMA CallInv ==
  ASSUME TypeOK, Inv, NEW t \in Txns, Call(t)
  PROVE  Inv'
<1>1. PhaseInv(t)' /\ Unanimous(t)' /\ Durable(t)'
  BY OnePhaseInv, PrepareInv, AllPreparedInv, CommitResourceInv, FinishCommitInv,
     RollbackResourceInv, FinishAbortInv DEF Call
<1>2. TxnInv(t)'
  BY <1>1, CallStarted DEF TxnInv
<1>. QED
  BY <1>2, CallOthers DEF Inv

\* Every step of the driving goroutine preserves it.
LEMMA ClientInv ==
  ASSUME TypeOK, Inv, NEW t \in Txns, Client(t)
  PROVE  Inv'
<1>. SUFFICES ASSUME NEW u \in Txns
              PROVE  TxnInv(u)'
  BY DEF Inv
<1>1. TxnInv(t) /\ TxnInv(u)
  BY DEF Inv
<1>2. CASE Start(t)
  <2>1. Fresh(t)
    BY <1>1, <1>2 DEF Start, TxnInv
  <2>2. CASE u = t
    <3>1. client'[t] = "open" /\ state'[t] = "active"
      BY <1>2 DEF Start, TypeOK
    <3>2. PhaseInv(t)'
      BY <2>1, <3>1, <1>2 DEF Start, Fresh, PhaseInv, Unlocked, Untouched
    <3>3. Unanimous(t)' /\ Durable(t)'
      BY <2>1, <3>1, <1>2 DEF Start, Fresh, Unanimous, Durable
    <3>. QED
      BY <2>2, <3>1, <3>2, <3>3 DEF TxnInv
  <2>3. CASE u # t
    <3>1. Known(u)' => Known(u)
      BY <1>2, <2>3 DEF Start, TypeOK, Known, callVars
    <3>2. client'[u] = client[u] /\ state'[u] = state[u]
      BY <1>2, <2>3 DEF Start, TypeOK
    <3>. QED
      BY <1>1, <1>2, <3>1, <3>2, Frame DEF Start
  <2>. QED
    BY <2>2, <2>3
<1>3. CASE OperationFails(t) \/ CommitRefused(t) \/ \E r \in Resources : EnlistRefused(t, r)
  <2>1. /\ UNCHANGED <<state, resources, prepared, op, branch, registered, apiWants, sweep>>
        /\ client'[t] # "new" /\ (u # t => client'[u] = client[u])
    BY <1>3 DEF OperationFails, CommitRefused, EnlistRefused, Answer, TypeOK,
                txnVars, mgrVars, callVars
  <2>2. Known(u)' => Known(u)
    BY <2>1 DEF Known
  <2>3. CASE u = t
    BY <1>1, <2>1, <2>3 DEF TxnInv, PhaseInv, Unanimous, Durable, Unlocked, Active, Untouched, Members
  <2>4. CASE u # t
    BY <1>1, <2>1, <2>2, <2>4, Frame
  <2>. QED
    BY <2>3, <2>4
<1>4. ASSUME NEW r \in Resources, Enlist(t, r)
      PROVE  TxnInv(u)'
  <2>1. /\ UNCHANGED <<client, state, prepared, op, branch, registered, apiWants, sweep>>
        /\ (u # t => resources'[u] = resources[u])
    BY <1>4 DEF Enlist, TypeOK, mgrVars, envVars, callVars
  <2>2. Known(u)' => Known(u)
    BY <2>1 DEF Known
  <2>3. CASE u = t
    <3>1. Unlocked(t) /\ Active(t) /\ Untouched(t) /\ client[t] # "new"
      BY <1>1, <1>4 DEF Enlist, Open, TxnInv, PhaseInv
    <3>2. Members(t)' \in SUBSET Resources
      <4>1. resources'[t] \in Seq(Resources)
        BY <1>4 DEF Enlist, TypeOK
      <4>. QED
        BY <4>1 DEF Members
    <3>3. PhaseInv(t)'
      BY <1>1, <2>1, <3>1 DEF TxnInv, PhaseInv, Unlocked, Active, Untouched
    <3>4. Unanimous(t)'
      BY <2>1, <3>1, <3>2 DEF Unanimous, Untouched
    <3>5. Durable(t)'
      BY <2>1, <3>1 DEF Durable, Active
    <3>. QED
      BY <2>1, <2>3, <3>1, <3>3, <3>4, <3>5 DEF TxnInv
  <2>4. CASE u # t
    BY <1>1, <2>1, <2>2, <2>4, Frame
  <2>. QED
    BY <2>3, <2>4
<1>5. CASE CommitReadonly(t)
  <2>1. /\ UNCHANGED <<resources, prepared, op, branch, registered, apiWants, sweep>>
        /\ client'[t] = "done" /\ state'[t] = "committed" /\ resources[t] = <<>>
        /\ Unlocked(t)
        /\ (u # t => client'[u] = client[u] /\ state'[u] = state[u])
    BY <1>5 DEF CommitReadonly, Open, Answer, TypeOK, mgrVars, callVars
  <2>2. Known(u)' => Known(u)
    BY <2>1 DEF Known
  <2>3. CASE u = t
    <3>1. PhaseInv(t)'
      BY <2>1 DEF PhaseInv, Unlocked, Active
    <3>2. Unanimous(t)' /\ Durable(t)'
      BY <2>1 DEF Unanimous, Durable, Members
    <3>. QED
      BY <2>1, <2>3, <3>1, <3>2 DEF TxnInv
  <2>4. CASE u # t
    BY <1>1, <2>1, <2>2, <2>4, Frame
  <2>. QED
    BY <2>3, <2>4
<1>6. CASE BeginCommit(t)
  <2>1. /\ UNCHANGED <<state, resources, prepared, branch, registered, apiWants, sweep>>
        /\ client'[t] = "calling" /\ op'[t].next = 1
        /\ op'[t].phase = (IF Len(resources[t]) = 1 THEN "onephase" ELSE "prepare")
        /\ Unlocked(t) /\ Active(t)
        /\ (u # t => client'[u] = client[u] /\ op'[u] = op[u])
    BY <1>6 DEF BeginCommit, Open, Enter, TypeOK, mgrVars, callVars
  <2>2. Known(u)' => Known(u)
    BY <2>1 DEF Known
  <2>3. CASE u = t
    <3>1. Untouched(t) /\ prepared[t] = {}
      BY <1>1, <2>1 DEF TxnInv, PhaseInv
    <3>2. {resources[t][i] : i \in {j \in 1..Len(resources[t]) : j < 1}} = {}
      BY DEF TypeOK
    <3>3. PhaseInv(t)'
      BY <2>1, <3>1, <3>2 DEF PhaseInv, Unlocked, Active, Untouched
    <3>4. Unanimous(t)' /\ Durable(t)'
      BY <1>1, <2>1 DEF TxnInv, Unanimous, Durable, Members, Active
    <3>. QED
      BY <2>1, <2>3, <3>3, <3>4 DEF TxnInv
  <2>4. CASE u # t
    BY <1>1, <2>1, <2>2, <2>4, Frame
  <2>. QED
    BY <2>3, <2>4
<1>7. CASE CommitTimedOut(t) \/ ClientAbort(t)
  <2>1. /\ UNCHANGED <<state, resources, prepared, branch, registered, apiWants, sweep>>
        /\ client'[t] = "calling" /\ op'[t].phase = "rollback"
        /\ (u # t => client'[u] = client[u] /\ op'[u] = op[u])
    BY <1>7 DEF CommitTimedOut, ClientAbort, Enter, TypeOK, mgrVars, callVars
  <2>2. Known(u)' => Known(u)
    BY <2>1 DEF Known
  <2>3. CASE u = t
    BY <1>1, <2>1, <2>3 DEF TxnInv, PhaseInv, Unlocked, Unanimous, Durable, Members
  <2>4. CASE u # t
    BY <1>1, <2>1, <2>2, <2>4, Frame
  <2>. QED
    BY <2>3, <2>4
<1>. QED
  BY <1>2, <1>3, <1>4, <1>5, <1>6, <1>7 DEF Client

\* An abort that begins for a known transaction preserves it, ...
LEMMA AbortBegins ==
  ASSUME TypeOK, NEW t \in Txns, TxnInv(t), Known(t),
         op'[t].phase = "rollback", client'[t] = client[t], state'[t] = state[t],
         resources'[t] = resources[t], prepared'[t] = prepared[t], branch'[t] = branch[t]
  PROVE  TxnInv(t)'
<1>1. client[t] # "new"
  BY Started
<1>. QED
  BY <1>1 DEF TxnInv, PhaseInv, Unlocked, Unanimous, Durable, Members

\* ... and so does every step of recovery, Stop, the endpoint and the clock.
LEMMA OtherInv ==
  ASSUME TypeOK, Inv,
         \/ \E t \in Txns : Expire(t) \/ Cleanup(t) \/ ApiLookup(t) \/ ApiAbort(t)
         \/ \E s \in Sweepers : Sweep(s)
         \/ RecoveryExits
  PROVE  Inv'
<1>. SUFFICES ASSUME NEW u \in Txns
              PROVE  TxnInv(u)'
  BY DEF Inv
<1>0. TxnInv(u)
  BY DEF Inv
<1>1. UNCHANGED <<client, state, resources, prepared, branch>>
  BY DEF Expire, Cleanup, ApiLookup, ApiAbort, Sweep, Snapshot, CheckClock, SweepDone,
         Inspect, SweepAbort, RecoveryExits, txnVars, mgrVars, envVars, callVars
<1>2. ASSUME NEW s \in Sweepers, NEW t \in Txns, SweepAbort(s, t)
      PROVE  TxnInv(u)'
  <2>1. /\ UNCHANGED <<registered, apiWants>>
        /\ op'[t].phase = "rollback" /\ (u # t => op'[u] = op[u])
        /\ Known(t)
    BY <1>2 DEF SweepAbort, Enter, TypeOK, Known, mgrVars
  <2>2. Known(u)' => Known(u)
    <3>1. \A z \in Sweepers : sweep'[z].todo = sweep[z].todo /\ sweep'[z].cur = sweep[z].cur
      BY <1>2 DEF SweepAbort, TypeOK, Sweeps
    <3>. QED
      BY <2>1, <3>1 DEF Known
  <2>. QED
    BY <1>0, <1>1, <2>1, <2>2, Frame, AbortBegins
<1>3. ASSUME NEW t \in Txns, ApiAbort(t)
      PROVE  TxnInv(u)'
  <2>1. /\ op'[t].phase = "rollback" /\ (u # t => op'[u] = op[u])
        /\ Known(t) /\ (Known(u)' => Known(u))
    BY <1>3 DEF ApiAbort, Enter, TypeOK, Known, mgrVars
  <2>. QED
    BY <1>0, <1>1, <2>1, Frame, AbortBegins
<1>4. ASSUME UNCHANGED op, Known(u)' => Known(u)
      PROVE  TxnInv(u)'
  BY <1>0, <1>1, <1>4, Frame
<1>5. CASE \E t \in Txns : Expire(t) \/ Cleanup(t) \/ ApiLookup(t)
  BY <1>4, <1>5 DEF Expire, Cleanup, ApiLookup, Known, txnVars, mgrVars, envVars, callVars
<1>6. ASSUME NEW s \in Sweepers, Snapshot(s) \/ CheckClock(s) \/ SweepDone(s)
      PROVE  TxnInv(u)'
  <2>1. UNCHANGED <<op, registered, apiWants>>
    BY <1>6 DEF Snapshot, CheckClock, SweepDone, txnVars, mgrVars
  <2>2. \A z \in Sweepers : /\ sweep'[z].todo \in {sweep[z].todo, registered}
                            /\ sweep'[z].cur \in {sweep[z].cur, None}
    <3>0. sweep \in [Sweepers -> Sweeps]
      BY DEF TypeOK
    <3>1. CASE Snapshot(s)
      BY <3>0, <3>1 DEF Snapshot, Sweeps
    <3>2. CASE CheckClock(s)
      <4>1. \/ sweep' = [sweep EXCEPT ![s] = [sweep[s] EXCEPT !.pc = "abort"]]
            \/ sweep' = [sweep EXCEPT ![s] = [sweep[s] EXCEPT !.pc = "scan", !.cur = None]]
        BY <3>2 DEF CheckClock
      <4>2. /\ [sweep[s] EXCEPT !.pc = "abort"].todo = sweep[s].todo
            /\ [sweep[s] EXCEPT !.pc = "abort"].cur = sweep[s].cur
            /\ [sweep[s] EXCEPT !.pc = "scan", !.cur = None].todo = sweep[s].todo
            /\ [sweep[s] EXCEPT !.pc = "scan", !.cur = None].cur = None
        BY <3>0 DEF Sweeps
      <4>. QED
        BY <3>0, <4>1, <4>2
    <3>3. CASE SweepDone(s)
      BY <3>0, <3>3 DEF SweepDone, Sweeps
    <3>. QED
      BY <1>6, <3>1, <3>2, <3>3
  <2>. QED
    BY <1>4, <2>1, <2>2, NoneAssumption DEF Known
<1>7. ASSUME NEW s \in Sweepers, NEW t \in Txns, Inspect(s, t)
      PROVE  TxnInv(u)'
  <2>1. UNCHANGED <<op, registered, apiWants>> /\ t \in sweep[s].todo
    BY <1>7 DEF Inspect, txnVars, mgrVars
  <2>2. \A z \in Sweepers : /\ sweep'[z].todo \in SUBSET sweep[z].todo
                            /\ sweep'[z].cur = sweep[z].cur \/ (z = s /\ sweep'[z].cur = t)
    <3>1. CASE Unfinished(t)
      BY <1>7, <3>1 DEF Inspect, TypeOK, Sweeps
    <3>2. CASE ~Unfinished(t)
      <4>1. sweep' = [sweep EXCEPT ![s] = [sweep[s] EXCEPT !.todo = @ \ {t}]]
        BY <1>7, <3>2 DEF Inspect
      <4>. QED
        BY <4>1 DEF TypeOK, Sweeps
    <3>. QED
      BY <3>1, <3>2
  <2>. QED
    BY <1>4, <2>1, <2>2 DEF Known
<1>8. CASE RecoveryExits
  <2>1. \A z \in Sweepers : sweep'[z].todo = sweep[z].todo /\ sweep'[z].cur = sweep[z].cur
    BY <1>8 DEF RecoveryExits, TypeOK, Sweeps
  <2>. QED
    BY <1>4, <1>8, <2>1 DEF RecoveryExits, Known, txnVars, mgrVars
<1>. QED
  BY <1>2, <1>3, <1>5, <1>6, <1>7, <1>8 DEF Sweep

LEMMA NextInv ==
  ASSUME TypeOK, Inv, [Next]_vars
  PROVE  Inv'
<1>1. CASE Next
  BY <1>1, CallInv, ClientInv, OtherInv DEF Next
<1>2. CASE UNCHANGED vars
  <2>1. ASSUME NEW u \in Txns PROVE TxnInv(u)'
    BY <1>2, <2>1, Frame DEF Inv, Known, vars, txnVars, mgrVars, envVars, callVars
  <2>. QED
    BY <2>1 DEF Inv
<1>. QED
  BY <1>1, <1>2

\* The inductive invariant: what an untouched transaction looks like, what each
\* phase of a call has established so far (prepare's loop, commit's loop), and
\* the two properties themselves, whoever calls the manager in between.
THEOREM Invariance == Spec => []Inv
BY InitInv, NextInv, TypeCorrect, PTL DEF Spec

-------------------------------------------------------------------------------
\* With two resources or more, no branch is made permanent before every
\* enlisted resource has voted yes: prepare stops at the first refusal, and
\* Enlist refuses a transaction that is no longer ACTIVE.
THEOREM VotesAreUnanimous == Spec => []UnanimousVote
<1>1. Inv => UnanimousVote
  BY DEF Inv, TxnInv, Unanimous, UnanimousVote
<1>. QED
  BY <1>1, Invariance, PTL

\* COMMITTED is set only when every call of the commit loop succeeded, and
\* an abort that got txn.mu later and undoes branches takes the state with it.
THEOREM CommitIsDurable == Spec => []CommittedIsDurable
<1>1. Inv => CommittedIsDurable
  BY DEF Inv, TxnInv, Durable, CommittedIsDurable
<1>. QED
  BY <1>1, Invariance, PTL

\* After ABORTED or HEUR_ABORT, whoever calls the manager, no branch becomes
\* permanent and the outcome stays an abort.
THEOREM AbortsAreFinal == Spec => AbortIsFinal
<1>. DEFINE Final(t) == state[t] \in {"aborted", "heur_abort"} =>
              /\ state'[t] \in {"aborted", "heur_abort"}
              /\ \A r \in Resources : branch'[t][r] \in Permanent => branch[t][r] \in Permanent
<1>1. ASSUME TypeOK, Inv, Next, NEW u \in Txns, state[u] \in {"aborted", "heur_abort"}
      PROVE  Final(u)
  <2>1. /\ op[u].phase \notin {"onephase", "prepare", "commit"}
        /\ client[u] # "new" /\ ~Active(u)
    BY <1>1 DEF Inv, TxnInv, PhaseInv, Fresh, Active
  <2>2. ASSUME NEW t \in Txns, Call(t)
        PROVE  Final(u)
    <3>1. CASE t # u
      BY <1>1, <2>2, <3>1 DEF TypeOK, Call, OnePhase, PrepareResource, VoteYes, VoteNo,
         AllPrepared, CommitResource, FinishCommit, RollbackResource, FinishAbort,
         Completed, Heuristic
    <3>2. CASE t = u
      <4>1. RollbackResource(u) \/ FinishAbort(u)
        BY <2>1, <2>2, <3>2 DEF Call, OnePhase, PrepareResource, AllPrepared,
           CommitResource, FinishCommit
      <4>. QED
        BY <1>1, <4>1, RollbackEffect DEF RollbackResource, FinishAbort, Completed, Heuristic, TypeOK
    <3>. QED
      BY <3>1, <3>2
  <2>3. ASSUME NEW t \in Txns, Client(t)
        PROVE  Final(u)
    BY <1>1, <2>1, <2>3 DEF TypeOK, Client, Start, OperationFails, Enlist, EnlistRefused,
       CommitRefused, CommitTimedOut, CommitReadonly, BeginCommit, ClientAbort, Active, Open, txnVars
  <2>4. CASE UNCHANGED <<state, branch>>
    BY <1>1, <2>4
  <2>. QED
    BY <1>1, <2>2, <2>3, <2>4 DEF Next, Expire, Cleanup, ApiLookup, ApiAbort, Sweep, Snapshot,
       CheckClock, SweepDone, Inspect, SweepAbort, RecoveryExits, txnVars
<1>2. ASSUME TypeOK, Inv, [Next]_vars
      PROVE  [\A t \in Txns : Final(t)]_vars
  BY <1>1, <1>2
<1>3. [][\A t \in Txns : Final(t)]_vars => AbortIsFinal
  BY DEF AbortIsFinal
<1>. QED
  BY <1>2, <1>3, TypeCorrect, Invariance, PTL DEF Spec
-------------------------------------------------------------------------------
(***************************************************************************)
(* Heuristic outcomes are counted.  A transaction is left with a permanent *)
(* branch and one that is not only by a commit loop in which a call        *)
(* failed, and FinishCommit counts it before it lets go of txn.mu.  An     *)
(* abort that comes later finds it split and leaves it split, so that the  *)
(* invariant has to speak of every phase but that of the commit loop.      *)
(***************************************************************************)
Split(t) == \E r, q \in Members(t) : branch[t][r] \in Permanent /\ branch[t][q] \notin Permanent
ToCount  == {t \in Txns : op[t].phase # "commit" /\ Split(t)}
Counted  == IsFiniteSet(ToCount) /\ Cardinality(ToCount) <= metrics.heuristic

\* A step that adds no transaction to those that are split, or one with its count.
LEMMA CountStep ==
  ASSUME Counted, metrics.heuristic \in Nat, metrics'.heuristic \in Nat, NEW t,
         \/ ToCount' \subseteq ToCount /\ metrics'.heuristic >= metrics.heuristic
         \/ ToCount' \subseteq ToCount \cup {t} /\ metrics'.heuristic = metrics.heuristic + 1
  PROVE  Counted'
<1>1. Cardinality(ToCount) \in Nat
  BY FS_CardinalityType DEF Counted
<1>2. CASE ToCount' \subseteq ToCount /\ metrics'.heuristic >= metrics.heuristic
  <2>1. IsFiniteSet(ToCount') /\ Cardinality(ToCount') <= Cardinality(ToCount)
    BY <1>2, FS_Subset DEF Counted
  <2>2. Cardinality(ToCount') \in Nat
    BY <2>1, FS_CardinalityType
  <2>. QED
    BY <1>1, <1>2, <2>1, <2>2 DEF Counted
<1>3. CASE ToCount' \subseteq ToCount \cup {t} /\ metrics'.heuristic = metrics.heuristic + 1
  <2>1. /\ IsFiniteSet(ToCount \cup {t})
        /\ Cardinality(ToCount \cup {t}) \in {Cardinality(ToCount), Cardinality(ToCount) + 1}
    BY FS_AddElement DEF Counted
  <2>2. IsFiniteSet(ToCount') /\ Cardinality(ToCount') <= Cardinality(ToCount \cup {t})
    BY <1>3, <2>1, FS_Subset
  <2>3. Cardinality(ToCount') \in Nat
    BY <2>2, FS_CardinalityType
  <2>. QED
    BY <1>1, <1>3, <2>1, <2>2, <2>3 DEF Counted
<1>. QED
  BY <1>2, <1>3

\* A transaction that the step leaves alone, or in which nothing became permanent
\* while its call was not in the commit loop, is split only if it was before.
LEMMA NotNewlySplit ==
  ASSUME NEW u \in Txns, resources'[u] = resources[u],
         \A r \in Members(u) : branch'[u][r] \in Permanent <=> branch[u][r] \in Permanent
  PROVE  Split(u)' => Split(u)
BY DEF Split, Members

LEMMA CountersType ==
  ASSUME TypeOK
  PROVE  metrics.heuristic \in Nat
BY DEF TypeOK, Metrics

\* The others, and the counter, while a call goes on.
LEMMA CallElsewhere ==
  ASSUME TypeOK, NEW t \in Txns, Call(t), NEW u \in Txns \ {t}
  PROVE  u \in ToCount' => u \in ToCount
<1>1. resources'[u] = resources[u] /\ branch'[u] = branch[u]
  BY DEF TypeOK, Call, OnePhase, PrepareResource, VoteYes, VoteNo, AllPrepared, CommitResource,
         FinishCommit, RollbackResource, FinishAbort
<1>2. \/ Return(t, "ok") \/ Return(t, "error") \/ \E c : op' = [op EXCEPT ![t] = c]
  BY DEF Call, OnePhase, PrepareResource, VoteYes, VoteNo, AllPrepared, CommitResource,
         FinishCommit, RollbackResource, FinishAbort, Completed, Heuristic, Enter
<1>3. op'[u] = op[u]
  BY <1>2, ReturnFrame DEF TypeOK
<1>. QED
  BY <1>1, <1>3 DEF ToCount, Split, Members

\* A step of a call: the count keeps up.
LEMMA CallCounts ==
  ASSUME TypeOK, TypeOK', Inv, Counted, NEW t \in Txns, Call(t)
  PROVE  Counted'
<1>1. \A u \in Txns \ {t} : u \in ToCount' => u \in ToCount
  BY CallElsewhere
<1>2. metrics.heuristic \in Nat /\ metrics'.heuristic \in Nat
  BY DEF TypeOK, Metrics
<1>3. /\ op[t] \in Calls /\ metrics \in Metrics /\ TxnInv(t)
      /\ resources[t] \in Seq(Resources) /\ branch[t] \in [Resources -> Branches]
  BY DEF TypeOK, Inv
<1>4. SUFFICES \/ (t \in ToCount' => t \in ToCount) /\ metrics'.heuristic >= metrics.heuristic
               \/ metrics'.heuristic = metrics.heuristic + 1
  <2>1. ToCount' \subseteq Txns
    BY DEF ToCount
  <2>. QED
    BY <1>1, <1>2, <1>4, <2>1, CountStep
<1>5. CASE OnePhase(t)
  <2>1. Len(resources[t]) = 1 /\ resources'[t] = resources[t]
    BY <1>3, <1>5 DEF TxnInv, PhaseInv, OnePhase
  <2>2. Members(t)' = {resources[t][1]}
    BY <1>3, <2>1 DEF Members
  <2>3. ~Split(t)'
    BY <2>2 DEF Split
  <2>4. metrics'.heuristic = metrics.heuristic
    BY <1>3, <1>5 DEF OnePhase, Metrics
  <2>. QED
    BY <1>2, <2>3, <2>4 DEF ToCount
<1>6. CASE PrepareResource(t)
  <2>1. Untouched(t) /\ UNCHANGED <<resources, metrics>>
    BY <1>3, <1>6 DEF TxnInv, PhaseInv, PrepareResource, mgrVars
  <2>2. Untouched(t)'
    BY <1>3, <1>6, <2>1 DEF PrepareResource, VoteYes, VoteNo, Untouched, Permanent, TypeOK
  <2>3. Members(t)' \subseteq Resources
    BY <1>3, <2>1 DEF Members
  <2>4. ~Split(t)'
    BY <2>2, <2>3 DEF Split, Untouched
  <2>. QED
    BY <1>2, <2>1, <2>4 DEF ToCount
<1>7. CASE AllPrepared(t)
  <2>1. op'[t].phase = "commit" /\ UNCHANGED metrics
    BY <1>7 DEF AllPrepared, Enter, TypeOK, mgrVars
  <2>. QED
    BY <1>2, <2>1 DEF ToCount
<1>8. CASE CommitResource(t)
  <2>1. op'[t].phase = "commit" /\ UNCHANGED metrics
    BY <1>3, <1>8 DEF CommitResource, TypeOK, Calls, mgrVars
  <2>. QED
    BY <1>2, <2>1 DEF ToCount
<1>9. CASE FinishCommit(t)
  <2>1. CASE op[t].failed
    BY <1>3, <1>9, <2>1 DEF FinishCommit, Heuristic, Metrics
  <2>2. CASE ~op[t].failed
    <3>1. \A r \in Members(t) : branch[t][r] = "committed"
      BY <1>3, <1>9, <2>2 DEF FinishCommit, HasTurn, Members, Calls, TxnInv, PhaseInv
    <3>2. ~Split(t)'
      BY <1>9, <3>1 DEF FinishCommit, Split, Members, Permanent
    <3>3. metrics'.heuristic = metrics.heuristic
      BY <1>3, <1>9, <2>2 DEF FinishCommit, Completed, Metrics
    <3>. QED
      BY <1>2, <3>2, <3>3 DEF ToCount
  <2>. QED
    BY <2>1, <2>2
<1>10. CASE RollbackResource(t)
  <2>1. op[t].phase = "rollback" /\ UNCHANGED <<resources, metrics>>
    BY <1>10 DEF RollbackResource, mgrVars
  <2>2. \A r \in Resources : branch'[t][r] \in Permanent <=> branch[t][r] \in Permanent
    BY <1>10, RollbackEffect
  <2>3. Members(t) \subseteq Resources
    BY <1>3 DEF Members
  <2>4. Split(t)' => Split(t)
    BY <2>1, <2>2, <2>3, NotNewlySplit
  <2>. QED
    BY <1>2, <2>1, <2>4 DEF ToCount
<1>11. CASE FinishAbort(t)
  <2>1. op[t].phase = "rollback" /\ UNCHANGED <<resources, branch>>
    BY <1>11 DEF FinishAbort
  <2>2. Split(t)' => Split(t)
    BY <2>1, NotNewlySplit
  <2>3. metrics'.heuristic = metrics.heuristic \/ metrics'.heuristic = metrics.heuristic + 1
    BY <1>3, <1>11 DEF FinishAbort, Heuristic, Completed, Metrics
  <2>. QED
    BY <1>2, <2>1, <2>2, <2>3 DEF ToCount
<1>. QED
  BY <1>5, <1>6, <1>7, <1>8, <1>9, <1>10, <1>11 DEF Call

\* Whoever else acts splits no transaction: a resource joins only while nothing is
\* permanent, and a call that begins begins with no branch changed.
LEMMA OtherCounts ==
  ASSUME TypeOK, TypeOK', Inv, Counted, metrics'.heuristic = metrics.heuristic,
         UNCHANGED branch,
         NEW t \in Txns,
         \A u \in Txns : \/ resources'[u] = resources[u]
                         \/ Unlocked(u) /\ Active(u),
         \A u \in Txns : op[u].phase = "commit" => op'[u].phase = "commit"
  PROVE  Counted'
<1>1. ASSUME NEW u \in Txns, u \in ToCount'
      PROVE  u \in ToCount
  <2>1. op[u].phase # "commit" /\ Split(u)'
    BY <1>1 DEF ToCount
  <2>2. CASE resources'[u] = resources[u]
    BY <2>1, <2>2, NotNewlySplit DEF ToCount
  <2>3. CASE Unlocked(u) /\ Active(u)
    <3>1. \A r \in Resources : branch'[u][r] \notin Permanent
      BY <2>3 DEF Inv, TxnInv, PhaseInv, Untouched
    <3>2. Members(u)' \subseteq Resources
      BY DEF Members, TypeOK
    <3>. QED
      BY <2>1, <3>1, <3>2 DEF Split
  <2>. QED
    BY <2>2, <2>3
<1>2. ToCount' \subseteq ToCount
  BY <1>1 DEF ToCount
<1>. QED
  BY <1>2, CountersType, CountStep

LEMMA NextCounts ==
  ASSUME TypeOK, TypeOK', Inv, Counted, Next
  PROVE  Counted'
<1>1. CASE \E t \in Txns : Call(t)
  BY <1>1, CallCounts
<1>2. ASSUME NEW t \in Txns, Client(t)
      PROVE  Counted'
  <2>1. UNCHANGED branch /\ metrics'.heuristic = metrics.heuristic
    BY <1>2 DEF Client, Start, OperationFails, Enlist, EnlistRefused, CommitRefused, CommitTimedOut,
                CommitReadonly, BeginCommit, ClientAbort, txnVars, mgrVars, TypeOK, Metrics
  <2>2. \A u \in Txns : resources'[u] = resources[u] \/ (Unlocked(u) /\ Active(u))
    BY <1>2 DEF Client, Start, OperationFails, Enlist, EnlistRefused, CommitRefused, CommitTimedOut,
                CommitReadonly, BeginCommit, ClientAbort, txnVars, TypeOK, Open
  <2>3. \A u \in Txns : op[u].phase = "commit" => op'[u].phase = "commit"
    BY <1>2 DEF Client, Start, OperationFails, Enlist, EnlistRefused, CommitRefused, CommitTimedOut,
                CommitReadonly, BeginCommit, ClientAbort, txnVars, TypeOK, Open, Unlocked, Enter
  <2>. QED
    BY <2>1, <2>2, <2>3, OtherCounts
<1>3. ASSUME NEW t \in Txns, ApiAbort(t) \/ \E s \in Sweepers : SweepAbort(s, t)
      PROVE  Counted'
  <2>1. UNCHANGED <<branch, resources, metrics>>
    BY <1>3 DEF ApiAbort, SweepAbort, mgrVars
  <2>2. \A u \in Txns : op[u].phase = "commit" => op'[u].phase = "commit"
    BY <1>3 DEF ApiAbort, SweepAbort, TypeOK, Unlocked, Enter
  <2>. QED
    BY <2>1, <2>2, OtherCounts
<1>4. ASSUME UNCHANGED <<branch, resources, op, metrics>>
      PROVE  Counted'
  BY <1>4 DEF Counted, ToCount, Split, Members
<1>5. \/ \E t \in Txns : Call(t)
      \/ \E t \in Txns : Client(t)
      \/ \E t \in Txns : ApiAbort(t) \/ \E s \in Sweepers : SweepAbort(s, t)
      \/ UNCHANGED <<branch, resources, op, metrics>>
  BY DEF Next, Sweep, Expire, Cleanup, ApiLookup, Snapshot, CheckClock, SweepDone, Inspect,
         RecoveryExits, txnVars, mgrVars
<1>. QED
  BY <1>1, <1>2, <1>3, <1>4, <1>5

\* However many transactions there are, those left with one branch permanent and
\* another one not are never more than the heuristic outcomes that the manager has
\* counted (the metrics of commit and abort in xa_manager.go).
THEOREM MixedAreCounted == Spec => []MixedOutcomesAreCounted
<1>1. Init => Counted
  <2>1. Init => ToCount = {}
    BY DEF Init, ToCount, Split, Members
  <2>2. Init => metrics.heuristic = 0
    BY DEF Init
  <2>. QED
    BY <2>1, <2>2, FS_EmptySet DEF Counted
<1>2. ASSUME TypeOK, TypeOK', Inv, Counted, [Next]_vars
      PROVE  Counted'
  <2>1. CASE UNCHANGED vars
    BY <1>2, <2>1 DEF Counted, ToCount, Split, Members, vars, txnVars, mgrVars
  <2>. QED
    BY <1>2, <2>1, NextCounts
<1>3. TypeOK /\ Counted => MixedOutcomesAreCounted
  <2>. DEFINE M == {t \in Txns : /\ Unlocked(t)
                                 /\ \E r, q \in Members(t) : branch[t][r] \in Permanent /\ branch[t][q] \notin Permanent}
  <2>. SUFFICES ASSUME TypeOK, Counted PROVE Cardinality(M) <= metrics.heuristic
    BY DEF MixedOutcomesAreCounted
  <2>1. M \subseteq ToCount
    BY DEF ToCount, Split, Unlocked
  <2>2. IsFiniteSet(M) /\ Cardinality(M) <= Cardinality(ToCount)
    BY <2>1, FS_Subset DEF Counted
  <2>3. Cardinality(M) \in Nat /\ Cardinality(ToCount) \in Nat /\ metrics.heuristic \in Nat
    BY <2>2, FS_CardinalityType, CountersType DEF Counted
  <2>. QED
    BY <2>2, <2>3 DEF Counted
<1>. QED
  BY <1>1, <1>2, <1>3, TypeCorrect, Invariance, PTL DEF Spec

-------------------------------------------------------------------------------
(***************************************************************************)
(* The map of the manager.  A cleanup that is asleep will take its         *)
(* transaction out of the map, so it matters that none sleeps before the   *)
(* transaction has ended: the third conjunct, without which Start could    *)
(* enter one that is about to be removed.                                  *)
(***************************************************************************)
Kept(t) ==
  /\ Unfinished(t) => t \in registered \ cleaning
  /\ Ended(t) => t \in cleaning \/ t \notin registered
  /\ client[t] = "new" => t \notin cleaning

\* What a step means to t: nothing, its start, one more phase, an end with a
\* cleanup, an end without one, or its removal.
StepOf(t) ==
  /\ client'[t] = "new" => client[t] = "new"
  /\ \/ /\ state'[t] = state[t]
        /\ resources'[t] = resources[t] \/ Active(t)
        /\ t \in registered' <=> t \in registered
        /\ t \in cleaning' <=> t \in cleaning
     \/ /\ client[t] = "new" /\ client'[t] # "new" /\ state'[t] = "active"
        /\ t \in registered'
        /\ t \in cleaning' <=> t \in cleaning
     \/ /\ Active(t) /\ state'[t] = "prepared"
        /\ t \in registered' <=> t \in registered
        /\ t \in cleaning' <=> t \in cleaning
     \/ /\ client[t] # "new" /\ state'[t] \in {"committed", "aborted"}
        /\ t \in cleaning'
     \/ /\ state'[t] \in {"heur_commit", "heur_abort", "committed"}
        /\ state'[t] = "committed" => ~(Len(resources'[t]) > 1)
        /\ t \in cleaning' <=> t \in cleaning
     \/ /\ t \in cleaning /\ state'[t] = state[t] /\ resources'[t] = resources[t]
        /\ t \notin registered' /\ t \notin cleaning'

LEMMA StepKeeps ==
  ASSUME NEW t \in Txns, Kept(t), StepOf(t)
  PROVE  Kept(t)'
BY DEF Kept, StepOf, Unfinished, Ended, Active

\* A call on t: it goes on, is prepared, or ends.
LEMMA CallOf ==
  ASSUME TypeOK, Inv, NEW t \in Txns, Call(t)
  PROVE  StepOf(t)
<1>1. client[t] # "new" /\ client'[t] # "new"
  <2>1. ~Unlocked(t)
    BY DEF Call, OnePhase, PrepareResource, AllPrepared, CommitResource,
           FinishCommit, RollbackResource, FinishAbort, Unlocked
  <2>. QED
    BY <2>1, Started, CallStarted DEF Inv
<1>2. registered' = registered /\ resources' = resources /\ PhaseInv(t)
  BY DEF Call, OnePhase, PrepareResource, AllPrepared, CommitResource, FinishCommit,
         RollbackResource, FinishAbort, mgrVars, Inv, TxnInv
<1>3. state \in [Txns -> States]
  BY DEF TypeOK
<1>4. CASE UNCHANGED <<state, cleaning>>
  BY <1>1, <1>2, <1>4 DEF StepOf
<1>5. CASE \E result \in {"committed", "aborted"} : Completed(t, result)
  BY <1>1, <1>3, <1>5 DEF StepOf, Completed
<1>6. CASE \E result \in {"heur_commit", "heur_abort"} : Heuristic(t, result)
  BY <1>1, <1>3, <1>6 DEF StepOf, Heuristic
<1>7. CASE OnePhase(t)
  <2>1. UNCHANGED cleaning /\ Len(resources[t]) = 1
    BY <1>2, <1>7 DEF OnePhase, PhaseInv
  <2>2. state'[t] = "committed" \/ state' = state
    BY <1>3, <1>7 DEF OnePhase
  <2>. QED
    BY <1>1, <1>2, <2>1, <2>2 DEF StepOf
<1>8. CASE AllPrepared(t)
  <2>1. Active(t) /\ state'[t] = "prepared" /\ UNCHANGED cleaning
    BY <1>2, <1>3, <1>8 DEF AllPrepared, PhaseInv, mgrVars
  <2>. QED
    BY <1>1, <1>2, <2>1 DEF StepOf
<1>. QED
  BY <1>4, <1>5, <1>6, <1>7, <1>8 DEF Call, PrepareResource, CommitResource, FinishCommit,
     RollbackResource, FinishAbort, mgrVars

\* A call on another transaction.
LEMMA CallOfAnother ==
  ASSUME TypeOK, NEW t \in Txns, Call(t), NEW u \in Txns \ {t}
  PROVE  StepOf(u)
<1>1. state'[u] = state[u] /\ resources' = resources /\ registered' = registered
  BY DEF TypeOK, Call, OnePhase, PrepareResource, AllPrepared, CommitResource,
         FinishCommit, RollbackResource, FinishAbort, Completed, Heuristic, mgrVars
<1>2. cleaning' \in {cleaning, cleaning \cup {t}}
  BY DEF Call, OnePhase, PrepareResource, AllPrepared, CommitResource,
         FinishCommit, RollbackResource, FinishAbort, Completed, Heuristic, mgrVars
<1>3. Return(t, "ok") \/ Return(t, "error") \/ UNCHANGED client
  BY DEF Call, OnePhase, PrepareResource, VoteYes, VoteNo, AllPrepared, CommitResource,
         FinishCommit, RollbackResource, FinishAbort, Completed, Heuristic, Enter, envVars
<1>4. client'[u] = client[u]
  BY <1>3, ReturnFrame
<1>. QED
  BY <1>1, <1>2, <1>4 DEF StepOf

\* The goroutine that drives t.
LEMMA ClientOf ==
  ASSUME TypeOK, NEW t \in Txns, Client(t), NEW u \in Txns
  PROVE  StepOf(u)
<1>1. /\ client \in [Txns -> Clients] /\ state \in [Txns -> States]
      /\ resources \in [Txns -> Seq(Resources)]
  BY DEF TypeOK
<1>2. UNCHANGED cleaning
  BY DEF Client, Start, OperationFails, Enlist, EnlistRefused, CommitRefused, CommitTimedOut,
         CommitReadonly, BeginCommit, ClientAbort, mgrVars
<1>3. CASE Start(t)
  BY <1>1, <1>2, <1>3 DEF Start, StepOf
<1>4. CASE \E r \in Resources : Enlist(t, r)
  BY <1>1, <1>2, <1>4 DEF Enlist, StepOf, mgrVars, envVars
<1>5. CASE CommitReadonly(t)
  <2>1. /\ client'[u] = "new" => client[u] = "new"
        /\ resources'[u] = resources[u] /\ registered' = registered
        /\ u # t => state'[u] = state[u]
        /\ u = t => state'[u] = "committed" /\ Len(resources'[u]) = 0
    BY <1>1, <1>5 DEF CommitReadonly, Answer, mgrVars
  <2>. QED
    BY <1>2, <2>1 DEF StepOf
<1>6. CASE UNCHANGED <<state, resources, registered>> /\ (client'[u] = "new" => client[u] = "new")
  BY <1>2, <1>6 DEF StepOf
<1>7. \/ UNCHANGED <<state, resources, registered>>
      \/ Start(t) \/ CommitReadonly(t) \/ \E r \in Resources : Enlist(t, r)
  BY DEF Client, OperationFails, EnlistRefused, CommitRefused, CommitTimedOut,
         BeginCommit, ClientAbort, mgrVars, txnVars
<1>8. client'[u] = "new" => client[u] = "new"
  BY <1>1 DEF Client, Start, OperationFails, Enlist, EnlistRefused, CommitRefused, CommitTimedOut,
         CommitReadonly, BeginCommit, ClientAbort, Answer, envVars
<1>. QED
  BY <1>3, <1>4, <1>5, <1>6, <1>7, <1>8

LEMMA NextOf ==
  ASSUME TypeOK, Inv, [Next]_vars, NEW u \in Txns
  PROVE  StepOf(u)
<1>1. CASE \E t \in Txns : Call(t)
  BY <1>1, CallOf, CallOfAnother
<1>2. CASE \E t \in Txns : Client(t)
  BY <1>2, ClientOf
<1>3. CASE \E t \in Txns : Cleanup(t)
  BY <1>3 DEF Cleanup, StepOf, txnVars, envVars
<1>4. CASE UNCHANGED <<client, state, resources, registered, cleaning>>
  BY <1>4 DEF StepOf
<1>5. \/ \E t \in Txns : Call(t) \/ Client(t) \/ Cleanup(t)
      \/ UNCHANGED <<client, state, resources, registered, cleaning>>
  BY DEF Next, Sweep, Expire, ApiLookup, ApiAbort, SweepAbort, Snapshot, CheckClock, SweepDone,
         Inspect, RecoveryExits, vars, txnVars, mgrVars, envVars
<1>. QED
  BY <1>1, <1>2, <1>3, <1>4, <1>5

\* Recovery and the abort endpoint find every unfinished transaction, and no
\* transaction that ended by an abort or by two-phase commit stays in the map
\* without a cleanup on its way (scheduleCleanup in commit and abort), for any
\* number of transactions, sweeps and abort requests.
THEOREM NoneIsForgotten == Spec => []MapIsKept
<1>. DEFINE AllKept == \A t \in Txns : Kept(t)
<1>1. Init => AllKept
  BY DEF Init, Kept, Unfinished, Ended
<1>2. ASSUME TypeOK, Inv, AllKept, [Next]_vars
      PROVE  AllKept'
  BY <1>2, NextOf, StepKeeps
<1>3. AllKept => MapIsKept
  BY DEF Kept, MapIsKept
<1>. QED
  BY <1>1, <1>2, <1>3, TypeCorrect, Invariance, PTL DEF Spec
=============================================================================
