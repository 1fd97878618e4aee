------------------------------ MODULE XAManager ------------------------------
(***************************************************************************)
(* The XA transaction manager of internal/accounts/transaction             *)
(* (xa_manager.go) with everything that calls it: the goroutine that       *)
(* drives a transaction (workflows.go, integration.go, middleware.go), the *)
(* recovery ticker, Stop, and the operator's abort endpoint (api.go).      *)
(*                                                                         *)
(* txn.mu is held from the entry of Commit or Abort until it returns, so   *)
(* at most one such call is in progress per transaction: it is the record  *)
(* op[t].  One step of the model is one call to a resource.  Resources are *)
(* the XAResource interface: any of their calls may fail, a prepare may    *)
(* vote no (with or without having prepared the branch: trading_xa.go      *)
(* prepares and returns false), and a commit whose acknowledgement is lost *)
(* reports an error although the branch is durable.  A rollback may find   *)
(* its branch permanent and undo it: FiatXAResource.Rollback compensates   *)
(* the operations of a branch that it has committed (fiat_xa.go).          *)
(* txn.abortedResources is written and never read, and left out.           *)
(***************************************************************************)
EXTENDS Naturals, Sequences, FiniteSets

CONSTANTS
  Txns,          \* transactions, each driven by a goroutine of its own
  Resources,     \* resource names
  None,          \* "no transaction"
  MaxApiAborts,  \* bound on the number of calls of the abort endpoint
  StopAllowed    \* whether the manager is shut down during the run

ASSUME NoneAssumption == None \notin Txns
ASSUME ApiAssumption  == MaxApiAborts \in Nat
ASSUME StopAssumption == StopAllowed \in BOOLEAN

VARIABLES
  client,      \* program counter of the goroutine that drives t
  answer,      \* the call of Commit or Abort it made last, and its result
  state,       \* txn.State
  resources,   \* txn.Resources, in the order of enlistment
  prepared,    \* txn.preparedResources
  committed,   \* txn.committedResources
  op,          \* the call that holds txn.mu
  branch,      \* the durable state of each branch, kept by its resource
  registered,  \* keys of tm.transactions
  cleaning,    \* transactions with a cleanup goroutine asleep
  expired,     \* transactions past TimeoutAt
  sweep,       \* performRecovery and Stop: both walk a snapshot of the map
  apiWants,    \* abort requests that found their transaction
  apiCalls,    \* number of abort requests so far
  metrics      \* tm.metrics

txnVars  == <<state, resources, prepared, committed, op, branch>>
mgrVars  == <<registered, cleaning, metrics>>
envVars  == <<client, answer, expired>>
callVars == <<sweep, apiWants, apiCalls>>
vars     == <<txnVars, mgrVars, envVars, callVars>>

States     == {"none", "active", "prepared", "committed", "aborted",
               "heur_commit", "heur_abort"}
Branches   == {"active", "prepared", "committed", "undone", "rolledback"}
Permanent  == {"committed", "undone"}  \* was made permanent, perhaps undone since
Sweepers   == {"recovery", "stop"}
Callers    == {"client", "api"} \cup Sweepers
Phases     == {"idle", "onephase", "prepare", "commit", "rollback"}
Idle       == [phase |-> "idle", by |-> "client", call |-> "commit", next |-> 1, failed |-> FALSE]
Calls      == [phase : Phases, by : Callers, call : {"commit", "abort"},
               next : Nat \ {0}, failed : BOOLEAN]
Clients    == {"new", "open", "aborting", "calling", "done", "gone"}
Answers    == {"none", "commit", "abort"} \X {"none", "ok", "error"}
Sweeps     == [pc : {"idle", "scan", "clock", "abort", "calling", "over"},
               todo : SUBSET Txns, cur : Txns \cup {None}]
Metrics    == [total : Nat, committed : Nat, aborted : Nat, heuristic : Nat]

\* The resources enlisted in t.
Members(t) == {resources[t][i] : i \in 1..Len(resources[t])}

\* The resource the call in progress turns to next, while there is one.
HasTurn(t) == op[t].next <= Len(resources[t])
Turn(t)    == resources[t][op[t].next]

\* txn.mu is free.
Unlocked(t) == op[t].phase = "idle"

\* The driving goroutine may make its next call on t.
Open(t) == client[t] = "open" /\ Unlocked(t)

\* Mutant: the state check of Enlist and Commit lets every transaction pass.
NotChecked(t) == state[t] # "none"
\* The state check of Enlist and Commit.
Active(t) == state[t] = "active"

------------------------------------------------------------------------------
Init ==
  /\ client     = [t \in Txns |-> "new"]
  /\ answer     = [t \in Txns |-> <<"none", "none">>]
  /\ state      = [t \in Txns |-> "none"]
  /\ resources  = [t \in Txns |-> <<>>]
  /\ prepared   = [t \in Txns |-> {}]
  /\ committed  = [t \in Txns |-> {}]
  /\ op         = [t \in Txns |-> Idle]
  /\ branch     = [t \in Txns |-> [r \in Resources |-> "active"]]
  /\ registered = {}
  /\ cleaning   = {}
  /\ expired    = {}
  /\ sweep      = [s \in Sweepers |-> [pc |-> "idle", todo |-> {}, cur |-> None]]
  /\ apiWants   = {}
  /\ apiCalls   = 0
  /\ metrics    = [total |-> 0, committed |-> 0, aborted |-> 0, heuristic |-> 0]

(***************************************************************************)
(* The goroutine that drives t.                                            *)
(***************************************************************************)

\* Start: a new ACTIVE transaction, entered into tm.transactions.
Start(t) ==
  /\ client[t] = "new"
  /\ client'     = [client EXCEPT ![t] = "open"]
  /\ state'      = [state EXCEPT ![t] = "active"]
  /\ registered' = registered \cup {t}
  /\ metrics'    = [metrics EXCEPT !.total = @ + 1]
  /\ UNCHANGED <<answer, resources, prepared, committed, op, branch,
                 cleaning, expired, callVars>>

\* Enlist, when the transaction is ACTIVE and has no resource of that name.
Enlist(t, r) ==
  /\ Open(t) /\ Active(t)
  /\ r \notin Members(t)
  /\ resources' = [resources EXCEPT ![t] = Append(@, r)]
  /\ UNCHANGED <<state, prepared, committed, op, branch, mgrVars, envVars, callVars>>

\* Enlist fails.  The workflows abort; ExecuteDistributedTransaction returns
\* and leaves the transaction to the recovery ticker.
EnlistRefused(t, r) ==
  /\ Open(t)
  /\ ~Active(t) \/ r \in Members(t)
  /\ \E pc \in {"aborting", "gone"} : client' = [client EXCEPT ![t] = pc]
  /\ UNCHANGED <<txnVars, mgrVars, answer, expired, callVars>>

\* A business operation failed, or the response has an error status.
OperationFails(t) ==
  /\ client[t] = "open"
  /\ client' = [client EXCEPT ![t] = "aborting"]
  /\ UNCHANGED <<txnVars, mgrVars, answer, expired, callVars>>

\* The clock passes txn.TimeoutAt.
Expire(t) ==
  /\ client[t] # "new" /\ t \notin expired
  /\ expired' = expired \cup {t}
  /\ UNCHANGED <<txnVars, mgrVars, client, answer, callVars>>

(***************************************************************************)
(* Calls that hold txn.mu.                                                 *)
(***************************************************************************)

Enter(t, phase, by, call) ==
  op' = [op EXCEPT ![t] = [phase |-> phase, by |-> by, call |-> call,
                           next |-> 1, failed |-> FALSE]]

\* The driving goroutine gets the result of its call.
Answer(t, call, result) ==
  /\ client' = [client EXCEPT ![t] = "done"]
  /\ answer' = [answer EXCEPT ![t] = <<call, result>>]

\* Whoever made the call goes on: the client with the result, a sweep with
\* the next transaction of its snapshot, the endpoint with nothing.
Return(t, result) ==
  /\ op' = [op EXCEPT ![t] = Idle]
  /\ IF op[t].by = "client"
       THEN Answer(t, op[t].call, result)
       ELSE UNCHANGED <<client, answer>>
  /\ IF op[t].by \in Sweepers
       THEN sweep' = [sweep EXCEPT ![op[t].by].pc = "scan", ![op[t].by].cur = None]
       ELSE UNCHANGED sweep

\* The call ends well: counted, and scheduled for cleanup.
Completed_Kept(t, outcome) ==   \* mutant: no cleanup
  /\ state'    = [state EXCEPT ![t] = outcome]
  /\ metrics'  = [metrics EXCEPT ![outcome] = @ + 1]
  /\ UNCHANGED cleaning
  /\ Return(t, "ok")
Completed(t, outcome) ==
  /\ state'    = [state EXCEPT ![t] = outcome]
  /\ metrics'  = [metrics EXCEPT ![outcome] = @ + 1]
  /\ cleaning' = cleaning \cup {t}
  /\ Return(t, "ok")

\* A resource failed: a heuristic outcome, counted, and an error.
Heuristic_Uncounted(t, outcome) ==   \* mutant: the metric is forgotten
  /\ state' = [state EXCEPT ![t] = outcome]
  /\ UNCHANGED <<metrics, cleaning>>
  /\ Return(t, "error")
Heuristic(t, outcome) ==
  /\ state'   = [state EXCEPT ![t] = outcome]
  /\ metrics' = [metrics EXCEPT !.heuristic = @ + 1]
  /\ UNCHANGED cleaning
  /\ Return(t, "error")

\* Commit of a transaction that is no longer ACTIVE.
CommitRefused(t) ==
  /\ Open(t) /\ ~Active(t)
  /\ Answer(t, "commit", "error")
  /\ UNCHANGED <<txnVars, mgrVars, expired, callVars>>

\* Commit past the timeout turns into a rollback.
CommitTimedOut(t) ==
  /\ Open(t) /\ Active(t) /\ t \in expired
  /\ client' = [client EXCEPT ![t] = "calling"]
  /\ Enter(t, "rollback", "client", "commit")
  /\ UNCHANGED <<state, resources, prepared, committed, branch, mgrVars,
                 answer, expired, callVars>>

\* Commit without resources: READONLY and at once COMMITTED, neither counted
\* nor scheduled for cleanup.
CommitReadonly(t) ==
  /\ Open(t) /\ Active(t) /\ t \notin expired
  /\ resources[t] = <<>>
  /\ state' = [state EXCEPT ![t] = "committed"]
  /\ Answer(t, "commit", "ok")
  /\ UNCHANGED <<resources, prepared, committed, op, branch, mgrVars,
                 expired, callVars>>

\* Commit of one resource, or of several.
BeginCommit_OnePhase(t) ==   \* mutant: the first resource commits in one phase
  /\ Open(t) /\ Active(t) /\ t \notin expired
  /\ resources[t] # <<>>
  /\ client' = [client EXCEPT ![t] = "calling"]
  /\ Enter(t, "onephase", "client", "commit")
  /\ UNCHANGED <<state, resources, prepared, committed, branch, mgrVars,
                 answer, expired, callVars>>
BeginCommit(t) ==
  /\ Open(t) /\ Active(t) /\ t \notin expired
  /\ resources[t] # <<>>
  /\ client' = [client EXCEPT ![t] = "calling"]
  /\ Enter(t, IF Len(resources[t]) = 1 THEN "onephase" ELSE "prepare", "client", "commit")
  /\ UNCHANGED <<state, resources, prepared, committed, branch, mgrVars,
                 answer, expired, callVars>>

\* One-phase commit of the only resource.  A failure leads to the rollback
\* below, and may have left the branch durable.
OnePhase(t) ==
  LET r == Turn(t) IN
  /\ op[t].phase = "onephase" /\ HasTurn(t)
  /\ \/ /\ branch'    = [branch EXCEPT ![t][r] = "committed"]
        /\ committed' = [committed EXCEPT ![t] = @ \cup {r}]
        /\ state'     = [state EXCEPT ![t] = "committed"]
        /\ metrics'   = [metrics EXCEPT !.committed = @ + 1]
        /\ Return(t, "ok")
     \/ /\ \E b \in {branch[t][r], "committed"} : branch' = [branch EXCEPT ![t][r] = b]
        /\ Enter(t, "rollback", "client", "commit")
        /\ UNCHANGED <<committed, state, metrics, client, answer, sweep>>
  /\ UNCHANGED <<resources, prepared, registered, cleaning, expired,
                 apiWants, apiCalls>>

\* A resource fails to prepare or votes no, whether or not it has prepared its
\* branch: the phase ends, and the transaction is rolled back.
VoteNo_Ignored(t, r) ==   \* mutant: the loop goes on
  /\ \E b \in {"active", "prepared"} : branch' = [branch EXCEPT ![t][r] = b]
  /\ op' = [op EXCEPT ![t].next = @ + 1]
  /\ UNCHANGED prepared
VoteNo(t, r) ==
  /\ \E b \in {"active", "prepared"} : branch' = [branch EXCEPT ![t][r] = b]
  /\ Enter(t, "rollback", "client", "commit")
  /\ UNCHANGED prepared

VoteYes(t, r) ==
  /\ branch'   = [branch EXCEPT ![t][r] = "prepared"]
  /\ prepared' = [prepared EXCEPT ![t] = @ \cup {r}]
  /\ op'       = [op EXCEPT ![t].next = @ + 1]

\* The next resource is asked to prepare.
PrepareResource(t) ==
  /\ op[t].phase = "prepare" /\ HasTurn(t)
  /\ VoteYes(t, Turn(t)) \/ VoteNo(t, Turn(t))
  /\ UNCHANGED <<state, resources, committed, mgrVars, envVars, callVars>>

\* All voted yes: PREPARED, a state that is visible only under txn.mu.
AllPrepared_Committing(t) ==   \* mutant: a state nothing else knows
  /\ op[t].phase = "prepare" /\ ~HasTurn(t)
  /\ state' = [state EXCEPT ![t] = "committing"]
  /\ Enter(t, "commit", "client", "commit")
  /\ UNCHANGED <<resources, prepared, committed, branch, mgrVars, envVars, callVars>>
AllPrepared(t) ==
  /\ op[t].phase = "prepare" /\ ~HasTurn(t)
  /\ state' = [state EXCEPT ![t] = "prepared"]
  /\ Enter(t, "commit", "client", "commit")
  /\ UNCHANGED <<resources, prepared, committed, branch, mgrVars, envVars, callVars>>

\* The next resource is told to commit; a failure is noted and the loop goes on.
CommitResource(t) ==
  LET r == Turn(t) IN
  /\ op[t].phase = "commit" /\ HasTurn(t)
  /\ \/ /\ branch'    = [branch EXCEPT ![t][r] = "committed"]
        /\ committed' = [committed EXCEPT ![t] = @ \cup {r}]
        /\ op'        = [op EXCEPT ![t].next = @ + 1]
     \/ /\ \E b \in {branch[t][r], "committed"} : branch' = [branch EXCEPT ![t][r] = b]
        /\ op' = [op EXCEPT ![t].next = @ + 1, ![t].failed = TRUE]
        /\ UNCHANGED committed
  /\ UNCHANGED <<state, resources, prepared, mgrVars, envVars, callVars>>

\* The end of commit: COMMITTED, or HEUR_COMMIT if a resource failed.
FinishCommit_Blind(t) ==   \* mutant: failures of the loop are ignored
  /\ op[t].phase = "commit" /\ ~HasTurn(t)
  /\ Completed(t, "committed")
  /\ UNCHANGED <<resources, prepared, committed, branch, registered, expired,
                 apiWants, apiCalls>>
FinishCommit(t) ==
  /\ op[t].phase = "commit" /\ ~HasTurn(t)
  /\ IF op[t].failed THEN Heuristic(t, "heur_commit") ELSE Completed(t, "committed")
  /\ UNCHANGED <<resources, prepared, committed, branch, registered, expired,
                 apiWants, apiCalls>>

\* Abort by one of its callers.  There is no check of txn.State.
ClientAbort(t) ==
  /\ client[t] = "aborting" /\ Unlocked(t)
  /\ client' = [client EXCEPT ![t] = "calling"]
  /\ Enter(t, "rollback", "client", "abort")
  /\ UNCHANGED <<state, resources, prepared, committed, branch, mgrVars,
                 answer, expired, callVars>>

SweepAbort(s, t) ==
  /\ sweep[s].pc = "abort" /\ sweep[s].cur = t /\ Unlocked(t)
  /\ sweep' = [sweep EXCEPT ![s].pc = "calling"]
  /\ Enter(t, "rollback", s, "abort")
  /\ UNCHANGED <<state, resources, prepared, committed, branch, mgrVars,
                 envVars, apiWants, apiCalls>>

ApiAbort(t) ==
  /\ t \in apiWants /\ Unlocked(t)
  /\ apiWants' = apiWants \ {t}
  /\ Enter(t, "rollback", "api", "abort")
  /\ UNCHANGED <<state, resources, prepared, committed, branch, mgrVars,
                 envVars, sweep, apiCalls>>

\* What a rollback may leave of a branch.  A resource that has committed it may
\* have forgotten it and answer that all is well (settlement_xa.go), or undo it
\* by compensating its operations (fiat_xa.go).
RolledBack(b) ==
  IF b = "committed" THEN Permanent ELSE IF b = "undone" THEN {b} ELSE {"rolledback"}

\* The next resource is told to roll back.  A failure is noted, whether or not
\* the rollback took effect.
RollbackResource(t) ==
  LET r == Turn(t) IN
  /\ op[t].phase = "rollback" /\ HasTurn(t)
  /\ \/ /\ \E b \in RolledBack(branch[t][r]) : branch' = [branch EXCEPT ![t][r] = b]
        /\ op' = [op EXCEPT ![t].next = @ + 1]
     \/ /\ \E b \in {branch[t][r]} \cup RolledBack(branch[t][r]) :
             branch' = [branch EXCEPT ![t][r] = b]
        /\ op' = [op EXCEPT ![t].next = @ + 1, ![t].failed = TRUE]
  /\ UNCHANGED <<state, resources, prepared, committed, mgrVars, envVars, callVars>>

\* The end of abort: ABORTED and nil, even when the caller asked to commit;
\* HEUR_ABORT and an error if a rollback failed.
FinishAbort(t) ==
  /\ op[t].phase = "rollback" /\ ~HasTurn(t)
  /\ IF op[t].failed THEN Heuristic(t, "heur_abort") ELSE Completed(t, "aborted")
  /\ UNCHANGED <<resources, prepared, committed, branch, registered, expired,
                 apiWants, apiCalls>>

\* cleanup, five seconds after the end.
Cleanup(t) ==
  /\ t \in cleaning
  /\ cleaning'   = cleaning \ {t}
  /\ registered' = registered \ {t}
  /\ UNCHANGED <<txnVars, metrics, envVars, callVars>>

(***************************************************************************)
(* performRecovery, Stop and the abort endpoint.                           *)
(***************************************************************************)

\* A tick of the recovery ticker, or Stop: a snapshot of tm.transactions.
Snapshot(s) ==
  /\ sweep[s].pc = "idle"
  /\ s = "stop" => StopAllowed
  /\ sweep' = [sweep EXCEPT ![s] = [pc |-> "scan", todo |-> registered, cur |-> None]]
  /\ UNCHANGED <<txnVars, mgrVars, envVars, apiWants, apiCalls>>

Unfinished_Prepared(t) == state[t] = "prepared"   \* mutant: ACTIVE is forgotten
Unfinished(t) == state[t] \in {"active", "prepared"}

\* The state of one of them is read under txn.mu.RLock, which is released
\* again.  Stop goes on to abort it; performRecovery looks at the clock first.
Inspect(s, t) ==
  /\ sweep[s].pc = "scan" /\ t \in sweep[s].todo /\ Unlocked(t)
  /\ sweep' = [sweep EXCEPT ![s] =
       IF Unfinished(t)
         THEN [pc |-> IF s = "stop" THEN "abort" ELSE "clock",
               todo |-> sweep[s].todo \ {t}, cur |-> t]
         ELSE [sweep[s] EXCEPT !.todo = @ \ {t}]]
  /\ UNCHANGED <<txnVars, mgrVars, envVars, apiWants, apiCalls>>

CheckClock(s) ==
  /\ sweep[s].pc = "clock"
  /\ sweep' = [sweep EXCEPT ![s] =
       IF sweep[s].cur \in expired THEN [sweep[s] EXCEPT !.pc = "abort"]
                                  ELSE [sweep[s] EXCEPT !.pc = "scan", !.cur = None]]
  /\ UNCHANGED <<txnVars, mgrVars, envVars, apiWants, apiCalls>>

\* The walk is over.  Stop closed stopChan when it began.
SweepDone(s) ==
  /\ sweep[s].pc = "scan" /\ sweep[s].todo = {}
  /\ sweep' = [sweep EXCEPT ![s].pc = IF s = "stop" THEN "over" ELSE "idle"]
  /\ UNCHANGED <<txnVars, mgrVars, envVars, apiWants, apiCalls>>

\* The recovery goroutine sees that stopChan is closed.
RecoveryExits ==
  /\ sweep["recovery"].pc = "idle" /\ sweep["stop"].pc # "idle"
  /\ sweep' = [sweep EXCEPT !["recovery"].pc = "over"]
  /\ UNCHANGED <<txnVars, mgrVars, envVars, apiWants, apiCalls>>

\* The endpoint finds a transaction in the map; it will call Abort.
ApiLookup(t) ==
  /\ apiCalls < MaxApiAborts
  /\ t \in registered
  /\ apiCalls' = apiCalls + 1
  /\ apiWants' = apiWants \cup {t}
  /\ UNCHANGED <<txnVars, mgrVars, envVars, sweep>>

------------------------------------------------------------------------------
Client(t) ==
  \/ Start(t) \/ OperationFails(t)
  \/ \E r \in Resources : Enlist(t, r) \/ EnlistRefused(t, r)
  \/ CommitRefused(t) \/ CommitTimedOut(t) \/ CommitReadonly(t) \/ BeginCommit(t)
  \/ ClientAbort(t)

Call(t) ==
  \/ OnePhase(t) \/ PrepareResource(t) \/ AllPrepared(t)
  \/ CommitResource(t) \/ FinishCommit(t)
  \/ RollbackResource(t) \/ FinishAbort(t)

Sweep(s) ==
  \/ Snapshot(s) \/ CheckClock(s) \/ SweepDone(s)
  \/ \E t \in Txns : Inspect(s, t) \/ SweepAbort(s, t)

Next ==
  \/ \E t \in Txns : Client(t) \/ Call(t) \/ Expire(t) \/ Cleanup(t)
                       \/ ApiLookup(t) \/ ApiAbort(t)
  \/ \E s \in Sweepers : Sweep(s)
  \/ RecoveryExits

Spec == Init /\ [][Next]_vars

(***************************************************************************)
(* Fairness: calls to resources return, the clock advances, the recovery   *)
(* ticker keeps ticking and its goroutine gets through the snapshot, and a *)
(* sleeping cleanup wakes up.  The driving goroutine need not do anything. *)
(***************************************************************************)
Fairness ==
  /\ \A t \in Txns : /\ WF_vars(Call(t)) /\ WF_vars(Expire(t)) /\ WF_vars(Cleanup(t))
                     /\ WF_vars(Inspect("recovery", t))
                     /\ WF_vars(SweepAbort("recovery", t))
  /\ WF_vars(Snapshot("recovery"))
  /\ WF_vars(CheckClock("recovery"))
  /\ WF_vars(SweepDone("recovery"))

FairSpec == Spec /\ Fairness

------------------------------------------------------------------------------
TypeOK ==
  /\ client \in [Txns -> Clients]
  /\ answer \in [Txns -> Answers]
  /\ state \in [Txns -> States]
  /\ resources \in [Txns -> Seq(Resources)]
  /\ prepared \in [Txns -> SUBSET Resources]
  /\ committed \in [Txns -> SUBSET Resources]
  /\ op \in [Txns -> Calls]
  /\ branch \in [Txns -> [Resources -> Branches]]
  /\ registered \in SUBSET Txns /\ cleaning \in SUBSET Txns
  /\ expired \in SUBSET Txns /\ apiWants \in SUBSET Txns
  /\ apiCalls \in Nat
  /\ sweep \in [Sweepers -> Sweeps]
  /\ metrics \in Metrics

\* A branch of a transaction with several resources is made permanent only
\* after every enlisted resource has voted to commit (prepare's early return,
\* Enlist's ACTIVE check): nobody joins late, no vote is assumed.
UnanimousVote ==
  \A t \in Txns :
    (Len(resources[t]) > 1 /\ \E r \in Members(t) : branch[t][r] \in Permanent)
      => Members(t) = prepared[t]

\* What COMMITTED says is so: every enlisted branch is durable, whatever
\* aborts were waiting for txn.mu when the commit went through.  An abort that
\* comes later may undo branches, and leaves COMMITTED when it is through with
\* them: until then it holds txn.mu, and nobody sees the state.
CommittedIsDurable ==
  \A t \in Txns : (state[t] = "committed" /\ op[t].phase # "rollback")
                   => \A r \in Members(t) : branch[t][r] = "committed"

\* Every transaction left with one branch made permanent and another one not
\* was counted as a heuristic outcome, once each.
MixedOutcomesAreCounted ==
  LET Mixed(t) == /\ Unlocked(t)
                  /\ \E r, q \in Members(t) : branch[t][r] \in Permanent /\ branch[t][q] \notin Permanent
  IN  Cardinality({t \in Txns : Mixed(t)}) <= metrics.heuristic

\* Nothing is forgotten: recovery and the abort endpoint find a transaction only
\* through tm.transactions, so one that is unfinished is in that map and no
\* cleanup that would take it out is asleep; and one that ended by an abort or by
\* two-phase commit has left the map or will, however many aborts come after.
Ended(t) == state[t] = "aborted" \/ (state[t] = "committed" /\ Len(resources[t]) > 1)
MapIsKept ==
  \A t \in Txns : /\ Unfinished(t) => t \in registered \ cleaning
                  /\ Ended(t) => t \in cleaning \/ t \notin registered

\* A decision to abort is final: once a transaction is ABORTED or HEUR_ABORT
\* it stays so, and no branch that was not permanent becomes permanent, whoever
\* calls Commit or Abort on it afterwards.
AbortIsFinal ==
  [][\A t \in Txns : state[t] \in {"aborted", "heur_abort"} =>
       /\ state'[t] \in {"aborted", "heur_abort"}
       /\ \A r \in Resources : branch'[t][r] \in Permanent => branch[t][r] \in Permanent]_vars

(***************************************************************************)
(* The manager implements AtomicCommit.  It records no decision: what was  *)
(* decided follows from the votes and the branches.                        *)
(***************************************************************************)
Decision(t) ==
  IF \/ \E r \in Members(t) : branch[t][r] \in Permanent
     \/ (Len(resources[t]) > 1 /\ Members(t) \subseteq prepared[t] /\ op[t].phase # "prepare")
    THEN "commit"
  ELSE IF op[t].phase = "rollback" \/ state[t] \in {"aborted", "heur_abort"} THEN "abort"
  ELSE "none"

\* The commit loop is over and some resource has not acknowledged.
GivenUp == {t \in Txns : /\ Len(resources[t]) > 1 /\ Decision(t) = "commit"
                        /\ op[t].phase # "commit"
                        /\ \E r \in Members(t) : r \notin committed[t]}

AC == INSTANCE AtomicCommit WITH
        members  <- [t \in Txns |-> Members(t)],
        decision <- [t \in Txns |-> Decision(t)],
        givenUp  <- GivenUp

\* Two-phase commit, with every caller and every failure, keeps the promise of
\* AtomicCommit: no branch is made permanent without all votes, none against
\* the decision, and the decision never changes; what was made permanent is
\* undone only when the commit had been carried out or given up.
ImplementsAtomicCommit == AC!Spec

\* Stop and performRecovery abort transactions that are under way
\* (xa_manager.go:625 "Abort any active transactions"): COMMITTED is final.
CommitIsFinal ==
  [][\A t \in Txns : (state[t] = "committed" /\ resources[t] # <<>>)
                      => state'[t] = "committed"]_vars

\* A call of Commit that returns nil has committed: the middleware changes the
\* response to an error otherwise (middleware.go), and
\* ExecuteDistributedTransaction reports "committed" (integration.go).
CommitAnswerIsTrue ==
  \A t \in Txns : answer[t] = <<"commit", "ok">>
    => \A r \in Members(t) : branch[t][r] \in Permanent

\* Recovery: a transaction whose driver has gone away does not stay ACTIVE.
ActiveIsResolved == \A t \in Txns : state[t] = "active" ~> state[t] # "active"

\* A transaction that ended by an abort or by two-phase commit leaves
\* tm.transactions in the end, however many aborts came after.
EndedIsRemoved ==
  \A t \in Txns : Ended(t) ~> t \notin registered
=============================================================================
