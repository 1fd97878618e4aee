------------------------------ MODULE Migration ------------------------------
(***************************************************************************)
(* The two-phase migration of trading pairs to the new engine              *)
(* (internal/trading/migration): the coordinator, its lock manager, its    *)
(* persistence and the participants.  A thread is a goroutine that runs    *)
(* executeMigration (from StartMigration or RetryMigration) or             *)
(* abortMigrationInternal (from AbortMigration); it calls the participants *)
(* in goroutines of their own, which go on when it stops waiting.  Every   *)
(* participant serves one call at a time (migrationMu) and is asked for    *)
(* every migration, whatever its pair.                                     *)
(***************************************************************************)
EXTENDS Naturals, FiniteSets

CONSTANTS
  Migrations,     \* requests, each with an id of its own
  Pair,           \* the trading pair of a migration
  Participants,   \* the registered participants
  Persistence,    \* those that migrate the database; the others switch a share
                  \* of the orders, or the market data, to the new engine
  Threads,        \* bound on the goroutines that are under way
  None,
  MaxConcurrent,  \* config.MaxConcurrentMigrations
  MaxRetries,     \* the Config.MaxRetries of a migration
  MaxInterruptions \* bound on timeouts, aborts by hand and crashes from outside

ASSUME PersistenceAssumption == Persistence \subseteq Participants
ASSUME NoneIsNoMigration     == None \notin Migrations
ASSUME BoundsAssumption ==
  MaxConcurrent \in Nat /\ MaxRetries \in [Migrations -> Nat] /\ MaxInterruptions \in Nat

VARIABLES
  mig,       \* the coordinator's map of migrations
  holder,    \* the lock manager: the migration that holds the pair's lock
  thread,    \* what each goroutine is doing
  calls,     \* calls of participants that have not returned
  part,      \* the participants
  up,        \* the process runs
  interruptions,  \* timeouts, aborts by hand and crashes
  calm       \* so far no two of them overlapped: each execution and abort
             \* began after the ones before it, and all their calls, had ended

vars == <<mig, holder, thread, calls, part, up, interruptions, calm>>

Pairs  == {Pair[m] : m \in Migrations}
MaybeMigration == Migrations \cup {None}

NotStarted(phase) ==
  [phase |-> phase, votes |-> [p \in Participants |-> "absent"],
   consensus |-> "pending", retries |-> 0]

Idle  == [mig |-> None, pc |-> "idle", locked |-> FALSE, failed |-> FALSE]
\* What a participant keeps: the id and the data of a preparation, if it checks
\* them at Commit; an open database transaction, if it has one; and the migration
\* that last took effect there.
Fresh == [cur |-> None, data |-> FALSE, tx |-> None, on |-> None]

Active(m) == mig[m].phase \in {"idle", "prepare", "commit", "abort"}

\* The participants that the migration's state lists.
Voters(m) == {p \in Participants : mig[m].votes[p] # "absent"}

Free(t) == up /\ thread[t].pc = "idle" /\ \A c \in calls : c.by # t

Call(what, m, p, t)  == [what |-> what, mig |-> m, to |-> p, by |-> t]
Waiting(t, what)     == {c \in calls : c.by = t /\ c.what = what}
At(t, pc)            == up /\ thread[t].pc = pc
GoTo(t, pc)          == thread' = [thread EXCEPT ![t].pc = pc]

\* A goroutine that has made its checks and nothing else yet.
Checked == {"begin", "retry"}

Overlaps(t) == calls # {} \/ \E u \in Threads \ {t} : thread[u].pc \notin {"idle"} \cup Checked

Init ==
  /\ mig = [m \in Migrations |-> NotStarted("unknown")]
  /\ holder = [r \in Pairs |-> None]
  /\ thread = [t \in Threads |-> Idle]
  /\ calls = {}
  /\ part = [p \in Participants |-> Fresh]
  /\ up = TRUE /\ interruptions = 0 /\ calm = TRUE

(***************************************************************************)
(* StartMigration: the checks, then the lock and the entry in the map.     *)
(***************************************************************************)
Check(t, m) ==
  /\ Free(t)
  /\ mig[m].phase = "unknown" /\ \A u \in Threads : thread[u].mig # m
  /\ Cardinality({n \in Migrations : Active(n)}) < MaxConcurrent
  /\ ~\E n \in Migrations : Active(n) /\ Pair[n] = Pair[m]
  /\ thread' = [thread EXCEPT ![t] = [Idle EXCEPT !.mig = m, !.pc = "begin"]]
  /\ UNCHANGED <<mig, holder, calls, part, up, interruptions, calm>>

\* AcquireLock refuses a resource that is locked.
Locked_Never(r) == FALSE   \* mutant: the lock is overwritten
Locked(r) == holder[r] # None

Refuse(t) ==
  /\ At(t, "begin") /\ Locked(Pair[thread[t].mig])
  /\ thread' = [thread EXCEPT ![t] = Idle]
  /\ UNCHANGED <<mig, holder, calls, part, up, interruptions, calm>>

\* The state is written to the persistence here, and never again.  (A failed
\* save is only logged; the model lets it succeed, and lets nobody change the
\* state between its entry in the map and the save.)
Begin(t) ==
  LET m == thread[t].mig
  IN /\ At(t, "begin") /\ ~Locked(Pair[m])
     /\ holder' = [holder EXCEPT ![Pair[m]] = m]
     /\ mig'    = [mig EXCEPT ![m] = NotStarted("idle")]
     /\ thread' = [thread EXCEPT ![t].pc = "start", ![t].locked = TRUE]
     /\ calm'   = (calm /\ ~Overlaps(t))
     /\ UNCHANGED <<calls, part, up, interruptions>>

(***************************************************************************)
(* RetryMigration starts an aborted migration again, under no lock.  It    *)
(* lets go of the state's mutex between the check and the reset and does   *)
(* not look again, so that a second retry that has passed the check resets *)
(* whatever the first one has come to, and retries exceed MaxRetries by up *)
(* to the number of other goroutines.  (No code sets the phase "failed",   *)
(* which the check would accept as well.)                                  *)
(***************************************************************************)
CheckRetry(t, m) ==
  /\ Free(t)
  /\ mig[m].phase = "aborted" /\ mig[m].retries < MaxRetries[m]
  /\ thread' = [thread EXCEPT ![t] = [Idle EXCEPT !.mig = m, !.pc = "retry"]]
  /\ UNCHANGED <<mig, holder, calls, part, up, interruptions, calm>>

Retried_Pending(m) ==   \* mutant: the status is assigned to the phase
  [phase     |-> "pending",
   votes     |-> [p \in Participants |-> IF p \in Voters(m) THEN "pending" ELSE "absent"],
   consensus |-> "pending",
   retries   |-> mig[m].retries + 1]
Retried(m) ==
  [phase     |-> "idle",
   votes     |-> [p \in Participants |-> IF p \in Voters(m) THEN "pending" ELSE "absent"],
   consensus |-> "pending",
   retries   |-> mig[m].retries + 1]

RetryMigration(t) ==
  LET m == thread[t].mig
  IN /\ At(t, "retry")
     /\ mig'    = [mig EXCEPT ![m] = Retried(m)]
     /\ GoTo(t, "start")
     /\ calm'   = (calm /\ ~Overlaps(t))
     /\ UNCHANGED <<holder, calls, part, up, interruptions>>

\* AbortMigration runs an abort beside the execution, which it does not stop.
AbortMigration(t, m) ==
  /\ Free(t) /\ Active(m) /\ interruptions < MaxInterruptions
  /\ thread' = [thread EXCEPT ![t] = [Idle EXCEPT !.mig = m, !.pc = "fail"]]
  /\ calm'   = (calm /\ ~Overlaps(t))
  /\ interruptions' = interruptions + 1
  /\ UNCHANGED <<mig, holder, calls, part, up>>

(***************************************************************************)
(* The prepare phase.                                                      *)
(***************************************************************************)
StartPrepare(t) ==
  LET m == thread[t].mig
      votes == IF Voters(m) # {} THEN mig[m].votes ELSE [p \in Participants |-> "pending"]
  IN /\ At(t, "start")
     /\ mig'   = [mig EXCEPT ![m].phase = "prepare", ![m].votes = votes]
     /\ calls' = calls \cup {Call("prepare", m, p, t) : p \in Participants}
     /\ GoTo(t, "prepare")
     /\ UNCHANGED <<holder, part, up, interruptions, calm>>

\* A participant accepts, or finds itself unfit, and then says so in the state
\* that it returns, with no error: earlier data stay.
Accept(p, m) ==
  IF p \in Persistence THEN [part[p] EXCEPT !.tx = m]
                       ELSE [part[p] EXCEPT !.cur = m, !.data = TRUE]
Decline(p, m) == IF p \in Persistence THEN part[p] ELSE [part[p] EXCEPT !.cur = m]

\* The coordinator records a yes for every Prepare that returns without error.
Prepare(c) ==
  /\ up /\ c \in calls /\ c.what = "prepare"
  /\ \/ part' = [part EXCEPT ![c.to] = Accept(c.to, c.mig)]
     \/ part' = [part EXCEPT ![c.to] = Decline(c.to, c.mig)]
  /\ mig'   = [mig EXCEPT ![c.mig].votes[c.to] = "yes"]
  /\ calls' = calls \ {c}
  /\ UNCHANGED <<holder, thread, up, interruptions, calm>>

\* updateVotesSummary.
Consensus(m) ==
  CASE \E p \in Participants : mig[m].votes[p] = "timeout" -> "no"
    [] \A p \in Voters(m) : mig[m].votes[p] = "yes"        -> "yes"
    [] OTHER                                               -> "pending"

CollectVotes(t) ==
  LET m == thread[t].mig
  IN /\ At(t, "prepare") /\ Waiting(t, "prepare") = {}
     /\ mig' = [mig EXCEPT ![m].consensus = Consensus(m)]
     /\ GoTo(t, IF Consensus(m) = "yes" THEN "voted" ELSE "fail")
     /\ UNCHANGED <<holder, calls, part, up, interruptions, calm>>

\* The calls that are left go on, and may still record a vote.
PrepareTimeout(t) ==
  LET m == thread[t].mig
  IN /\ At(t, "prepare") /\ interruptions < MaxInterruptions
     /\ mig' = [mig EXCEPT ![m].votes = [p \in Participants |->
                                           IF @[p] = "pending" THEN "timeout" ELSE @[p]]]
     /\ GoTo(t, "fail")
     /\ interruptions' = interruptions + 1
     /\ calm' = (calm /\ Waiting(t, "prepare") = {})
     /\ UNCHANGED <<holder, calls, part, up>>

(***************************************************************************)
(* The commit phase.  executeMigration reads the consensus once more.      *)
(***************************************************************************)
StartCommit(t) ==
  LET m == thread[t].mig
  IN /\ At(t, "voted") /\ mig[m].consensus = "yes"
     /\ mig'   = [mig EXCEPT ![m].phase = "commit"]
     /\ calls' = calls \cup {Call("commit", m, p, t) : p \in Voters(m)}
     /\ GoTo(t, "commit")
     /\ UNCHANGED <<holder, part, up, interruptions, calm>>

LoseConsensus(t) ==
  /\ At(t, "voted") /\ mig[thread[t].mig].consensus # "yes"
  /\ GoTo(t, "fail")
  /\ UNCHANGED <<mig, holder, calls, part, up, interruptions, calm>>

\* A call that fails reports it to the thread, if it still waits.
Return(c, failed) ==
  /\ calls'  = calls \ {c}
  /\ thread' = [thread EXCEPT ![c.by].failed = @ \/ failed]
  /\ UNCHANGED <<mig, holder, up, interruptions, calm>>

CanSwitch(p, m) == part[p].cur = m /\ part[p].data

\* The switch is made, or refused for the health of the system, or made (a
\* rollout in part) and then found wanting.
CommitSwitch(c) ==
  /\ up /\ c \in calls /\ c.what = "commit" /\ c.to \notin Persistence
  /\ \/ /\ CanSwitch(c.to, c.mig)
        /\ part' = [part EXCEPT ![c.to].on = c.mig]
        /\ \E failed \in BOOLEAN : Return(c, failed)
     \/ part' = part /\ Return(c, TRUE)

\* The integrity checks fail, and the transaction is rolled back; or it
\* commits; or its commit fails.  Whose transaction it is, is not looked at.
CommitTx(c) ==
  /\ up /\ c \in calls /\ c.what = "commit" /\ c.to \in Persistence
  /\ \/ /\ part' = [part EXCEPT ![c.to].tx = None]
        /\ Return(c, TRUE)
     \/ /\ part[c.to].tx # None
        /\ part' = [part EXCEPT ![c.to].tx = None, ![c.to].on = part[c.to].tx]
        /\ Return(c, FALSE)
     \/ part[c.to].tx # None /\ part' = part /\ Return(c, TRUE)

\* completeMigration, or the abort of a phase in which a call failed.
Complete_Deaf(t) ==   \* mutant: the errors of the calls are not collected
  /\ At(t, "commit") /\ Waiting(t, "commit") = {}
  /\ mig' = [mig EXCEPT ![thread[t].mig].phase = "completed"]
  /\ GoTo(t, "release")
  /\ UNCHANGED <<holder, calls, part, up, interruptions, calm>>
Complete(t) ==
  /\ At(t, "commit") /\ Waiting(t, "commit") = {} /\ ~thread[t].failed
  /\ mig' = [mig EXCEPT ![thread[t].mig].phase = "completed"]
  /\ GoTo(t, "release")
  /\ UNCHANGED <<holder, calls, part, up, interruptions, calm>>

CommitFailed(t) ==
  /\ At(t, "commit") /\ Waiting(t, "commit") = {} /\ thread[t].failed
  /\ GoTo(t, "fail")
  /\ UNCHANGED <<mig, holder, calls, part, up, interruptions, calm>>

CommitTimeout(t) ==
  /\ At(t, "commit") /\ interruptions < MaxInterruptions
  /\ GoTo(t, "fail")
  /\ interruptions' = interruptions + 1
  /\ calm' = (calm /\ Waiting(t, "commit") = {})
  /\ UNCHANGED <<mig, holder, calls, part, up>>

(***************************************************************************)
(* abortMigrationInternal waits for all its calls.                         *)
(***************************************************************************)
StartAbort(t) ==
  LET m == thread[t].mig
  IN /\ At(t, "fail")
     /\ mig'   = [mig EXCEPT ![m].phase = "abort"]
     /\ calls' = calls \cup {Call("abort", m, p, t) : p \in Voters(m)}
     /\ GoTo(t, "abort")
     /\ UNCHANGED <<holder, part, up, interruptions, calm>>

\* A participant gives back the orders, or rolls back its transaction, of
\* whatever migration, and forgets its preparation.  A committed transaction
\* stays (restoreFromCheckpoint restores nothing).
AbortedPart_Keeps(p, m) == [Fresh EXCEPT !.on = part[p].on]   \* mutant: the switch is not undone
AbortedPart(p, m) == [Fresh EXCEPT !.on = IF p \in Persistence THEN part[p].on ELSE None]

AbortPart(c) ==
  /\ up /\ c \in calls /\ c.what = "abort"
  /\ part' = [part EXCEPT ![c.to] = AbortedPart(c.to, c.mig)]
  /\ Return(c, FALSE)

AfterAbort(t) == IF thread[t].locked THEN [thread[t] EXCEPT !.pc = "release"] ELSE Idle

EndAbort_Silent(t) ==   \* mutant: the phase is left as it is
  /\ At(t, "abort") /\ Waiting(t, "abort") = {}
  /\ thread' = [thread EXCEPT ![t] = AfterAbort(t)]
  /\ UNCHANGED <<mig, holder, calls, part, up, interruptions, calm>>
EndAbort(t) ==
  /\ At(t, "abort") /\ Waiting(t, "abort") = {}
  /\ mig'    = [mig EXCEPT ![thread[t].mig].phase = "aborted"]
  /\ thread' = [thread EXCEPT ![t] = AfterAbort(t)]
  /\ UNCHANGED <<holder, calls, part, up, interruptions, calm>>

\* The deferred ReleaseLock; an execution without a lock has nothing to release.
Release(t) ==
  LET m == thread[t].mig
  IN /\ At(t, "release")
     /\ holder' = IF thread[t].locked THEN [holder EXCEPT ![Pair[m]] = None] ELSE holder
     /\ thread' = [thread EXCEPT ![t] = Idle]
     /\ UNCHANGED <<mig, calls, part, up, interruptions, calm>>

(***************************************************************************)
(* The process goes down, at any time or by Commit of a participant that   *)
(* has no transaction (a nil pointer).  The database rolls back what was   *)
(* open.  recoverMigrations loads what was written when they started.      *)
(***************************************************************************)
GoDown ==
  /\ up' = FALSE
  /\ mig' = [m \in Migrations |->
               NotStarted(IF mig[m].phase = "unknown" THEN "unknown" ELSE "idle")]
  /\ holder' = [r \in Pairs |-> None]
  /\ thread' = [t \in Threads |-> Idle]
  /\ calls'  = {}
  /\ part'   = [p \in Participants |->
                  [Fresh EXCEPT !.on = IF p \in Persistence THEN part[p].on ELSE None]]
  /\ UNCHANGED calm

Panic(c) ==
  /\ up /\ c \in calls /\ c.what = "commit"
  /\ c.to \in Persistence /\ part[c.to].tx = None
  /\ GoDown /\ UNCHANGED interruptions

Crash ==
  /\ up /\ interruptions < MaxInterruptions
  /\ GoDown /\ interruptions' = interruptions + 1

Restart ==
  /\ ~up /\ up' = TRUE
  /\ UNCHANGED <<mig, holder, thread, calls, part, interruptions, calm>>

(***************************************************************************)
(* Specification.                                                          *)
(***************************************************************************)
ThreadStep(t) ==
  \/ Refuse(t) \/ Begin(t) \/ RetryMigration(t) \/ StartPrepare(t) \/ CollectVotes(t) \/ StartCommit(t)
  \/ LoseConsensus(t) \/ Complete(t) \/ CommitFailed(t) \/ StartAbort(t)
  \/ EndAbort(t) \/ Release(t)

Answer(c) == Prepare(c) \/ CommitSwitch(c) \/ CommitTx(c) \/ AbortPart(c)

Next ==
  \/ \E t \in Threads :
       \/ ThreadStep(t) \/ PrepareTimeout(t) \/ CommitTimeout(t)
       \/ \E m \in Migrations : Check(t, m) \/ CheckRetry(t, m) \/ AbortMigration(t, m)
  \/ \E c \in calls : Answer(c) \/ Panic(c)
  \/ Crash \/ Restart

AllCalls == [what : {"prepare", "commit", "abort"}, mig : Migrations,
             to : Participants, by : Threads]

\* The scheduler runs every goroutine, and the participants' methods return
\* (the contexts of Prepare and Commit have deadlines, though Prepare begins its
\* database transaction without one, and Abort only works on the memory and ends
\* a database transaction).
Spec == Init /\ [][Next]_vars
FairSpec ==
  /\ Spec
  /\ \A t \in Threads : WF_vars(ThreadStep(t))
  /\ WF_vars(\E c \in calls : Answer(c) \/ Panic(c))

(***************************************************************************)
(* Properties.                                                             *)
(***************************************************************************)
TypeOK ==
  /\ mig \in [Migrations ->
       [phase     : {"unknown", "idle", "prepare", "commit", "abort", "completed", "aborted"},
        votes     : [Participants -> {"absent", "pending", "yes", "timeout"}],
        consensus : {"pending", "yes", "no"},
        retries   : Nat]]
  /\ holder \in [Pairs -> MaybeMigration]
  /\ thread \in [Threads ->
       [mig    : MaybeMigration,
        pc     : {"idle", "begin", "retry", "start", "prepare", "voted", "commit", "fail", "abort", "release"},
        locked : BOOLEAN, failed : BOOLEAN]]
  /\ calls \subseteq AllCalls
  /\ part \in [Participants ->
       [cur : MaybeMigration, data : BOOLEAN, tx : MaybeMigration,
        on : MaybeMigration]]
  /\ up \in BOOLEAN /\ calm \in BOOLEAN
  /\ interruptions \in 0..MaxInterruptions

\* A migration that no other overlaps completes only when every participant has
\* gone over to it.
CompletesOnlyWhole ==
  [][\A m \in Migrations :
       mig[m].phase # "completed" /\ mig'[m].phase = "completed" /\ calm
         => \A p \in Participants : part[p].on = m]_vars

\* When everything has come to an end, and nothing overlapped, no database
\* transaction is open, and what is switched to the new engine was switched by a
\* migration that completed.
Quiet == calls = {} /\ \A t \in Threads : thread[t].pc = "idle"
NothingLeftBehind ==
  calm /\ Quiet =>
    \A p \in Participants :
      /\ part[p].tx = None
      /\ p \notin Persistence /\ part[p].on # None => mig[part[p].on].phase = "completed"

\* An execution that StartMigration began has the pair to itself, whoever passed
\* the checks at the same time: it is the one that the lock names.
OnePerPair ==
  \A t, u \in Threads :
    thread[t].locked =>
      /\ holder[Pair[thread[t].mig]] = thread[t].mig
      /\ thread[u].locked /\ t # u => Pair[thread[t].mig] # Pair[thread[u].mig]

\* No migration is stranded and no lock is lost, however executions, retries and
\* aborts overlap: what the coordinator counts as active has a goroutine that goes
\* on to an end, or is as recoverMigrations loads it; and a pair that is locked is
\* locked by an execution on it, which will release it.
Busy(t, m)   == thread[t].mig = m /\ thread[t].pc \notin {"idle", "release"} \cup Checked
Recovered(m) == mig[m].phase = "idle" /\ mig[m].retries = 0
NothingStranded ==
  /\ \A m \in Migrations : Active(m) => Recovered(m) \/ \E t \in Threads : Busy(t, m)
  /\ \A r \in Pairs : holder[r] # None =>
       Pair[holder[r]] = r /\ \E t \in Threads : thread[t].locked /\ thread[t].mig = holder[r]

\* A migration that a goroutine works on ends, unless the process goes down: again
\* and again (the bounds let only so many begin) there is a moment when it is down,
\* or no migration is active but those that a recovery has loaded and that no
\* goroutine works on.
UnderWay(m) == \E t \in Threads : thread[t].mig = m /\ thread[t].pc \notin Checked
EventuallyEnds ==
  []<>(~up \/ \A m \in Migrations : Active(m) => Recovered(m) /\ ~UnderWay(m))

\* A migration goes on to its commit phase only if every participant has agreed,
\* that is, has prepared to commit it (coordinator.go:203, "Check if all
\* participants voted yes").
Ready(p, m) == IF p \in Persistence THEN part[p].tx = m ELSE CanSwitch(p, m)
VotesAreHeeded ==
  [][\A m \in Migrations :
       mig[m].phase = "prepare" /\ mig'[m].phase = "commit"
         => \A p \in Participants : Ready(p, m)]_vars
=============================================================================
