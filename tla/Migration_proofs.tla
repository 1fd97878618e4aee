--------------------------- MODULE Migration_proofs --------------------------
(***************************************************************************)
(* The engine migration, proved for any number of migrations, pairs,       *)
(* participants and goroutines: its state has its types, and the lock      *)
(* keeps the executions that StartMigration begins apart, pair by pair.    *)
(*                                                                         *)
(* The lock does so although several goroutines pass the checks of         *)
(* StartMigration at once, and although a release looks at nothing:        *)
(* between Begin and Release nobody else writes the entry of the pair,     *)
(* because a goroutine that waits at the lock, and one that retries or     *)
(* aborts, has not locked anything (WorkOK).                               *)
(*                                                                         *)
(* The second part is about executions and aborts that do not overlap:     *)
(* they leave nothing behind and complete only as a whole, whatever fails, *)
(* times out or goes down on the way (Alone).                              *)
(*                                                                         *)
(* The third part is about all of them again: no migration is left in the  *)
(* middle without a goroutine that goes on with it, and no lock without    *)
(* the goroutine that will release it.                                     *)
(***************************************************************************)
EXTENDS Migration, TLAPS

Phases == {"unknown", "idle", "prepare", "commit", "abort", "completed", "aborted"}
Votes  == {"absent", "pending", "yes", "timeout"}
Pcs    == {"idle", "begin", "retry", "start", "prepare", "voted", "commit", "fail", "abort", "release"}

Migs    == [phase : Phases, votes : [Participants -> Votes],
            consensus : {"pending", "yes", "no"}, retries : Nat]
Workers == [mig : MaybeMigration, pc : Pcs, locked : BOOLEAN, failed : BOOLEAN]
Parts   == [cur : MaybeMigration, data : BOOLEAN, tx : MaybeMigration, on : MaybeMigration]

\* A goroutine that works has a migration; one that holds a lock has passed Begin.
WorkOK(k) ==
  /\ k \in Workers
  /\ k.pc # "idle" => k.mig \in Migrations
  /\ k.locked => k.pc \notin {"idle", "begin", "retry"}

MigOK == mig \in [Migrations -> Migs]
ThreadOK == thread \in [Threads -> Workers] /\ \A t \in Threads : WorkOK(thread[t])
RestOK ==
  /\ holder \in [Pairs -> MaybeMigration] /\ calls \subseteq AllCalls
  /\ part \in [Participants -> Parts]
  /\ up \in BOOLEAN /\ calm \in BOOLEAN /\ interruptions \in 0 .. MaxInterruptions

\* The inductive invariant.
IInv == MigOK /\ ThreadOK /\ RestOK /\ OnePerPair

LEMMA Types == IInv => TypeOK
BY DEF IInv, TypeOK, MigOK, ThreadOK, RestOK, Migs, Workers, Parts, Phases, Votes, Pcs

-----------------------------------------------------------------------------
LEMMA IdleOK == WorkOK(Idle) /\ Idle.locked = FALSE
BY DEF Idle, WorkOK, Workers, Pcs, MaybeMigration

\* What a step does to the goroutines, as far as the lock is concerned.
SameWork == \A t \in Threads : thread'[t].locked = thread[t].locked /\ thread'[t].mig = thread[t].mig

LEMMA SameLocks ==
  ASSUME OnePerPair, SameWork, holder' = holder
  PROVE  OnePerPair'
BY DEF OnePerPair, SameWork

\* A goroutine that gives up what it does, or begins something without a lock.
LEMMA Unlocks ==
  ASSUME OnePerPair, ThreadOK, NEW t \in Threads, NEW k, WorkOK(k), ~k.locked,
         thread' = [thread EXCEPT ![t] = k], holder' = holder
  PROVE  ThreadOK' /\ OnePerPair'
<1>1. thread' \in [Threads -> Workers] /\ thread'[t] = k /\ \A u \in Threads \ {t} : thread'[u] = thread[u]
  BY DEF ThreadOK, WorkOK
<1>2. ThreadOK'
  BY <1>1 DEF ThreadOK, WorkOK
<1>3. OnePerPair'
  BY <1>1 DEF OnePerPair
<1> QED
  BY <1>2, <1>3

LEMMA PcOK ==
  ASSUME NEW k, WorkOK(k), k.pc # "idle", NEW x \in Pcs \ {"idle", "begin", "retry"}
  PROVE  /\ WorkOK([k EXCEPT !.pc = x])
         /\ [k EXCEPT !.pc = x].locked = k.locked /\ [k EXCEPT !.pc = x].mig = k.mig
BY DEF WorkOK, Workers

LEMMA Changes ==
  ASSUME ThreadOK, NEW t \in Threads, NEW k, WorkOK(k),
         k.locked = thread[t].locked, k.mig = thread[t].mig, thread' = [thread EXCEPT ![t] = k]
  PROVE  ThreadOK' /\ SameWork
<1>1. thread' \in [Threads -> Workers] /\ thread'[t] = k /\ \A u \in Threads \ {t} : thread'[u] = thread[u]
  BY DEF ThreadOK, WorkOK
<1> QED
  BY <1>1 DEF ThreadOK, SameWork

LEMMA GoesTo ==
  ASSUME ThreadOK, NEW t \in Threads, thread[t].pc # "idle", NEW x \in Pcs \ {"idle", "begin", "retry"}, GoTo(t, x)
  PROVE  ThreadOK' /\ SameWork
<1> DEFINE k == [thread[t] EXCEPT !.pc = x]
<1>1. WorkOK(k) /\ k.locked = thread[t].locked /\ k.mig = thread[t].mig
  <2> SUFFICES ASSUME NEW w, WorkOK(w), w.pc # "idle"
               PROVE  /\ WorkOK([w EXCEPT !.pc = x])
                      /\ [w EXCEPT !.pc = x].locked = w.locked /\ [w EXCEPT !.pc = x].mig = w.mig
    BY Zenon DEF ThreadOK
  <2> QED
    BY PcOK
<1>2. thread' = [thread EXCEPT ![t] = k]
  BY DEF GoTo, ThreadOK
<1> HIDE DEF k
<1> QED
  BY <1>1, <1>2, Changes

\* The migration of a goroutine that works.
LEMMA Works ==
  ASSUME ThreadOK, NEW t \in Threads, thread[t].pc # "idle"
  PROVE  thread[t].mig \in Migrations
BY DEF ThreadOK, WorkOK

LEMMA CallType ==
  ASSUME NEW w \in {"prepare", "commit", "abort"}, NEW m \in Migrations, NEW p \in Participants, NEW t \in Threads
  PROVE  Call(w, m, p, t) \in AllCalls
BY DEF Call, AllCalls

\* Fields of a migration change.
LEMMA MigChanges ==
  ASSUME MigOK, NEW m \in Migrations, NEW k \in Migs, mig' = [mig EXCEPT ![m] = k]
  PROVE  MigOK'
BY DEF MigOK

LEMMA NotStartedType ==
  ASSUME NEW phase \in Phases
  PROVE  NotStarted(phase) \in Migs /\ NotStarted(phase).retries = 0
BY DEF NotStarted, Migs, Votes

LEMMA InitOK == Init => IInv
<1> SUFFICES ASSUME Init PROVE IInv
  OBVIOUS
<1>1. MigOK
  <2>1. NotStarted("unknown") \in Migs /\ NotStarted("unknown").retries = 0
    BY NotStartedType DEF Phases
  <2> QED
    BY <2>1 DEF Init, MigOK
<1>2. ThreadOK
  BY IdleOK DEF Init, ThreadOK, WorkOK
<1>3. RestOK
  <2>1. Fresh \in Parts
    BY DEF Fresh, Parts, MaybeMigration
  <2> QED
    BY <2>1, BoundsAssumption DEF Init, RestOK, MaybeMigration
<1>4. OnePerPair
  BY IdleOK DEF Init, OnePerPair
<1> QED
  BY <1>1, <1>2, <1>3, <1>4 DEF IInv

-----------------------------------------------------------------------------
LEMMA NewPhase ==
  ASSUME MigOK, NEW m \in Migrations, NEW x \in Phases, mig' = [mig EXCEPT ![m].phase = x]
  PROVE  MigOK'
<1> DEFINE k == [mig[m] EXCEPT !.phase = x]
<1>1. k \in Migs
  BY DEF MigOK, Migs
<1>2. mig' = [mig EXCEPT ![m] = k]
  BY DEF MigOK
<1> HIDE DEF k
<1> QED
  BY <1>1, <1>2, MigChanges DEF MigOK

LEMMA NewConsensus ==
  ASSUME MigOK, NEW m \in Migrations, NEW x \in {"pending", "yes", "no"}, mig' = [mig EXCEPT ![m].consensus = x]
  PROVE  MigOK'
<1> DEFINE k == [mig[m] EXCEPT !.consensus = x]
<1>1. k \in Migs
  BY DEF MigOK, Migs
<1>2. mig' = [mig EXCEPT ![m] = k]
  BY DEF MigOK
<1> HIDE DEF k
<1> QED
  BY <1>1, <1>2, MigChanges DEF MigOK

LEMMA NewVotes ==
  ASSUME MigOK, NEW m \in Migrations, NEW v \in [Participants -> Votes], mig' = [mig EXCEPT ![m].votes = v]
  PROVE  MigOK'
<1> DEFINE k == [mig[m] EXCEPT !.votes = v]
<1>1. k \in Migs
  BY DEF MigOK, Migs
<1>2. mig' = [mig EXCEPT ![m] = k]
  BY DEF MigOK
<1> HIDE DEF k
<1> QED
  BY <1>1, <1>2, MigChanges DEF MigOK

LEMMA NewPhaseAndVotes ==
  ASSUME MigOK, NEW m \in Migrations, NEW x \in Phases, NEW v \in [Participants -> Votes],
         mig' = [mig EXCEPT ![m].phase = x, ![m].votes = v]
  PROVE  MigOK'
<1> DEFINE k == [mig[m] EXCEPT !.phase = x, !.votes = v]
<1>1. k \in Migs
  BY DEF MigOK, Migs
<1>2. mig' = [mig EXCEPT ![m] = k]
  BY DEF MigOK
<1> HIDE DEF k
<1> QED
  BY <1>1, <1>2, MigChanges DEF MigOK

LEMMA VotesType ==
  ASSUME MigOK, NEW m \in Migrations
  PROVE  mig[m].votes \in [Participants -> Votes]
BY DEF MigOK, Migs

-----------------------------------------------------------------------------
\* StartMigration, RetryMigration, AbortMigration.
LEMMA CheckStep ==
  ASSUME IInv, NEW t \in Threads, NEW m \in Migrations, Check(t, m) \/ CheckRetry(t, m)
  PROVE  IInv'
<1>1. PICK x \in Checked : /\ thread' = [thread EXCEPT ![t] = [Idle EXCEPT !.mig = m, !.pc = x]]
                          /\ UNCHANGED <<mig, holder, calls, part, up, interruptions, calm>>
  BY DEF Check, CheckRetry, Checked
<1> DEFINE k == [Idle EXCEPT !.mig = m, !.pc = x]
<1>2. WorkOK(k) /\ ~k.locked
  BY DEF Idle, WorkOK, Workers, Pcs, MaybeMigration, Checked
<1>3. thread' = [thread EXCEPT ![t] = k]
  BY <1>1
<1> HIDE DEF k
<1>4. ThreadOK' /\ OnePerPair'
  BY <1>1, <1>2, <1>3, Unlocks DEF IInv
<1> QED
  BY <1>1, <1>4 DEF IInv, MigOK, RestOK

LEMMA RefuseStep ==
  ASSUME IInv, NEW t \in Threads, Refuse(t)
  PROVE  IInv'
<1>1. thread' = [thread EXCEPT ![t] = Idle] /\ UNCHANGED <<mig, holder, calls, part, up, interruptions, calm>>
  BY DEF Refuse
<1>2. ThreadOK' /\ OnePerPair'
  BY <1>1, IdleOK, Unlocks DEF IInv
<1> QED
  BY <1>1, <1>2 DEF IInv, MigOK, RestOK

LEMMA BeginStep ==
  ASSUME IInv, NEW t \in Threads, Begin(t)
  PROVE  IInv'
<1> DEFINE m == thread[t].mig
           k == [thread[t] EXCEPT !.pc = "start", !.locked = TRUE]
<1>1. thread[t].pc = "begin" /\ holder[Pair[m]] = None
  BY DEF Begin, At, Locked
<1>2. m \in Migrations /\ Pair[m] \in Pairs
  BY <1>1, Works DEF IInv, Pairs
<1>3. WorkOK(k) /\ k.mig = m /\ k.locked
  BY <1>2 DEF IInv, ThreadOK, WorkOK, Workers, Pcs
<1>4. /\ holder' = [holder EXCEPT ![Pair[m]] = m] /\ mig' = [mig EXCEPT ![m] = NotStarted("idle")]
      /\ thread' = [thread EXCEPT ![t] = k]
      /\ calm' = (calm /\ ~Overlaps(t)) /\ UNCHANGED <<calls, part, up, interruptions>>
  BY DEF IInv, Begin, ThreadOK
<1> HIDE DEF k
<1>5. thread' \in [Threads -> Workers] /\ thread'[t] = k /\ \A u \in Threads \ {t} : thread'[u] = thread[u]
  BY <1>3, <1>4 DEF IInv, ThreadOK, WorkOK
<1>6. ThreadOK'
  BY <1>3, <1>5 DEF IInv, ThreadOK
<1>7. MigOK'
  <2>1. NotStarted("idle") \in Migs /\ NotStarted("idle").retries = 0
    BY NotStartedType DEF Phases
  <2> QED
    BY <1>2, <1>4, <2>1, MigChanges DEF IInv
<1>8. RestOK'
  BY <1>2, <1>4 DEF IInv, RestOK, MaybeMigration
<1>9. OnePerPair'
  <2>1. \A u \in Threads : thread[u].locked => thread[u].mig \in Migrations /\ Pair[thread[u].mig] \in Pairs
    BY DEF IInv, ThreadOK, WorkOK, Pairs
  <2>2. \A u \in Threads : thread[u].locked => holder[Pair[thread[u].mig]] = thread[u].mig
    BY DEF IInv, OnePerPair
  <2>3. \A u \in Threads : thread[u].locked => Pair[thread[u].mig] # Pair[m]
    BY <1>1, <2>1, <2>2, NoneIsNoMigration
  <2>4. holder'[Pair[m]] = m /\ \A r \in Pairs : r # Pair[m] => holder'[r] = holder[r]
    BY <1>2, <1>4 DEF IInv, RestOK
  <2>5. ASSUME NEW u \in Threads, NEW v \in Threads, thread'[u].locked
        PROVE  /\ holder'[Pair[thread'[u].mig]] = thread'[u].mig
               /\ thread'[v].locked /\ u # v => Pair[thread'[u].mig] # Pair[thread'[v].mig]
    BY <1>3, <1>5, <2>1, <2>2, <2>3, <2>4, <2>5 DEF IInv, OnePerPair
  <2> QED
    BY <2>5 DEF OnePerPair
<1> QED
  BY <1>6, <1>7, <1>8, <1>9 DEF IInv

LEMMA RetriedType ==
  ASSUME MigOK, NEW m \in Migrations
  PROVE  Retried(m) \in Migs
<1>1. mig[m].retries \in Nat
  BY DEF MigOK, Migs
<1> QED
  BY <1>1 DEF Retried, Migs, Phases, Votes

LEMMA RetryStep ==
  ASSUME IInv, NEW t \in Threads, RetryMigration(t)
  PROVE  IInv'
<1>1. PICK m : m = thread[t].mig
  OBVIOUS
<1>2. /\ thread[t].pc = "retry" /\ GoTo(t, "start") /\ mig' = [mig EXCEPT ![m] = Retried(m)]
      /\ calm' = (calm /\ ~Overlaps(t)) /\ UNCHANGED <<holder, calls, part, up, interruptions>>
  BY <1>1 DEF RetryMigration, At
<1>3. ThreadOK' /\ SameWork
  BY <1>2, GoesTo DEF IInv, Pcs
<1>4. m \in Migrations
  BY <1>1, <1>2, Works DEF IInv
<1>5. MigOK'
  BY <1>2, <1>4, RetriedType, MigChanges DEF IInv
<1> QED
  BY <1>2, <1>3, <1>5, SameLocks DEF IInv, RestOK

LEMMA Interrupted ==
  ASSUME RestOK, interruptions < MaxInterruptions
  PROVE  interruptions + 1 \in 0 .. MaxInterruptions
BY BoundsAssumption DEF RestOK

LEMMA AbortStep ==
  ASSUME IInv, NEW t \in Threads, NEW m \in Migrations, AbortMigration(t, m)
  PROVE  IInv'
<1> DEFINE k == [Idle EXCEPT !.mig = m, !.pc = "fail"]
<1>1. WorkOK(k) /\ ~k.locked
  BY DEF Idle, WorkOK, Workers, Pcs, MaybeMigration
<1>2. /\ thread' = [thread EXCEPT ![t] = k] /\ interruptions < MaxInterruptions
      /\ calm' = (calm /\ ~Overlaps(t)) /\ interruptions' = interruptions + 1
      /\ UNCHANGED <<mig, holder, calls, part, up>>
  BY DEF AbortMigration
<1> HIDE DEF k
<1>3. ThreadOK' /\ OnePerPair'
  BY <1>1, <1>2, Unlocks DEF IInv
<1>4. RestOK'
  BY <1>2, Interrupted DEF IInv, RestOK
<1> QED
  BY <1>2, <1>3, <1>4 DEF IInv, MigOK

-----------------------------------------------------------------------------
\* A goroutine goes on to its next phase; what it does to the migration is given.
LEMMA Advances ==
  ASSUME IInv, NEW t \in Threads, thread[t].pc # "idle", NEW x \in Pcs \ {"idle", "begin", "retry"}, GoTo(t, x),
         MigOK', holder' = holder, RestOK'
  PROVE  IInv'
<1>1. ThreadOK' /\ SameWork
  BY GoesTo DEF IInv
<1>2. OnePerPair'
  BY <1>1, SameLocks DEF IInv
<1> QED
  BY <1>1, <1>2 DEF IInv

LEMMA SentCalls ==
  ASSUME RestOK, NEW w \in {"prepare", "commit", "abort"}, NEW m \in Migrations, NEW t \in Threads,
         NEW P \in SUBSET Participants,
         calls' = calls \cup {Call(w, m, p, t) : p \in P},
         UNCHANGED <<holder, part, up, interruptions, calm>>
  PROVE  RestOK'
<1>1. \A p \in P : Call(w, m, p, t) \in AllCalls
  BY CallType
<1> QED
  BY <1>1 DEF RestOK

LEMMA StartPrepareStep ==
  ASSUME IInv, NEW t \in Threads, StartPrepare(t)
  PROVE  IInv'
<1> DEFINE m == thread[t].mig
           v == IF Voters(m) # {} THEN mig[m].votes ELSE [p \in Participants |-> "pending"]
<1>1. thread[t].pc = "start" /\ thread[t].pc # "idle"
  BY DEF StartPrepare, At
<1>2. m \in Migrations
  BY <1>1, Works DEF IInv
<1>3. v \in [Participants -> Votes]
  BY <1>2, VotesType DEF IInv, Votes
<1>4. /\ mig' = [mig EXCEPT ![m].phase = "prepare", ![m].votes = v]
      /\ calls' = calls \cup {Call("prepare", m, p, t) : p \in Participants}
      /\ GoTo(t, "prepare") /\ UNCHANGED <<holder, part, up, interruptions, calm>>
  BY DEF StartPrepare
<1> HIDE DEF m, v
<1>5. MigOK'
  <2>1. "prepare" \in Phases
    BY DEF Phases
  <2> QED
    BY <1>2, <1>3, <1>4, <2>1, NewPhaseAndVotes DEF IInv
<1>6. RestOK'
  BY <1>2, <1>4, SentCalls DEF IInv
<1>7. "prepare" \in Pcs \ {"idle", "begin", "retry"}
  BY DEF Pcs
<1> QED
  BY <1>1, <1>4, <1>5, <1>6, <1>7, Advances

LEMMA CollectVotesStep ==
  ASSUME IInv, NEW t \in Threads, CollectVotes(t)
  PROVE  IInv'
<1> DEFINE m == thread[t].mig
           x == Consensus(m)
           pc == IF x = "yes" THEN "voted" ELSE "fail"
<1>1. thread[t].pc = "prepare" /\ thread[t].pc # "idle"
  BY DEF CollectVotes, At
<1>2. m \in Migrations
  BY <1>1, Works DEF IInv
<1>3. x \in {"pending", "yes", "no"}
  BY DEF Consensus
<1>4. mig' = [mig EXCEPT ![m].consensus = x] /\ GoTo(t, pc) /\ UNCHANGED <<holder, calls, part, up, interruptions, calm>>
  BY DEF CollectVotes
<1> HIDE DEF m, x
<1>5. MigOK'
  BY <1>2, <1>3, <1>4, NewConsensus DEF IInv
<1>6. RestOK'
  BY <1>4 DEF IInv, RestOK
<1>7. pc \in Pcs \ {"idle", "begin", "retry"}
  BY DEF Pcs
<1> HIDE DEF pc
<1> QED
  BY <1>1, <1>4, <1>5, <1>6, <1>7, Advances

LEMMA PrepareTimeoutStep ==
  ASSUME IInv, NEW t \in Threads, PrepareTimeout(t)
  PROVE  IInv'
<1> DEFINE m == thread[t].mig
           v == [p \in Participants |-> IF mig[m].votes[p] = "pending" THEN "timeout" ELSE mig[m].votes[p]]
<1>1. thread[t].pc = "prepare" /\ thread[t].pc # "idle"
  BY DEF PrepareTimeout, At
<1>2. m \in Migrations
  BY <1>1, Works DEF IInv
<1>3. v \in [Participants -> Votes]
  BY <1>2, VotesType DEF IInv, Votes
<1>4. mig' = [mig EXCEPT ![m].votes = v]
  <2>1. mig' = [mig EXCEPT ![m].votes = [p \in Participants |-> IF @[p] = "pending" THEN "timeout" ELSE @[p]]]
    BY DEF PrepareTimeout
  <2> QED
    BY <1>2, <2>1 DEF IInv, MigOK, Migs
<1>5. /\ GoTo(t, "fail") /\ interruptions < MaxInterruptions /\ interruptions' = interruptions + 1
      /\ calm' = (calm /\ Waiting(t, "prepare") = {}) /\ UNCHANGED <<holder, calls, part, up>>
  BY DEF PrepareTimeout
<1> HIDE DEF m, v
<1>6. MigOK'
  BY <1>2, <1>3, <1>4, NewVotes DEF IInv
<1>7. RestOK'
  BY <1>5, Interrupted DEF IInv, RestOK
<1>8. "fail" \in Pcs \ {"idle", "begin", "retry"}
  BY DEF Pcs
<1> QED
  BY <1>1, <1>5, <1>6, <1>7, <1>8, Advances

LEMMA StartCommitStep ==
  ASSUME IInv, NEW t \in Threads, StartCommit(t)
  PROVE  IInv'
<1> DEFINE m == thread[t].mig
           P == Voters(m)
<1>1. thread[t].pc = "voted" /\ thread[t].pc # "idle"
  BY DEF StartCommit, At
<1>2. m \in Migrations /\ P \in SUBSET Participants
  BY <1>1, Works DEF IInv, Voters
<1>3. /\ mig' = [mig EXCEPT ![m].phase = "commit"]
      /\ calls' = calls \cup {Call("commit", m, p, t) : p \in P}
      /\ GoTo(t, "commit") /\ UNCHANGED <<holder, part, up, interruptions, calm>>
  BY DEF StartCommit
<1> HIDE DEF m, P
<1>4. MigOK'
  BY <1>2, <1>3, NewPhase DEF IInv, Phases
<1>5. RestOK'
  BY <1>2, <1>3, SentCalls DEF IInv
<1>6. "commit" \in Pcs \ {"idle", "begin", "retry"}
  BY DEF Pcs
<1> QED
  BY <1>1, <1>3, <1>4, <1>5, <1>6, Advances

LEMMA StartAbortStep ==
  ASSUME IInv, NEW t \in Threads, StartAbort(t)
  PROVE  IInv'
<1> DEFINE m == thread[t].mig
           P == Voters(m)
<1>1. thread[t].pc = "fail" /\ thread[t].pc # "idle"
  BY DEF StartAbort, At
<1>2. m \in Migrations /\ P \in SUBSET Participants
  BY <1>1, Works DEF IInv, Voters
<1>3. /\ mig' = [mig EXCEPT ![m].phase = "abort"]
      /\ calls' = calls \cup {Call("abort", m, p, t) : p \in P}
      /\ GoTo(t, "abort") /\ UNCHANGED <<holder, part, up, interruptions, calm>>
  BY DEF StartAbort
<1> HIDE DEF m, P
<1>4. MigOK'
  BY <1>2, <1>3, NewPhase DEF IInv, Phases
<1>5. RestOK'
  BY <1>2, <1>3, SentCalls DEF IInv
<1>6. "abort" \in Pcs \ {"idle", "begin", "retry"}
  BY DEF Pcs
<1> QED
  BY <1>1, <1>3, <1>4, <1>5, <1>6, Advances

\* LoseConsensus, CommitFailed, CommitTimeout, Complete.
LEMMA CommitEndsStep ==
  ASSUME IInv, NEW t \in Threads, LoseConsensus(t) \/ CommitFailed(t) \/ CommitTimeout(t) \/ Complete(t)
  PROVE  IInv'
<1>1. thread[t].pc # "idle" /\ UNCHANGED <<holder, calls, part, up>>
  BY DEF LoseConsensus, CommitFailed, CommitTimeout, Complete, At
<1>2. "fail" \in Pcs \ {"idle", "begin", "retry"} /\ "release" \in Pcs \ {"idle", "begin", "retry"}
  BY DEF Pcs
<1>3. CASE LoseConsensus(t) \/ CommitFailed(t)
  <2>1. GoTo(t, "fail") /\ UNCHANGED <<mig, holder, calls, part, up, interruptions, calm>>
    BY <1>3 DEF LoseConsensus, CommitFailed
  <2>2. MigOK' /\ RestOK'
    BY <2>1 DEF IInv, MigOK, RestOK
  <2> QED
    BY <1>1, <1>2, <2>1, <2>2, Advances
<1>4. CASE CommitTimeout(t)
  <2>1. /\ GoTo(t, "fail") /\ UNCHANGED <<mig, holder>> /\ interruptions < MaxInterruptions
        /\ interruptions' = interruptions + 1 /\ calm' = (calm /\ Waiting(t, "commit") = {})
    BY <1>4 DEF CommitTimeout
  <2>2. MigOK'
    BY <2>1 DEF IInv, MigOK
  <2>3. RestOK'
    BY <1>1, <2>1, Interrupted DEF IInv, RestOK
  <2> QED
    BY <1>1, <1>2, <2>1, <2>2, <2>3, Advances
<1>5. CASE Complete(t)
  <2> DEFINE m == thread[t].mig
  <2>1. mig' = [mig EXCEPT ![m].phase = "completed"] /\ GoTo(t, "release") /\ UNCHANGED <<holder, interruptions, calm>>
    BY <1>5 DEF Complete
  <2>2. m \in Migrations
    BY <1>1, Works DEF IInv
  <2> HIDE DEF m
  <2>3. MigOK'
    BY <2>1, <2>2, NewPhase DEF IInv, Phases
  <2>4. RestOK'
    BY <1>1, <2>1 DEF IInv, RestOK
  <2> QED
    BY <1>1, <1>2, <2>1, <2>3, <2>4, Advances
<1> QED
  BY <1>3, <1>4, <1>5

LEMMA EndAbortStep ==
  ASSUME IInv, NEW t \in Threads, EndAbort(t)
  PROVE  IInv'
<1> DEFINE m == thread[t].mig
<1>1. thread[t].pc = "abort" /\ thread[t].pc # "idle"
  BY DEF EndAbort, At
<1>2. m \in Migrations
  BY <1>1, Works DEF IInv
<1>3. /\ mig' = [mig EXCEPT ![m].phase = "aborted"] /\ thread' = [thread EXCEPT ![t] = AfterAbort(t)]
      /\ UNCHANGED <<holder, calls, part, up, interruptions, calm>>
  BY DEF EndAbort
<1>4. MigOK' /\ RestOK'
  <2> HIDE DEF m
  <2>1. MigOK'
    BY <1>2, <1>3, NewPhase DEF IInv, Phases
  <2> QED
    BY <1>3, <2>1 DEF IInv, RestOK
<1>5. CASE thread[t].locked
  <2>1. GoTo(t, "release")
    BY <1>3, <1>5 DEF AfterAbort, GoTo, IInv, ThreadOK
  <2>2. "release" \in Pcs \ {"idle", "begin", "retry"}
    BY DEF Pcs
  <2> QED
    BY <1>1, <1>3, <1>4, <2>1, <2>2, Advances
<1>6. CASE ~thread[t].locked
  <2>1. thread' = [thread EXCEPT ![t] = Idle]
    BY <1>3, <1>6 DEF AfterAbort
  <2>2. ThreadOK' /\ OnePerPair'
    BY <1>3, <2>1, IdleOK, Unlocks DEF IInv
  <2> QED
    BY <1>4, <2>2 DEF IInv
<1> QED
  BY <1>5, <1>6

LEMMA ReleaseStep ==
  ASSUME IInv, NEW t \in Threads, Release(t)
  PROVE  IInv'
<1> DEFINE m == thread[t].mig
<1>1. thread[t].pc = "release" /\ thread[t].pc # "idle"
  BY DEF Release, At
<1>2. m \in Migrations /\ Pair[m] \in Pairs
  BY <1>1, Works DEF IInv, Pairs
<1>3. /\ holder' = (IF thread[t].locked THEN [holder EXCEPT ![Pair[m]] = None] ELSE holder)
      /\ thread' = [thread EXCEPT ![t] = Idle]
      /\ UNCHANGED <<mig, calls, part, up, interruptions, calm>>
  BY DEF Release
<1>4. MigOK' /\ RestOK'
  BY <1>2, <1>3 DEF IInv, MigOK, RestOK, MaybeMigration
<1>5. CASE ~thread[t].locked
  <2>1. ThreadOK' /\ OnePerPair'
    BY <1>3, <1>5, IdleOK, Unlocks DEF IInv
  <2> QED
    BY <1>4, <2>1 DEF IInv
<1>6. CASE thread[t].locked
  <2>1. thread' \in [Threads -> Workers] /\ thread'[t] = Idle /\ \A u \in Threads \ {t} : thread'[u] = thread[u]
    BY <1>3, IdleOK DEF IInv, ThreadOK, WorkOK
  <2>2. ThreadOK'
    BY <2>1, IdleOK DEF IInv, ThreadOK
  <2>3. \A u \in Threads : thread[u].locked => thread[u].mig \in Migrations /\ Pair[thread[u].mig] \in Pairs
    BY DEF IInv, ThreadOK, WorkOK, Pairs
  <2>4. \A r \in Pairs : r # Pair[m] => holder'[r] = holder[r]
    BY <1>2, <1>3 DEF IInv, RestOK
  <2>5. \A u \in Threads \ {t} : thread[u].locked => Pair[thread[u].mig] # Pair[m]
    BY <1>6 DEF IInv, OnePerPair
  <2>6. ASSUME NEW u \in Threads, NEW v \in Threads, thread'[u].locked
        PROVE  /\ holder'[Pair[thread'[u].mig]] = thread'[u].mig
               /\ thread'[v].locked /\ u # v => Pair[thread'[u].mig] # Pair[thread'[v].mig]
    BY <2>1, <2>3, <2>4, <2>5, <2>6, IdleOK DEF IInv, OnePerPair
  <2>7. OnePerPair'
    BY <2>6 DEF OnePerPair
  <2> QED
    BY <1>4, <2>2, <2>7 DEF IInv
<1> QED
  BY <1>5, <1>6

-----------------------------------------------------------------------------
\* The participants answer.
LEMMA CallFields ==
  ASSUME RestOK, NEW c \in calls
  PROVE  c.mig \in Migrations /\ c.to \in Participants /\ c.by \in Threads
BY DEF RestOK, AllCalls

LEMMA PrepareStep ==
  ASSUME IInv, NEW c \in calls, Prepare(c)
  PROVE  IInv'
<1> DEFINE m == c.mig
           p == c.to
           v == [mig[m].votes EXCEPT ![p] = "yes"]
<1>1. m \in Migrations /\ p \in Participants
  BY CallFields DEF IInv
<1>2. v \in [Participants -> Votes]
  BY <1>1, VotesType DEF IInv, Votes
<1>3. mig' = [mig EXCEPT ![m].votes = v]
  BY <1>1 DEF Prepare, IInv, MigOK, Migs
<1>4. /\ part' = [part EXCEPT ![p] = Accept(p, m)] \/ part' = [part EXCEPT ![p] = Decline(p, m)]
      /\ calls' = calls \ {c} /\ UNCHANGED <<holder, thread, up, interruptions, calm>>
  BY DEF Prepare
<1> HIDE DEF m, p, v
<1>5. MigOK'
  BY <1>1, <1>2, <1>3, NewVotes DEF IInv
<1>6. Accept(p, m) \in Parts /\ Decline(p, m) \in Parts
  BY <1>1 DEF IInv, RestOK, Parts, Accept, Decline, MaybeMigration
<1>7. RestOK'
  BY <1>1, <1>4, <1>6 DEF IInv, RestOK
<1> QED
  BY <1>4, <1>5, <1>7 DEF IInv, ThreadOK, OnePerPair

LEMMA ReturnStep ==
  ASSUME IInv, NEW c \in calls, NEW failed \in BOOLEAN, Return(c, failed),
         part' \in [Participants -> Parts]
  PROVE  IInv'
<1> DEFINE t == c.by
           k == [thread[t] EXCEPT !.failed = @ \/ failed]
<1>1. t \in Threads
  BY CallFields DEF IInv
<1>2. WorkOK(k) /\ k.locked = thread[t].locked /\ k.mig = thread[t].mig
  <2> SUFFICES ASSUME NEW w, WorkOK(w)
               PROVE  LET x == [w EXCEPT !.failed = @ \/ failed]
                      IN  WorkOK(x) /\ x.locked = w.locked /\ x.mig = w.mig
    BY <1>1, Zenon DEF IInv, ThreadOK
  <2> QED
    BY DEF WorkOK, Workers
<1>3. /\ thread' = [thread EXCEPT ![t] = k] /\ calls' = calls \ {c}
      /\ UNCHANGED <<mig, holder, up, interruptions, calm>>
  BY <1>1 DEF Return, IInv, ThreadOK
<1> HIDE DEF t, k
<1>4. ThreadOK' /\ SameWork
  BY <1>1, <1>2, <1>3, Changes DEF IInv
<1>5. OnePerPair'
  BY <1>3, <1>4, SameLocks DEF IInv
<1>6. MigOK' /\ RestOK'
  BY <1>3 DEF IInv, MigOK, RestOK
<1> QED
  BY <1>4, <1>5, <1>6 DEF IInv

LEMMA CommitSwitchStep ==
  ASSUME IInv, NEW c \in calls, CommitSwitch(c)
  PROVE  IInv'
<1>1. c.mig \in Migrations /\ c.to \in Participants
  BY CallFields DEF IInv
<1>2. part' \in [Participants -> Parts]
  <2>1. part[c.to] \in Parts
    BY <1>1 DEF IInv, RestOK
  <2>2. [part[c.to] EXCEPT !.on = c.mig] \in Parts
    <3> SUFFICES ASSUME NEW k \in Parts, NEW m \in Migrations PROVE [k EXCEPT !.on = m] \in Parts
      BY <1>1, <2>1, Zenon
    <3> QED
      BY DEF Parts, MaybeMigration
  <2>3. part \in [Participants -> Parts]
    BY DEF IInv, RestOK
  <2>4. part' = [part EXCEPT ![c.to] = [part[c.to] EXCEPT !.on = c.mig]] \/ part' = part
    BY <1>1, <2>3 DEF CommitSwitch
  <2> QED
    BY <1>1, <2>2, <2>3, <2>4
<1>3. \E failed \in BOOLEAN : Return(c, failed)
  BY DEF CommitSwitch
<1> QED
  BY <1>2, <1>3, ReturnStep

LEMMA CommitTxStep ==
  ASSUME IInv, NEW c \in calls, CommitTx(c)
  PROVE  IInv'
<1>1. c.to \in Participants
  BY CallFields DEF IInv
<1>2. part' \in [Participants -> Parts]
  <2>1. part[c.to] \in Parts
    BY <1>1 DEF IInv, RestOK
  <2>2. [part[c.to] EXCEPT !.tx = None] \in Parts /\ [part[c.to] EXCEPT !.tx = None, !.on = part[c.to].tx] \in Parts
    <3> SUFFICES ASSUME NEW k \in Parts
                 PROVE  [k EXCEPT !.tx = None] \in Parts /\ [k EXCEPT !.tx = None, !.on = k.tx] \in Parts
      BY <2>1, Zenon
    <3> QED
      BY DEF Parts, MaybeMigration
  <2>3. part \in [Participants -> Parts]
    BY DEF IInv, RestOK
  <2>4. \/ part' = [part EXCEPT ![c.to] = [part[c.to] EXCEPT !.tx = None]]
        \/ part' = [part EXCEPT ![c.to] = [part[c.to] EXCEPT !.tx = None, !.on = part[c.to].tx]]
        \/ part' = part
    BY <1>1, <2>3 DEF CommitTx
  <2> QED
    BY <1>1, <2>2, <2>3, <2>4
<1>3. Return(c, TRUE) \/ Return(c, FALSE)
  BY DEF CommitTx
<1> QED
  BY <1>2, <1>3, ReturnStep

LEMMA AbortPartStep ==
  ASSUME IInv, NEW c \in calls, AbortPart(c)
  PROVE  IInv'
<1>1. c.to \in Participants
  BY CallFields DEF IInv
<1>2. AbortedPart(c.to, c.mig) \in Parts
  BY <1>1 DEF AbortedPart, Fresh, IInv, RestOK, Parts, MaybeMigration
<1>3. part' \in [Participants -> Parts]
  BY <1>1, <1>2 DEF AbortPart, IInv, RestOK
<1>4. Return(c, FALSE)
  BY DEF AbortPart
<1> QED
  BY <1>3, <1>4, ReturnStep

-----------------------------------------------------------------------------
\* The process goes down and comes back.
LEMMA DownStep ==
  ASSUME IInv, GoDown, interruptions' \in 0 .. MaxInterruptions
  PROVE  IInv'
<1>1. MigOK'
  <2>1. /\ NotStarted("unknown") \in Migs /\ NotStarted("unknown").retries = 0
        /\ NotStarted("idle") \in Migs /\ NotStarted("idle").retries = 0
    BY NotStartedType DEF Phases
  <2>2. \A m \in Migrations : mig'[m] \in {NotStarted("unknown"), NotStarted("idle")}
    BY DEF GoDown
  <2>3. mig' \in [Migrations -> Migs]
    BY <2>1 DEF GoDown
  <2> QED
    BY <2>1, <2>2, <2>3 DEF MigOK
<1>2. ThreadOK'
  BY IdleOK DEF GoDown, ThreadOK, WorkOK
<1>3. RestOK'
  <2>1. part' \in [Participants -> Parts]
    BY DEF GoDown, Fresh, IInv, RestOK, Parts, MaybeMigration
  <2> QED
    BY <2>1 DEF GoDown, IInv, RestOK, MaybeMigration
<1>4. OnePerPair'
  BY IdleOK DEF GoDown, OnePerPair
<1> QED
  BY <1>1, <1>2, <1>3, <1>4 DEF IInv

LEMMA Inductive == IInv /\ [Next]_vars => IInv'
<1> SUFFICES ASSUME IInv, [Next]_vars PROVE IInv'
  OBVIOUS
<1>1. CASE UNCHANGED vars
  BY <1>1 DEF vars, IInv, MigOK, ThreadOK, RestOK, OnePerPair
<1>2. ASSUME NEW t \in Threads, ThreadStep(t) \/ PrepareTimeout(t) \/ CommitTimeout(t) PROVE IInv'
  BY <1>2, RefuseStep, BeginStep, RetryStep, StartPrepareStep, CollectVotesStep, StartCommitStep, CommitEndsStep,
     StartAbortStep, EndAbortStep, ReleaseStep, PrepareTimeoutStep DEF ThreadStep
<1>3. ASSUME NEW t \in Threads, NEW m \in Migrations,
             Check(t, m) \/ CheckRetry(t, m) \/ AbortMigration(t, m)
      PROVE  IInv'
  BY <1>3, CheckStep, AbortStep
<1>4. ASSUME NEW c \in calls, Answer(c) PROVE IInv'
  BY <1>4, PrepareStep, CommitSwitchStep, CommitTxStep, AbortPartStep DEF Answer
<1>5. ASSUME NEW c \in calls, Panic(c) PROVE IInv'
  BY <1>5, DownStep DEF Panic, IInv, RestOK
<1>6. CASE Crash
  <2>1. GoDown /\ interruptions < MaxInterruptions /\ interruptions' = interruptions + 1
    BY <1>6 DEF Crash
  <2> QED
    BY <2>1, Interrupted, DownStep DEF IInv
<1>7. CASE Restart
  BY <1>7 DEF Restart, IInv, MigOK, ThreadOK, RestOK, OnePerPair
<1> QED
  BY <1>1, <1>2, <1>3, <1>4, <1>5, <1>6, <1>7 DEF Next

\* Every reachable state satisfies the inductive invariant.
THEOREM Invariance == Spec => []IInv
<1> QED
  BY InitOK, Inductive, PTL DEF Spec

\* The coordinator, its goroutines and the participants keep their types, whatever a
\* goroutine that lags behind writes over the state (RetryMigration).
THEOREM TypeCorrect == Spec => []TypeOK
<1> QED
  BY Types, Invariance, PTL

\* Executions that StartMigration began have their pairs to themselves, however
\* many passed its checks at once (AcquireLock, the deferred ReleaseLock).
THEOREM PairsAreExclusive == Spec => []OnePerPair
<1>1. IInv => OnePerPair
  BY DEF IInv
<1> QED
  BY <1>1, Invariance, PTL
-----------------------------------------------------------------------------
(***************************************************************************)
(* Executions and aborts that do not overlap.  While calm holds, at most   *)
(* one goroutine is past the checks, the calls under way are its own and   *)
(* belong to the phase that it is in, and what the participants hold is    *)
(* what that phase leaves there.  Alone says so, phase by phase; it needs  *)
(* Reserved, that a migration which StartMigration is about to begin is    *)
(* unknown to everybody else, so that Begin never takes the phase          *)
(* "completed" from a migration whose switches are in effect.              *)
(***************************************************************************)
Working(t) == thread[t].pc \notin {"idle", "begin", "retry"}

Reserved ==
  \A t \in Threads : thread[t].pc = "begin" =>
    /\ mig[thread[t].mig].phase = "unknown"
    /\ \A u \in Threads \ {t} : thread[u].mig # thread[t].mig

\* Nothing is open at p, and what is switched there belongs to a migration that
\* completed.
Settled(p, o) == p \notin Persistence /\ o # None => mig[o].phase = "completed"
Clean(p) == part[p].tx = None /\ Settled(p, part[p].on)
AllClean == \A p \in Participants : Clean(p)

\* All that may be left open or half done at p is the work of m.
Involved(p, m) ==
  /\ part[p].tx \in {None, m}
  /\ part[p].tx # None => p \in Persistence
  /\ part[p].on # m => Settled(p, part[p].on)
AllInvolved(m) == Voters(m) = Participants /\ \A p \in Participants : Involved(p, m)

\* The commit has been carried out at p, or will be, or its failure is known; the
\* abort has been carried out at p, or will be.
Committing(t, m, p) ==
  \/ thread[t].failed
  \/ Call("commit", m, p, t) \in calls
  \/ part[p].on = m /\ part[p].tx = None
Aborting(t, m, p) == Clean(p) \/ (Involved(p, m) /\ Call("abort", m, p, t) \in calls)

\* What holds of the participants while t is at pc with m.
Stage(t, m, pc) ==
  /\ pc # "release" => mig[m].phase # "completed"
  /\ pc = "start" => \A p \in Participants : Involved(p, m)
  /\ pc = "release" => AllClean
  /\ pc \in {"prepare", "voted", "commit"} => AllInvolved(m)
  /\ pc = "fail" => AllInvolved(m) \/ AllClean
  /\ pc = "commit" => \A p \in Participants : Committing(t, m, p)
  /\ pc = "abort" => \A p \in Participants : Aborting(t, m, p)

Solo   == \A t, u \in Threads : Working(t) /\ Working(u) => t = u
OwnCalls == \A c \in calls : c.mig = thread[c.by].mig /\ c.what = thread[c.by].pc
Polled == \A m \in Migrations : Voters(m) \in {{}, Participants}
Rested == (\A t \in Threads : ~Working(t)) => AllClean
Stages == \A t \in Threads : Working(t) => Stage(t, thread[t].mig, thread[t].pc)
Orderly == Solo /\ OwnCalls /\ Polled /\ Rested /\ Stages
Alone   == calm => Orderly

\* The goroutine that works is alone with its calls.
LEMMA OnlyWorker ==
  ASSUME IInv, Orderly, NEW t \in Threads, Working(t)
  PROVE  /\ \A u \in Threads \ {t} : thread[u].pc \in {"idle", "begin", "retry"}
         /\ \A c \in calls : c.by = t /\ c.mig = thread[t].mig /\ c.what = thread[t].pc
         /\ Stage(t, thread[t].mig, thread[t].pc)
<1>1. \A c \in calls : Working(c.by) /\ c.by \in Threads
  BY DEF IInv, RestOK, AllCalls, Orderly, OwnCalls, Working
<1>2. \A u \in Threads : Working(u) => u = t
  BY DEF Orderly, Solo
<1> QED
  BY <1>1, <1>2 DEF Orderly, OwnCalls, Stages, Working

\* The two ways a step may end: with one goroutine at work, and with none.
LEMMA OneWorks ==
  ASSUME NEW t \in Threads, NEW m, NEW pc, pc \notin {"idle", "begin", "retry"},
         thread'[t].mig = m, thread'[t].pc = pc,
         \A u \in Threads \ {t} : thread'[u].pc \in {"idle", "begin", "retry"},
         \A c \in calls' : c.by = t /\ c.mig = m /\ c.what = pc,
         Polled', Stage(t, m, pc)'
  PROVE  Orderly'
<1>1. \A u \in Threads : Working(u)' => u = t
  BY DEF Working
<1>2. Working(t)'
  BY DEF Working
<1>3. Solo'
  BY <1>1 DEF Solo
<1>4. OwnCalls'
  BY DEF OwnCalls
<1>5. Rested'
  BY <1>2 DEF Rested
<1>6. Stages'
  BY <1>1 DEF Stages
<1> QED
  BY <1>3, <1>4, <1>5, <1>6 DEF Orderly

LEMMA NobodyWorks ==
  ASSUME \A u \in Threads : thread'[u].pc \in {"idle", "begin", "retry"}, calls' = {}, Polled', AllClean'
  PROVE  Orderly'
<1>1. \A u \in Threads : ~Working(u)'
  BY DEF Working
<1> QED
  BY <1>1 DEF Orderly, Solo, OwnCalls, Rested, Stages

\* A migration that is not completed may change: what is clean stays clean, and
\* what it is involved in stays its own.
LEMMA Keeps ==
  ASSUME IInv, NEW m \in Migrations, mig[m].phase # "completed", part' = part,
         \A n \in Migrations \ {m} : mig'[n].phase = mig[n].phase
  PROVE  /\ \A p \in Participants : (Clean(p) => Clean(p)') /\ (Involved(p, m) => Involved(p, m)')
         /\ AllClean => AllClean'
<1>1. ASSUME NEW p \in Participants
      PROVE  (Clean(p) => Clean(p)') /\ (Involved(p, m) => Involved(p, m)')
  <2>1. part[p].on \in Migrations \cup {None}
    BY DEF IInv, RestOK, Parts, MaybeMigration
  <2>2. Settled(p, part[p].on) => Settled(p, part[p].on)'
    BY <2>1 DEF Settled
  <2> QED
    BY <2>2 DEF Clean, Involved
<1> QED
  BY <1>1 DEF AllClean

LEMMA StaysPolled ==
  ASSUME Polled, NEW m \in Migrations, \A n \in Migrations \ {m} : mig'[n] = mig[n],
         Voters(m)' \in {{}, Participants}
  PROVE  Polled'
<1>1. \A n \in Migrations \ {m} : Voters(n)' = Voters(n)
  BY DEF Voters
<1> QED
  BY <1>1 DEF Polled

LEMMA SameVoters ==
  ASSUME NEW m, \A p \in Participants : mig'[m].votes[p] = "absent" <=> mig[m].votes[p] = "absent"
  PROVE  Voters(m)' = Voters(m)
BY DEF Voters

LEMMA PhaseIs ==
  ASSUME MigOK, NEW m \in Migrations, NEW x, mig' = [mig EXCEPT ![m].phase = x]
  PROVE  /\ mig'[m].phase = x /\ Voters(m)' = Voters(m)
         /\ \A n \in Migrations \ {m} : mig'[n] = mig[n]
<1>1. /\ mig'[m].phase = x /\ mig'[m].votes = mig[m].votes
      /\ \A n \in Migrations \ {m} : mig'[n] = mig[n]
  BY DEF MigOK, Migs
<1> QED
  BY <1>1, SameVoters

LEMMA PcIs ==
  ASSUME ThreadOK, NEW t \in Threads, NEW x, GoTo(t, x)
  PROVE  /\ thread'[t].pc = x /\ thread'[t].mig = thread[t].mig /\ thread'[t].failed = thread[t].failed
         /\ \A u \in Threads \ {t} : thread'[u] = thread[u]
BY DEF ThreadOK, GoTo, Workers

\* Nobody else learns of a migration that is about to begin.
LEMMA StaysReserved ==
  ASSUME Reserved, ThreadOK,
         \A u \in Threads : thread'[u].pc = "begin" =>
           /\ thread[u].pc = "begin" /\ thread'[u].mig = thread[u].mig
           /\ mig'[thread[u].mig].phase = mig[thread[u].mig].phase,
         \A u \in Threads : \/ thread'[u].mig \in {thread[u].mig, None}
                            \/ mig[thread'[u].mig].phase # "unknown"
  PROVE  Reserved'
<1> SUFFICES ASSUME NEW t \in Threads, thread'[t].pc = "begin"
             PROVE  /\ mig'[thread'[t].mig].phase = "unknown"
                    /\ \A u \in Threads \ {t} : thread'[u].mig # thread'[t].mig
  BY DEF Reserved
<1>1. /\ thread[t].pc = "begin" /\ thread'[t].mig = thread[t].mig
      /\ mig'[thread[t].mig].phase = mig[thread[t].mig].phase
  OBVIOUS
<1>2. mig[thread[t].mig].phase = "unknown" /\ \A u \in Threads \ {t} : thread[u].mig # thread[t].mig
  BY <1>1 DEF Reserved
<1>3. thread[t].mig # None
  BY <1>1, NoneIsNoMigration DEF ThreadOK, WorkOK
<1> QED
  BY <1>1, <1>2, <1>3

\* The same for a goroutine that works on m and goes on.
LEMMA WorkerReserved ==
  ASSUME IInv, Reserved, NEW t \in Threads, thread[t].pc # "begin", thread'[t].pc # "begin",
         \A u \in Threads \ {t} : thread'[u].pc = thread[u].pc /\ thread'[u].mig = thread[u].mig,
         thread'[t].mig \in {thread[t].mig, None},
         \A n \in Migrations : n # thread[t].mig => mig'[n].phase = mig[n].phase
  PROVE  Reserved'
<1>1. \A u \in Threads : thread'[u].pc = "begin" =>
        /\ thread[u].pc = "begin" /\ thread'[u].mig = thread[u].mig
        /\ thread[u].mig \in Migrations /\ thread[u].mig # thread[t].mig
  BY DEF Reserved, IInv, ThreadOK, WorkOK
<1> QED
  BY <1>1, StaysReserved DEF IInv


-----------------------------------------------------------------------------
\* StartMigration, RetryMigration, AbortMigration.  What begins while calm lasts
\* finds nobody at work, no call, and everything clean.
LEMMA NoOverlap ==
  ASSUME IInv, Orderly, NEW t \in Threads, ~Working(t), ~Overlaps(t)
  PROVE  calls = {} /\ AllClean /\ \A u \in Threads : thread[u].pc \in {"idle", "begin", "retry"}
BY DEF Overlaps, Working, Orderly, Rested, Checked

\* A goroutine that does no work before or after the step, and no change but its own.
LEMMA Beside ==
  ASSUME IInv, Orderly, NEW t \in Threads, ~Working(t), ~Working(t)',
         \A u \in Threads \ {t} : thread'[u] = thread[u], UNCHANGED <<mig, calls, part>>
  PROVE  Orderly'
<1>1. \A u \in Threads : Working(u)' <=> Working(u)
  BY DEF Working
<1>2. Solo'
  BY <1>1 DEF Orderly, Solo
<1>3. OwnCalls'
  <2>1. \A c \in calls : c.by \in Threads \ {t}
    BY CallFields DEF IInv, RestOK, AllCalls, Orderly, OwnCalls, Working
  <2> QED
    BY <2>1 DEF Orderly, OwnCalls
<1>4. Polled' /\ (AllClean <=> AllClean')
  BY DEF Orderly, Polled, Voters, AllClean, Clean, Settled
<1>5. Rested'
  BY <1>1, <1>4 DEF Orderly, Rested
<1>6. ASSUME NEW u \in Threads, Working(u)'
      PROVE  Stage(u, thread[u].mig, thread[u].pc)'
  <2>1. u # t
    BY <1>6
  <2>2. PICK n, x : n = thread[u].mig /\ x = thread[u].pc
    OBVIOUS
  <2>3. Stage(u, n, x) /\ thread'[u] = thread[u]
    BY <1>1, <1>6, <2>1, <2>2 DEF Orderly, Stages
  <2>4. AllInvolved(n)' <=> AllInvolved(n)
    BY DEF AllInvolved, Involved, Settled, Voters
  <2>5. \A p \in Participants : /\ Involved(p, n)' <=> Involved(p, n)
                                /\ Committing(u, n, p)' <=> Committing(u, n, p)
                                /\ Aborting(u, n, p)' <=> Aborting(u, n, p)
    BY <2>3 DEF Committing, Aborting, Clean, Involved, Settled
  <2>6. Stage(u, n, x)'
    BY <1>4, <2>3, <2>4, <2>5 DEF Stage
  <2> QED
    BY <2>2, <2>3, <2>6
<1> QED
  BY <1>2, <1>3, <1>4, <1>5, <1>6 DEF Orderly, Stages

LEMMA CheckAlone ==
  ASSUME IInv, Reserved, Alone, NEW t \in Threads, NEW m \in Migrations, Check(t, m)
  PROVE  Reserved' /\ Alone'
<1> DEFINE k == [Idle EXCEPT !.mig = m, !.pc = "begin"]
<1>1. k.mig = m /\ k.pc = "begin"
  BY DEF Idle
<1>2. /\ thread' = [thread EXCEPT ![t] = k] /\ UNCHANGED <<mig, holder, calls, part, up, interruptions, calm>>
      /\ mig[m].phase = "unknown" /\ \A u \in Threads : thread[u].mig # m
      /\ thread[t].pc = "idle"
  BY DEF Check, Free
<1> HIDE DEF k
<1>3. thread'[t] = k /\ \A u \in Threads \ {t} : thread'[u] = thread[u]
  BY <1>2 DEF IInv, ThreadOK
<1>4. Reserved'
  BY <1>1, <1>2, <1>3 DEF Reserved
<1>5. ~Working(t) /\ ~Working(t)'
  BY <1>1, <1>2, <1>3 DEF Working
<1> QED
  BY <1>2, <1>3, <1>4, <1>5, Beside DEF Alone

LEMMA CheckRetryAlone ==
  ASSUME IInv, Reserved, Alone, NEW t \in Threads, NEW m \in Migrations, CheckRetry(t, m)
  PROVE  Reserved' /\ Alone'
<1> DEFINE k == [Idle EXCEPT !.mig = m, !.pc = "retry"]
<1>1. k.mig = m /\ k.pc = "retry"
  BY DEF Idle
<1>2. /\ thread' = [thread EXCEPT ![t] = k] /\ UNCHANGED <<mig, holder, calls, part, up, interruptions, calm>>
      /\ mig[m].phase = "aborted" /\ thread[t].pc = "idle"
  BY DEF CheckRetry, Free
<1> HIDE DEF k
<1>3. thread'[t] = k /\ \A u \in Threads \ {t} : thread'[u] = thread[u]
  BY <1>2 DEF IInv, ThreadOK
<1>4. Reserved'
  BY <1>1, <1>2, <1>3, StaysReserved DEF IInv
<1>5. ~Working(t) /\ ~Working(t)'
  BY <1>1, <1>2, <1>3 DEF Working
<1> QED
  BY <1>2, <1>3, <1>4, <1>5, Beside DEF Alone

LEMMA RefuseAlone ==
  ASSUME IInv, Reserved, Alone, NEW t \in Threads, Refuse(t)
  PROVE  Reserved' /\ Alone'
<1>1. /\ thread' = [thread EXCEPT ![t] = Idle] /\ UNCHANGED <<mig, holder, calls, part, up, interruptions, calm>>
      /\ thread[t].pc = "begin"
  BY DEF Refuse, At
<1>2. thread'[t] = Idle /\ (\A u \in Threads \ {t} : thread'[u] = thread[u]) /\ Idle.mig = None /\ Idle.pc = "idle"
  BY <1>1 DEF IInv, ThreadOK, Idle
<1>3. Reserved'
  BY <1>1, <1>2, StaysReserved DEF IInv
<1>4. ~Working(t) /\ ~Working(t)'
  BY <1>1, <1>2 DEF Working
<1> QED
  BY <1>1, <1>2, <1>3, <1>4, Beside DEF Alone

LEMMA BeginAlone ==
  ASSUME IInv, Reserved, Alone, NEW t \in Threads, Begin(t)
  PROVE  Reserved' /\ Alone'
<1>1. PICK m : m = thread[t].mig
  OBVIOUS
<1>2. thread[t].pc = "begin" /\ m \in Migrations
  BY <1>1, Works DEF Begin, At, IInv
<1>3. mig[m].phase = "unknown" /\ \A u \in Threads \ {t} : thread[u].mig # m
  BY <1>1, <1>2 DEF Reserved
<1>4. /\ mig' = [mig EXCEPT ![m] = NotStarted("idle")]
      /\ thread' = [thread EXCEPT ![t].pc = "start", ![t].locked = TRUE]
      /\ calm' = (calm /\ ~Overlaps(t)) /\ UNCHANGED <<calls, part, up, interruptions>>
  BY <1>1 DEF Begin
<1>5. thread'[t].pc = "start" /\ thread'[t].mig = m /\ \A u \in Threads \ {t} : thread'[u] = thread[u]
  BY <1>1, <1>4 DEF IInv, ThreadOK, Workers
<1>6. mig'[m] = NotStarted("idle") /\ \A n \in Migrations \ {m} : mig'[n] = mig[n]
  BY <1>2, <1>4 DEF IInv, MigOK
<1>7. mig'[m].phase = "idle" /\ Voters(m)' = {}
  BY <1>6 DEF NotStarted, Voters
<1>8. Reserved'
  <2>1. \A u \in Threads : thread'[u].pc = "begin" =>
          /\ thread[u].pc = "begin" /\ thread'[u].mig = thread[u].mig
          /\ mig'[thread[u].mig].phase = mig[thread[u].mig].phase
    BY <1>3, <1>5, <1>6, Works DEF IInv
  <2> QED
    BY <1>1, <1>5, <2>1, StaysReserved DEF IInv
<1>9. ASSUME Orderly, ~Overlaps(t)
      PROVE  Orderly'
  <2>1. calls = {} /\ AllClean /\ \A u \in Threads : thread[u].pc \in {"idle", "begin", "retry"}
    BY <1>2, <1>9, NoOverlap DEF Working
  <2>2. AllClean'
    BY <1>2, <1>3, <1>4, <1>6, <2>1, Keeps
  <2>3. Polled'
    BY <1>2, <1>6, <1>7, <1>9, StaysPolled DEF Orderly
  <2>4. Stage(t, m, "start")'
    BY <1>7, <2>2 DEF Stage, AllClean, Clean, Involved
  <2> QED
    BY <1>4, <1>5, <2>1, <2>3, <2>4, OneWorks
<1> QED
  BY <1>4, <1>8, <1>9 DEF Alone

\* RetryMigration does not look at the phase again: the migration may have been
\* retried and completed since, and what is switched is then its own.
LEMMA RetryAlone ==
  ASSUME IInv, Reserved, Alone, NEW t \in Threads, RetryMigration(t)
  PROVE  Reserved' /\ Alone'
<1>1. PICK m : m = thread[t].mig
  OBVIOUS
<1>2. /\ thread[t].pc = "retry" /\ GoTo(t, "start") /\ mig' = [mig EXCEPT ![m] = Retried(m)]
      /\ calm' = (calm /\ ~Overlaps(t)) /\ UNCHANGED <<calls, part>>
  BY <1>1 DEF RetryMigration, At
<1>3. m \in Migrations
  BY <1>1, <1>2, Works DEF IInv
<1>4. /\ thread'[t].pc = "start" /\ thread'[t].mig = m
      /\ \A u \in Threads \ {t} : thread'[u] = thread[u]
  BY <1>1, <1>2, PcIs DEF IInv
<1>5. mig'[m] = Retried(m) /\ \A n \in Migrations \ {m} : mig'[n] = mig[n]
  BY <1>2, <1>3 DEF IInv, MigOK
<1>6. mig'[m].phase = "idle" /\ Voters(m)' = Voters(m)
  BY <1>5 DEF Retried, Voters
<1>7. Reserved'
  BY <1>1, <1>2, <1>4, <1>5, WorkerReserved
<1>8. ASSUME Orderly, ~Overlaps(t)
      PROVE  Orderly'
  <2>1. calls = {} /\ AllClean /\ \A u \in Threads : thread[u].pc \in {"idle", "begin", "retry"}
    BY <1>2, <1>8, NoOverlap DEF Working
  <2>2. ASSUME NEW p \in Participants PROVE Involved(p, m)'
    <3>1. part[p].on \in Migrations \cup {None} /\ Clean(p)
      BY <2>1 DEF IInv, RestOK, Parts, MaybeMigration, AllClean
    <3>2. part[p].on # m => Settled(p, part[p].on)'
      BY <1>2, <1>5, <3>1 DEF Clean, Settled
    <3> QED
      BY <1>2, <3>1, <3>2 DEF Clean, Involved
  <2>3. Polled'
    BY <1>3, <1>5, <1>6, <1>8, StaysPolled DEF Orderly, Polled
  <2>4. Stage(t, m, "start")'
    BY <1>6, <2>2 DEF Stage
  <2> QED
    BY <1>2, <1>4, <2>1, <2>3, <2>4, OneWorks
<1> QED
  BY <1>2, <1>7, <1>8 DEF Alone

LEMMA AbortMigrationAlone ==
  ASSUME IInv, Reserved, Alone, NEW t \in Threads, NEW m \in Migrations, AbortMigration(t, m)
  PROVE  Reserved' /\ Alone'
<1>1. /\ thread[t].pc = "idle" /\ mig[m].phase \notin {"unknown", "completed"}
      /\ thread' = [thread EXCEPT ![t] = [Idle EXCEPT !.mig = m, !.pc = "fail"]]
      /\ calm' = (calm /\ ~Overlaps(t)) /\ UNCHANGED <<mig, calls, part>>
  BY DEF AbortMigration, Free, Active
<1>2. thread'[t].pc = "fail" /\ thread'[t].mig = m /\ \A u \in Threads \ {t} : thread'[u] = thread[u]
  BY <1>1 DEF IInv, ThreadOK, Idle
<1>3. Reserved'
  BY <1>1, <1>2, StaysReserved DEF IInv
<1>4. ASSUME Orderly, ~Overlaps(t)
      PROVE  Orderly'
  <2>1. calls = {} /\ AllClean /\ \A u \in Threads : thread[u].pc \in {"idle", "begin", "retry"}
    BY <1>1, <1>4, NoOverlap DEF Working
  <2>2. AllClean' /\ Polled'
    BY <1>1, <1>4, <2>1 DEF AllClean, Clean, Settled, Orderly, Polled, Voters
  <2>3. Stage(t, m, "fail")'
    BY <1>1, <2>2 DEF Stage
  <2> QED
    BY <1>1, <1>2, <2>1, <2>2, <2>3, OneWorks
<1> QED
  BY <1>1, <1>3, <1>4 DEF Alone


-----------------------------------------------------------------------------
\* A goroutine that works goes on: what its next phase needs is that its calls are
\* of that phase and that the participants are as the phase has them.
LEMMA MovesOn ==
  ASSUME IInv, Reserved, NEW t \in Threads, NEW m, NEW y \in Pcs \ {"idle", "begin", "retry"},
         thread[t].mig = m, Working(t), GoTo(t, y), \A n \in Migrations \ {m} : mig'[n] = mig[n]
  PROVE  /\ Reserved' /\ m \in Migrations
         /\ thread'[t].mig = m /\ thread'[t].pc = y /\ thread'[t].failed = thread[t].failed
         /\ \A u \in Threads \ {t} : thread'[u] = thread[u]
<1>1. /\ thread'[t].mig = m /\ thread'[t].pc = y /\ thread'[t].failed = thread[t].failed
      /\ \A u \in Threads \ {t} : thread'[u] = thread[u]
  BY PcIs DEF IInv
<1>2. m \in Migrations
  BY Works DEF IInv, Working
<1>3. Reserved'
  BY <1>1, WorkerReserved DEF Working
<1> QED
  BY <1>1, <1>2, <1>3

LEMMA MovesOnAlone ==
  ASSUME IInv, Reserved, Alone, NEW t \in Threads, NEW m, NEW y \in Pcs \ {"idle", "begin", "retry"},
         thread[t].mig = m, Working(t), GoTo(t, y), \A n \in Migrations \ {m} : mig'[n] = mig[n],
         calm' => calm,
         calm' /\ Orderly => /\ Voters(m)' \in {{}, Participants}
                             /\ \A c \in calls' : c.by = t /\ c.mig = m /\ c.what = y
                             /\ Stage(t, m, y)'
  PROVE  Reserved' /\ Alone'
<1>1. /\ Reserved' /\ m \in Migrations
      /\ thread'[t].mig = m /\ thread'[t].pc = y
      /\ \A u \in Threads \ {t} : thread'[u] = thread[u]
  BY MovesOn
<1>2. ASSUME calm', Orderly
      PROVE  Orderly'
  <2>1. \A u \in Threads \ {t} : thread'[u].pc \in {"idle", "begin", "retry"}
    BY <1>1, <1>2, OnlyWorker
  <2>2. Polled'
    BY <1>1, <1>2, StaysPolled DEF Orderly
  <2> QED
    BY <1>1, <1>2, <2>1, <2>2, OneWorks
<1> QED
  BY <1>1, <1>2 DEF Alone

\* What is known of a goroutine that is at pc with m, as long as calm lasts.
LEMMA AtWork ==
  ASSUME IInv, NEW t \in Threads, NEW m, NEW pc, thread[t].mig = m, thread[t].pc = pc, pc \notin {"idle", "begin", "retry"}
  PROVE  /\ Working(t) /\ m \in Migrations
         /\ Orderly => /\ \A c \in calls : c.by = t /\ c.mig = m /\ c.what = pc
                       /\ Stage(t, m, pc)
                       /\ Voters(m) \in {{}, Participants}
<1>1. Working(t) /\ m \in Migrations
  BY Works DEF IInv, Working
<1> QED
  BY <1>1, OnlyWorker DEF Orderly, Polled

\* The calls that a goroutine has, when none of them is of a kind there is.
LEMMA NoCalls ==
  ASSUME IInv, NEW x, x \notin {"prepare", "commit", "abort"}, \A c \in calls : c.what = x
  PROVE  calls = {}
BY DEF IInv, RestOK, AllCalls

LEMMA StartPrepareAlone ==
  ASSUME IInv, Reserved, Alone, NEW t \in Threads, StartPrepare(t)
  PROVE  Reserved' /\ Alone'
<1>1. PICK m, v : m = thread[t].mig /\ v = IF Voters(m) # {} THEN mig[m].votes ELSE [p \in Participants |-> "pending"]
  OBVIOUS
<1>2. /\ thread[t].pc = "start" /\ GoTo(t, "prepare")
      /\ mig' = [mig EXCEPT ![m].phase = "prepare", ![m].votes = v]
      /\ calls' = calls \cup {Call("prepare", m, p, t) : p \in Participants}
      /\ UNCHANGED <<part, calm>>
  BY <1>1 DEF StartPrepare, At
<1>3. /\ Working(t) /\ m \in Migrations
      /\ Orderly => /\ \A c \in calls : c.by = t /\ c.mig = m /\ c.what = "start"
                    /\ Stage(t, m, "start") /\ Voters(m) \in {{}, Participants}
  BY <1>1, <1>2, AtWork
<1>4. mig'[m].phase = "prepare" /\ mig'[m].votes = v /\ \A n \in Migrations \ {m} : mig'[n] = mig[n]
  BY <1>2, <1>3 DEF IInv, MigOK, Migs
<1>5. ASSUME Orderly
      PROVE  /\ Voters(m)' = Participants
             /\ \A c \in calls' : c.by = t /\ c.mig = m /\ c.what = "prepare"
             /\ Stage(t, m, "prepare")'
  <2>1. calls = {}
    BY <1>3, <1>5, NoCalls
  <2>2. Voters(m)' = Participants
    <3>1. CASE Voters(m) = {}
      BY <1>1, <1>4, <3>1 DEF Voters
    <3>2. CASE Voters(m) = Participants /\ Participants # {}
      BY <1>1, <1>4, <3>2, SameVoters
    <3> QED
      BY <1>3, <1>5, <3>1, <3>2
  <2>3. \A p \in Participants : Involved(p, m)'
    <3>1. mig[m].phase # "completed" /\ \A p \in Participants : Involved(p, m)
      BY <1>3, <1>5 DEF Stage
    <3> QED
      BY <1>2, <1>3, <1>4, <3>1, Keeps
  <2>4. Stage(t, m, "prepare")'
    BY <1>4, <2>2, <2>3 DEF Stage, AllInvolved
  <2> QED
    BY <1>2, <2>1, <2>2, <2>4 DEF Call
<1> QED
  BY <1>1, <1>2, <1>3, <1>4, <1>5, MovesOnAlone DEF Pcs

\* The votes are in, or did not come in time: nothing changes at the participants.
LEMMA PrepareEnds ==
  ASSUME IInv, Reserved, Alone, NEW t \in Threads, NEW m, NEW y \in {"voted", "fail"},
         m = thread[t].mig, thread[t].pc = "prepare", GoTo(t, y),
         mig'[m].phase = mig[m].phase, Voters(m)' = Voters(m),
         \A n \in Migrations \ {m} : mig'[n] = mig[n],
         UNCHANGED <<calls, part>>, calm' = (calm /\ Waiting(t, "prepare") = {})
  PROVE  Reserved' /\ Alone'
<1>1. /\ Working(t) /\ m \in Migrations
      /\ Orderly => /\ \A c \in calls : c.by = t /\ c.mig = m /\ c.what = "prepare"
                    /\ Stage(t, m, "prepare") /\ Voters(m) \in {{}, Participants}
  BY AtWork
<1>2. ASSUME Orderly, calm'
      PROVE  /\ Voters(m)' \in {{}, Participants}
             /\ \A c \in calls' : c.by = t /\ c.mig = m /\ c.what = y
             /\ Stage(t, m, y)'
  <2>1. calls = {}
    BY <1>1, <1>2 DEF Waiting
  <2>2. \A p \in Participants : Involved(p, m)'
    BY <1>1, <1>2, Keeps DEF Stage, AllInvolved
  <2> QED
    BY <1>1, <1>2, <2>1, <2>2 DEF Stage, AllInvolved
<1> QED
  BY <1>1, <1>2, MovesOnAlone DEF Pcs

LEMMA CollectVotesAlone ==
  ASSUME IInv, Reserved, Alone, NEW t \in Threads, CollectVotes(t)
  PROVE  Reserved' /\ Alone'
<1>1. PICK m, x : m = thread[t].mig /\ x = Consensus(m)
  OBVIOUS
<1>2. /\ thread[t].pc = "prepare" /\ Waiting(t, "prepare") = {} /\ GoTo(t, IF x = "yes" THEN "voted" ELSE "fail")
      /\ mig' = [mig EXCEPT ![m].consensus = x] /\ UNCHANGED <<calls, part, calm>>
  BY <1>1 DEF CollectVotes, At
<1>3. m \in Migrations
  BY <1>1, <1>2, Works DEF IInv
<1>4. mig'[m].phase = mig[m].phase /\ mig'[m].votes = mig[m].votes /\ \A n \in Migrations \ {m} : mig'[n] = mig[n]
  BY <1>2, <1>3 DEF IInv, MigOK, Migs
<1>5. Voters(m)' = Voters(m)
  BY <1>4, SameVoters
<1> QED
  BY <1>1, <1>2, <1>4, <1>5, PrepareEnds DEF IInv, RestOK

LEMMA PrepareTimeoutAlone ==
  ASSUME IInv, Reserved, Alone, NEW t \in Threads, PrepareTimeout(t)
  PROVE  Reserved' /\ Alone'
<1>1. PICK m : m = thread[t].mig
  OBVIOUS
<1>2. /\ thread[t].pc = "prepare" /\ GoTo(t, "fail") /\ UNCHANGED <<calls, part>>
      /\ calm' = (calm /\ Waiting(t, "prepare") = {})
      /\ mig' = [mig EXCEPT ![m].votes = [p \in Participants |-> IF @[p] = "pending" THEN "timeout" ELSE @[p]]]
  BY <1>1 DEF PrepareTimeout, At
<1>3. m \in Migrations
  BY <1>1, <1>2, Works DEF IInv
<1>4. /\ mig'[m].phase = mig[m].phase /\ \A n \in Migrations \ {m} : mig'[n] = mig[n]
      /\ mig'[m].votes = [p \in Participants |-> IF mig[m].votes[p] = "pending" THEN "timeout" ELSE mig[m].votes[p]]
  BY <1>2, <1>3 DEF IInv, MigOK, Migs
<1>5. Voters(m)' = Voters(m)
  BY <1>4, SameVoters
<1> QED
  BY <1>1, <1>2, <1>4, <1>5, PrepareEnds

LEMMA StartCommitAlone ==
  ASSUME IInv, Reserved, Alone, NEW t \in Threads, StartCommit(t)
  PROVE  Reserved' /\ Alone'
<1>1. PICK m : m = thread[t].mig
  OBVIOUS
<1>2. /\ thread[t].pc = "voted" /\ GoTo(t, "commit") /\ mig' = [mig EXCEPT ![m].phase = "commit"]
      /\ calls' = calls \cup {Call("commit", m, p, t) : p \in Voters(m)}
      /\ UNCHANGED <<part, calm>>
  BY <1>1 DEF StartCommit, At
<1>3. /\ Working(t) /\ m \in Migrations
      /\ Orderly => /\ \A c \in calls : c.by = t /\ c.mig = m /\ c.what = "voted"
                    /\ Stage(t, m, "voted") /\ Voters(m) \in {{}, Participants}
  BY <1>1, <1>2, AtWork
<1>4. mig'[m].phase = "commit" /\ Voters(m)' = Voters(m) /\ \A n \in Migrations \ {m} : mig'[n] = mig[n]
  BY <1>2, <1>3, PhaseIs DEF IInv
<1>5. ASSUME Orderly
      PROVE  /\ Voters(m)' = Participants
             /\ \A c \in calls' : c.by = t /\ c.mig = m /\ c.what = "commit"
             /\ Stage(t, m, "commit")'
  <2>1. calls = {}
    BY <1>3, <1>5, NoCalls
  <2>2. mig[m].phase # "completed" /\ Voters(m) = Participants /\ \A p \in Participants : Involved(p, m)
    BY <1>3, <1>5 DEF Stage, AllInvolved
  <2>3. \A p \in Participants : Involved(p, m)'
    BY <1>2, <1>3, <1>4, <2>2, Keeps
  <2>4. \A p \in Participants : Call("commit", m, p, t) \in calls'
    BY <1>2, <2>2
  <2>5. Stage(t, m, "commit")'
    BY <1>4, <2>2, <2>3, <2>4 DEF Stage, AllInvolved, Committing
  <2> QED
    BY <1>2, <1>4, <2>1, <2>2, <2>5 DEF Call
<1> QED
  BY <1>1, <1>2, <1>3, <1>4, <1>5, MovesOnAlone DEF Pcs

\* LoseConsensus, CommitFailed, CommitTimeout: the abort is still to come.
LEMMA FailAlone ==
  ASSUME IInv, Reserved, Alone, NEW t \in Threads, LoseConsensus(t) \/ CommitFailed(t) \/ CommitTimeout(t)
  PROVE  Reserved' /\ Alone'
<1>1. PICK m, pc : m = thread[t].mig /\ pc = thread[t].pc
  OBVIOUS
<1>2. /\ pc \in {"voted", "commit"} /\ GoTo(t, "fail") /\ UNCHANGED <<mig, calls, part>>
      /\ calm' => calm /\ (pc = "commit" => Waiting(t, "commit") = {})
  <2>1. CASE LoseConsensus(t)
    BY <1>1, <2>1 DEF LoseConsensus, At
  <2>2. CASE CommitFailed(t)
    BY <1>1, <2>2 DEF CommitFailed, At
  <2>3. CASE CommitTimeout(t)
    BY <1>1, <2>3 DEF CommitTimeout, At
  <2> QED
    BY <2>1, <2>2, <2>3
<1>3. /\ Working(t) /\ m \in Migrations
      /\ Orderly => /\ \A c \in calls : c.by = t /\ c.mig = m /\ c.what = pc
                    /\ Stage(t, m, pc) /\ Voters(m) \in {{}, Participants}
  BY <1>1, <1>2, AtWork
<1>4. Voters(m)' = Voters(m)
  BY <1>2, SameVoters
<1>5. ASSUME Orderly, calm'
      PROVE  /\ Voters(m)' \in {{}, Participants}
             /\ \A c \in calls' : c.by = t /\ c.mig = m /\ c.what = "fail"
             /\ Stage(t, m, "fail")'
  <2>1. calls = {}
    <3>1. CASE pc = "voted"
      BY <1>3, <1>5, <3>1, NoCalls
    <3>2. CASE pc = "commit"
      BY <1>2, <1>3, <1>5, <3>2 DEF Waiting
    <3> QED
      BY <1>2, <3>1, <3>2
  <2>2. mig[m].phase # "completed" /\ Voters(m) = Participants /\ \A p \in Participants : Involved(p, m)
    BY <1>2, <1>3, <1>5 DEF Stage, AllInvolved
  <2>3. \A p \in Participants : Involved(p, m)'
    BY <1>2, <1>3, <2>2, Keeps
  <2> QED
    BY <1>2, <1>4, <2>1, <2>2, <2>3 DEF Stage, AllInvolved
<1> QED
  BY <1>1, <1>2, <1>3, <1>5, MovesOnAlone DEF Pcs

\* completeMigration: no call is left and none has failed, so that every participant
\* has gone over.
LEMMA WholeCommit ==
  ASSUME IInv, Orderly, NEW t \in Threads, Complete(t)
  PROVE  \A p \in Participants : part[p].on = thread[t].mig /\ part[p].tx = None
<1>1. PICK m : m = thread[t].mig
  OBVIOUS
<1>2. thread[t].pc = "commit" /\ Waiting(t, "commit") = {} /\ ~thread[t].failed
  BY DEF Complete, At
<1>3. Stage(t, m, "commit")
  BY <1>1, <1>2, AtWork
<1>4. \A p \in Participants : Call("commit", m, p, t) \notin calls
  BY <1>2 DEF Waiting, Call
<1> QED
  BY <1>1, <1>2, <1>3, <1>4 DEF Stage, Committing

LEMMA CompleteAlone ==
  ASSUME IInv, Reserved, Alone, NEW t \in Threads, Complete(t)
  PROVE  Reserved' /\ Alone'
<1>1. PICK m : m = thread[t].mig
  OBVIOUS
<1>2. /\ thread[t].pc = "commit" /\ GoTo(t, "release") /\ mig' = [mig EXCEPT ![m].phase = "completed"]
      /\ Waiting(t, "commit") = {} /\ UNCHANGED <<calls, part, calm>>
  BY <1>1 DEF Complete, At
<1>3. /\ Working(t) /\ m \in Migrations
      /\ Orderly => /\ \A c \in calls : c.by = t /\ c.mig = m /\ c.what = "commit"
                    /\ Stage(t, m, "commit") /\ Voters(m) \in {{}, Participants}
  BY <1>1, <1>2, AtWork
<1>4. mig'[m].phase = "completed" /\ Voters(m)' = Voters(m) /\ \A n \in Migrations \ {m} : mig'[n] = mig[n]
  BY <1>2, <1>3, PhaseIs DEF IInv
<1>5. ASSUME Orderly
      PROVE  /\ Voters(m)' \in {{}, Participants}
             /\ \A c \in calls' : c.by = t /\ c.mig = m /\ c.what = "release"
             /\ Stage(t, m, "release")'
  <2>1. calls = {}
    BY <1>2, <1>3, <1>5 DEF Waiting
  <2>2. \A p \in Participants : part[p].on = m /\ part[p].tx = None
    BY <1>1, <1>5, WholeCommit
  <2>3. AllClean'
    BY <1>2, <1>4, <2>2 DEF AllClean, Clean, Settled
  <2> QED
    BY <1>2, <1>3, <1>4, <1>5, <2>1, <2>3 DEF Stage
<1> QED
  BY <1>1, <1>2, <1>3, <1>4, <1>5, MovesOnAlone DEF Pcs

LEMMA StartAbortAlone ==
  ASSUME IInv, Reserved, Alone, NEW t \in Threads, StartAbort(t)
  PROVE  Reserved' /\ Alone'
<1>1. PICK m : m = thread[t].mig
  OBVIOUS
<1>2. /\ thread[t].pc = "fail" /\ GoTo(t, "abort") /\ mig' = [mig EXCEPT ![m].phase = "abort"]
      /\ calls' = calls \cup {Call("abort", m, p, t) : p \in Voters(m)}
      /\ UNCHANGED <<part, calm>>
  BY <1>1 DEF StartAbort, At
<1>3. /\ Working(t) /\ m \in Migrations
      /\ Orderly => /\ \A c \in calls : c.by = t /\ c.mig = m /\ c.what = "fail"
                    /\ Stage(t, m, "fail") /\ Voters(m) \in {{}, Participants}
  BY <1>1, <1>2, AtWork
<1>4. mig'[m].phase = "abort" /\ Voters(m)' = Voters(m) /\ \A n \in Migrations \ {m} : mig'[n] = mig[n]
  BY <1>2, <1>3, PhaseIs DEF IInv
<1>5. ASSUME Orderly
      PROVE  /\ Voters(m)' \in {{}, Participants}
             /\ \A c \in calls' : c.by = t /\ c.mig = m /\ c.what = "abort"
             /\ Stage(t, m, "abort")'
  <2>1. calls = {}
    BY <1>3, <1>5, NoCalls
  <2>2. mig[m].phase # "completed" /\ (AllInvolved(m) \/ AllClean)
    BY <1>3, <1>5 DEF Stage
  <2>3. \A p \in Participants : (Clean(p) => Clean(p)') /\ (Involved(p, m) => Involved(p, m)')
    BY <1>2, <1>3, <1>4, <2>2, Keeps
  <2>4. \A p \in Participants : Aborting(t, m, p)'
    <3>1. CASE AllClean
      BY <2>3, <3>1 DEF AllClean, Aborting
    <3>2. CASE AllInvolved(m)
      <4>1. \A p \in Participants : Call("abort", m, p, t) \in calls'
        BY <1>2, <3>2 DEF AllInvolved
      <4> QED
        BY <2>3, <3>2, <4>1 DEF AllInvolved, Aborting
    <3> QED
      BY <2>2, <3>1, <3>2
  <2>5. Stage(t, m, "abort")'
    BY <1>4, <2>4 DEF Stage
  <2>6. \A c \in calls' : c.by = t /\ c.mig = m /\ c.what = "abort"
    BY <1>2, <2>1 DEF Call
  <2> QED
    BY <1>3, <1>4, <1>5, <2>5, <2>6
<1> QED
  BY <1>1, <1>2, <1>3, <1>4, <1>5, MovesOnAlone DEF Pcs

\* A goroutine stops working: it leaves nobody at work, and everything clean.
LEMMA StopsAlone ==
  ASSUME IInv, Reserved, Alone, NEW t \in Threads, NEW m, m = thread[t].mig, Working(t),
         thread' = [thread EXCEPT ![t] = Idle], \A n \in Migrations \ {m} : mig'[n] = mig[n],
         Voters(m)' = Voters(m), calm' = calm,
         Orderly => calls' = {} /\ AllClean'
  PROVE  Reserved' /\ Alone'
<1>1. thread'[t] = Idle /\ (\A u \in Threads \ {t} : thread'[u] = thread[u]) /\ Idle.mig = None /\ Idle.pc = "idle"
  BY DEF IInv, ThreadOK, Idle
<1>2. m \in Migrations
  BY Works DEF IInv, Working
<1>3. Reserved'
  BY <1>1, WorkerReserved DEF Working
<1>4. ASSUME Orderly
      PROVE  Orderly'
  <2>1. \A u \in Threads : thread'[u].pc \in {"idle", "begin", "retry"}
    BY <1>1, <1>4, OnlyWorker
  <2>2. Polled'
    BY <1>2, <1>4, StaysPolled DEF Orderly, Polled
  <2> QED
    BY <1>4, <2>1, <2>2, NobodyWorks
<1> QED
  BY <1>3, <1>4 DEF Alone

LEMMA EndAbortAlone ==
  ASSUME IInv, Reserved, Alone, NEW t \in Threads, EndAbort(t)
  PROVE  Reserved' /\ Alone'
<1>1. PICK m : m = thread[t].mig
  OBVIOUS
<1>2. /\ thread[t].pc = "abort" /\ Waiting(t, "abort") = {} /\ mig' = [mig EXCEPT ![m].phase = "aborted"]
      /\ thread' = [thread EXCEPT ![t] = AfterAbort(t)] /\ UNCHANGED <<calls, part, calm>>
  BY <1>1 DEF EndAbort, At
<1>3. /\ Working(t) /\ m \in Migrations
      /\ Orderly => /\ \A c \in calls : c.by = t /\ c.mig = m /\ c.what = "abort"
                    /\ Stage(t, m, "abort") /\ Voters(m) \in {{}, Participants}
  BY <1>1, <1>2, AtWork
<1>4. mig'[m].phase = "aborted" /\ Voters(m)' = Voters(m) /\ \A n \in Migrations \ {m} : mig'[n] = mig[n]
  BY <1>2, <1>3, PhaseIs DEF IInv
<1>5. ASSUME Orderly
      PROVE  calls' = {} /\ AllClean' /\ Voters(m)' \in {{}, Participants}
  <2>1. calls = {}
    BY <1>2, <1>3, <1>5 DEF Waiting
  <2>2. mig[m].phase # "completed" /\ AllClean
    BY <1>3, <1>5, <2>1 DEF Stage, Aborting, AllClean
  <2> QED
    BY <1>2, <1>3, <1>4, <1>5, <2>1, <2>2, Keeps
<1>6. CASE thread[t].locked
  <2>1. GoTo(t, "release")
    BY <1>2, <1>6 DEF AfterAbort, GoTo, IInv, ThreadOK
  <2>2. ASSUME Orderly
        PROVE  (\A c \in calls' : c.by = t /\ c.mig = m /\ c.what = "release") /\ Stage(t, m, "release")'
    BY <1>5, <2>2 DEF Stage
  <2> QED
    BY <1>1, <1>2, <1>3, <1>4, <1>5, <2>1, <2>2, MovesOnAlone DEF Pcs
<1>7. CASE ~thread[t].locked
  <2>1. thread' = [thread EXCEPT ![t] = Idle]
    BY <1>2, <1>7 DEF AfterAbort
  <2> QED
    BY <1>1, <1>2, <1>3, <1>4, <1>5, <2>1, StopsAlone
<1> QED
  BY <1>6, <1>7

LEMMA ReleaseAlone ==
  ASSUME IInv, Reserved, Alone, NEW t \in Threads, Release(t)
  PROVE  Reserved' /\ Alone'
<1>1. PICK m : m = thread[t].mig
  OBVIOUS
<1>2. thread[t].pc = "release" /\ thread' = [thread EXCEPT ![t] = Idle] /\ UNCHANGED <<mig, calls, part, calm>>
  BY DEF Release, At
<1>3. /\ Working(t) /\ m \in Migrations
      /\ Orderly => /\ \A c \in calls : c.by = t /\ c.mig = m /\ c.what = "release"
                    /\ Stage(t, m, "release")
  BY <1>1, <1>2, AtWork
<1>4. Voters(m)' = Voters(m)
  BY <1>2, SameVoters
<1>5. ASSUME Orderly
      PROVE  calls' = {} /\ AllClean'
  <2>1. calls = {}
    BY <1>3, <1>5, NoCalls
  <2>2. AllClean
    BY <1>3, <1>5 DEF Stage
  <2> QED
    BY <1>2, <2>1, <2>2 DEF AllClean, Clean, Settled
<1> QED
  BY <1>1, <1>2, <1>3, <1>4, <1>5, StopsAlone

-----------------------------------------------------------------------------
\* The participants answer.  The goroutine that called stays where it is, and no
\* phase changes.
SamePhases == \A n \in Migrations : mig'[n].phase = mig[n].phase

LEMMA Untouched ==
  ASSUME IInv, SamePhases, NEW p \in Participants, part'[p] = part[p]
  PROVE  (Clean(p) <=> Clean(p)') /\ \A m \in Migrations : Involved(p, m) <=> Involved(p, m)'
<1>1. part[p].on \in Migrations \cup {None}
  BY DEF IInv, RestOK, Parts, MaybeMigration
<1>2. Settled(p, part[p].on) <=> Settled(p, part[p].on)'
  BY <1>1 DEF Settled, SamePhases
<1> QED
  BY <1>2 DEF Clean, Involved

LEMMA AnswerAlone ==
  ASSUME IInv, Reserved, Alone, NEW c \in calls, calls' = calls \ {c}, calm' = calm, SamePhases,
         \A u \in Threads : thread'[u].pc = thread[u].pc /\ thread'[u].mig = thread[u].mig,
         \A n \in Migrations \ {c.mig} : mig'[n] = mig[n],
         Orderly => Voters(c.mig)' \in {{}, Participants} /\ Stage(c.by, c.mig, c.what)'
  PROVE  Reserved' /\ Alone'
<1>1. c.mig \in Migrations /\ c.by \in Threads
  BY CallFields DEF IInv
<1>2. Reserved'
  <2>1. \A u \in Threads : thread'[u].pc = "begin" => thread[u].mig \in Migrations
    BY Works DEF IInv
  <2> QED
    BY <2>1, StaysReserved DEF IInv, SamePhases
<1>3. ASSUME Orderly
      PROVE  Orderly'
  <2>1. PICK t, m, x : t = c.by /\ m = c.mig /\ x = c.what
    OBVIOUS
  <2>2. x \in {"prepare", "commit", "abort"} /\ thread[t].pc = x /\ thread[t].mig = m
    BY <1>3, <2>1 DEF IInv, RestOK, AllCalls, Orderly, OwnCalls
  <2>3. /\ \A u \in Threads \ {t} : thread[u].pc \in {"idle", "begin", "retry"}
        /\ \A d \in calls : d.by = t /\ d.mig = m /\ d.what = x
    BY <1>1, <1>3, <2>1, <2>2, OnlyWorker DEF Working
  <2>4. Polled'
    BY <1>1, <1>3, StaysPolled DEF Orderly
  <2> QED
    BY <1>1, <1>3, <2>1, <2>2, <2>3, <2>4, OneWorks
<1> QED
  BY <1>2, <1>3 DEF Alone

\* The stage in which a call is under way.
LEMMA StageOfCall ==
  ASSUME IInv, Orderly, NEW c \in calls
  PROVE  /\ c.mig \in Migrations /\ c.to \in Participants /\ c.by \in Threads
         /\ Stage(c.by, c.mig, c.what) /\ mig[c.mig].phase # "completed"
         /\ thread[c.by].pc = c.what /\ thread[c.by].mig = c.mig
<1>1. c.mig \in Migrations /\ c.to \in Participants /\ c.by \in Threads
  BY CallFields DEF IInv
<1>2. c.what \in {"prepare", "commit", "abort"} /\ thread[c.by].pc = c.what /\ thread[c.by].mig = c.mig
  BY DEF IInv, RestOK, AllCalls, Orderly, OwnCalls
<1>3. Stage(c.by, c.mig, c.what)
  BY <1>1, <1>2 DEF Orderly, Stages, Working
<1> QED
  BY <1>1, <1>2, <1>3 DEF Stage

LEMMA PrepareAlone ==
  ASSUME IInv, Reserved, Alone, NEW c \in calls, Prepare(c)
  PROVE  Reserved' /\ Alone'
<1>1. PICK m, p, t : m = c.mig /\ p = c.to /\ t = c.by
  OBVIOUS
<1>2. m \in Migrations /\ p \in Participants /\ t \in Threads
  BY <1>1, CallFields DEF IInv
<1>3. /\ part' = [part EXCEPT ![p] = Accept(p, m)] \/ part' = [part EXCEPT ![p] = Decline(p, m)]
      /\ mig' = [mig EXCEPT ![m].votes[p] = "yes"] /\ c.what = "prepare"
      /\ calls' = calls \ {c} /\ UNCHANGED <<thread, calm>>
  BY <1>1 DEF Prepare
<1>4. /\ SamePhases /\ \A n \in Migrations \ {m} : mig'[n] = mig[n]
      /\ mig'[m].votes = [mig[m].votes EXCEPT ![p] = "yes"] /\ mig[m].votes \in [Participants -> Votes]
  BY <1>2, <1>3 DEF IInv, MigOK, Migs, SamePhases
<1>5. ASSUME Orderly
      PROVE  Voters(m)' = Participants /\ Stage(t, m, "prepare")'
  <2>1. /\ mig[m].phase # "completed" /\ Voters(m) = Participants
        /\ \A q \in Participants : Involved(q, m)
    BY <1>1, <1>3, <1>5, StageOfCall DEF Stage, AllInvolved
  <2>2. Voters(m)' = Participants
    BY <1>2, <1>4, <2>1 DEF Voters
  <2>3. Involved(p, m)'
    <3>1. part[p] \in Parts
      BY <1>2 DEF IInv, RestOK
    <3>2. /\ part'[p].on = part[p].on
          /\ part'[p].tx = part[p].tx \/ (p \in Persistence /\ part'[p].tx = m)
      <4>1. part'[p] = Accept(p, m) \/ part'[p] = Decline(p, m)
        BY <1>2, <1>3 DEF IInv, RestOK
      <4>2. /\ Accept(p, m).on = part[p].on
            /\ Accept(p, m).tx = part[p].tx \/ (p \in Persistence /\ Accept(p, m).tx = m)
        BY <3>1 DEF Accept, Parts
      <4>3. Decline(p, m).on = part[p].on /\ Decline(p, m).tx = part[p].tx
        BY <3>1 DEF Decline, Parts
      <4> QED
        BY <4>1, <4>2, <4>3
    <3>3. part[p].on \in Migrations \cup {None}
      BY <3>1 DEF Parts, MaybeMigration
    <3>4. Settled(p, part[p].on) => Settled(p, part[p].on)'
      BY <1>4, <3>2, <3>3 DEF Settled, SamePhases
    <3> QED
      BY <2>1, <1>2, <3>2, <3>4 DEF Involved
  <2>4. \A q \in Participants \ {p} : Involved(q, m)'
    <3>1. \A q \in Participants \ {p} : part'[q] = part[q]
      BY <1>3 DEF IInv, RestOK
    <3> QED
      BY <1>2, <1>4, <2>1, <3>1, Untouched
  <2>5. Stage(t, m, "prepare")'
    BY <1>2, <1>4, <2>1, <2>2, <2>3, <2>4 DEF Stage, AllInvolved, SamePhases
  <2> QED
    BY <2>2, <2>5
<1> QED
  BY <1>1, <1>3, <1>4, <1>5, AnswerAlone

\* A call of the commit returns: it has failed, or the participant has gone over.
LEMMA CommitReturns ==
  ASSUME IInv, Reserved, Alone, NEW c \in calls, NEW failed \in BOOLEAN, c.what = "commit",
         Return(c, failed), \A q \in Participants \ {c.to} : part'[q] = part[q],
         Orderly => Involved(c.to, c.mig)' /\ (failed \/ (part'[c.to].on = c.mig /\ part'[c.to].tx = None))
  PROVE  Reserved' /\ Alone'
<1>1. PICK m, p, t : m = c.mig /\ p = c.to /\ t = c.by
  OBVIOUS
<1>2. m \in Migrations /\ p \in Participants /\ t \in Threads
  BY <1>1, CallFields DEF IInv
<1>3. /\ calls' = calls \ {c} /\ UNCHANGED <<mig, calm>>
      /\ thread' = [thread EXCEPT ![t].failed = @ \/ failed]
  BY <1>1 DEF Return
<1>4. /\ \A u \in Threads : thread'[u].pc = thread[u].pc /\ thread'[u].mig = thread[u].mig
      /\ thread'[t].failed = (thread[t].failed \/ failed)
  BY <1>2, <1>3 DEF IInv, ThreadOK, Workers
<1>5. SamePhases /\ Voters(m)' = Voters(m)
  BY <1>3 DEF SamePhases, Voters
<1>6. ASSUME Orderly
      PROVE  Voters(m)' \in {{}, Participants} /\ Stage(t, m, "commit")'
  <2>1. /\ mig[m].phase # "completed" /\ Voters(m) = Participants
        /\ \A q \in Participants : Involved(q, m) /\ Committing(t, m, q)
    BY <1>1, <1>6, StageOfCall DEF Stage, AllInvolved
  <2>2. \A q \in Participants : Involved(q, m)'
    <3>1. \A q \in Participants \ {p} : Involved(q, m)'
      BY <1>1, <1>2, <1>5, <2>1, Untouched
    <3> QED
      BY <1>1, <1>6, <3>1
  <2>3. ASSUME NEW q \in Participants
        PROVE  Committing(t, m, q)'
    <3>1. CASE q = p
      BY <1>1, <1>4, <1>6, <3>1 DEF Committing
    <3>2. CASE q # p
      <4>1. Call("commit", m, q, t) # c
        BY <1>1, <3>2 DEF Call
      <4> QED
        BY <1>1, <1>3, <1>4, <2>1, <3>2, <4>1 DEF Committing
    <3> QED
      BY <3>1, <3>2
  <2>4. Stage(t, m, "commit")'
    BY <1>3, <1>5, <2>1, <2>2, <2>3 DEF Stage, AllInvolved
  <2> QED
    BY <1>5, <2>1, <2>4
<1> QED
  BY <1>1, <1>3, <1>4, <1>5, <1>6, AnswerAlone

LEMMA CommitSwitchAlone ==
  ASSUME IInv, Reserved, Alone, NEW c \in calls, CommitSwitch(c)
  PROVE  Reserved' /\ Alone'
<1>1. PICK m, p : m = c.mig /\ p = c.to
  OBVIOUS
<1>2. m \in Migrations /\ p \in Participants /\ p \notin Persistence /\ c.what = "commit"
  BY <1>1, CallFields DEF IInv, CommitSwitch
<1>3. PICK failed \in BOOLEAN :
        /\ Return(c, failed)
        /\ \/ part' = [part EXCEPT ![p].on = m]
           \/ part' = part /\ failed
  BY <1>1 DEF CommitSwitch
<1>4. /\ \A q \in Participants \ {p} : part'[q] = part[q]
      /\ part'[p].tx = part[p].tx
      /\ part'[p].on = m \/ (part'[p].on = part[p].on /\ failed)
  BY <1>2, <1>3 DEF IInv, RestOK, Parts
<1>5. ASSUME Orderly
      PROVE  Involved(p, m)' /\ (failed \/ (part'[p].on = m /\ part'[p].tx = None))
  <2>1. Involved(p, m)
    BY <1>1, <1>2, <1>5, StageOfCall DEF Stage, AllInvolved
  <2>2. part'[p].on # m => Settled(p, part[p].on)'
    BY <1>3, <1>4, <2>1 DEF Involved, Settled, Return
  <2>3. part[p].tx = None
    BY <1>2, <2>1 DEF Involved
  <2> QED
    BY <1>2, <1>4, <2>2, <2>3 DEF Involved
<1> QED
  BY <1>1, <1>2, <1>3, <1>4, <1>5, CommitReturns

LEMMA CommitTxAlone ==
  ASSUME IInv, Reserved, Alone, NEW c \in calls, CommitTx(c)
  PROVE  Reserved' /\ Alone'
<1>1. PICK m, p : m = c.mig /\ p = c.to
  OBVIOUS
<1>2. m \in Migrations /\ p \in Participants /\ p \in Persistence /\ c.what = "commit"
  BY <1>1, CallFields DEF IInv, CommitTx
<1>3. PICK failed \in BOOLEAN :
        /\ Return(c, failed)
        /\ \/ part' = [part EXCEPT ![p].tx = None] /\ failed
           \/ part[p].tx # None /\ part' = [part EXCEPT ![p].tx = None, ![p].on = part[p].tx]
           \/ part' = part /\ failed
  BY <1>1 DEF CommitTx
<1>4. /\ \A q \in Participants \ {p} : part'[q] = part[q]
      /\ \/ part'[p].tx \in {part[p].tx, None} /\ failed
         \/ part[p].tx # None /\ part'[p].tx = None /\ part'[p].on = part[p].tx
  BY <1>2, <1>3 DEF IInv, RestOK, Parts
<1>5. ASSUME Orderly
      PROVE  Involved(p, m)' /\ (failed \/ (part'[p].on = m /\ part'[p].tx = None))
  <2>1. Involved(p, m)
    BY <1>1, <1>2, <1>5, StageOfCall DEF Stage, AllInvolved
  <2> QED
    BY <1>2, <1>4, <2>1 DEF Involved, Settled
<1> QED
  BY <1>1, <1>2, <1>3, <1>4, <1>5, CommitReturns

LEMMA AbortPartAlone ==
  ASSUME IInv, Reserved, Alone, NEW c \in calls, AbortPart(c)
  PROVE  Reserved' /\ Alone'
<1>1. PICK m, p, t : m = c.mig /\ p = c.to /\ t = c.by
  OBVIOUS
<1>2. m \in Migrations /\ p \in Participants /\ t \in Threads
  BY <1>1, CallFields DEF IInv
<1>3. /\ part' = [part EXCEPT ![p] = AbortedPart(p, m)] /\ c.what = "abort"
      /\ calls' = calls \ {c} /\ UNCHANGED <<mig, calm>>
      /\ thread' = [thread EXCEPT ![t].failed = @ \/ FALSE]
  BY <1>1 DEF AbortPart, Return
<1>4. \A u \in Threads : thread'[u].pc = thread[u].pc /\ thread'[u].mig = thread[u].mig
  BY <1>3 DEF IInv, ThreadOK, Workers
<1>5. SamePhases /\ Voters(m)' = Voters(m)
  BY <1>3 DEF SamePhases, Voters
<1>6. part'[p] = AbortedPart(p, m) /\ \A q \in Participants \ {p} : part'[q] = part[q]
  BY <1>2, <1>3 DEF IInv, RestOK
<1>7. Clean(p)'
  BY <1>6 DEF AbortedPart, Fresh, Clean, Settled
<1>8. ASSUME Orderly
      PROVE  Voters(m)' \in {{}, Participants} /\ Stage(t, m, "abort")'
  <2>1. mig[m].phase # "completed" /\ \A q \in Participants : Aborting(t, m, q)
    BY <1>1, <1>3, <1>8, StageOfCall DEF Stage
  <2>2. ASSUME NEW q \in Participants
        PROVE  Aborting(t, m, q)'
    <3>1. CASE q = p
      BY <1>7, <3>1 DEF Aborting
    <3>2. CASE q # p
      <4>1. Call("abort", m, q, t) # c
        BY <1>1, <3>2 DEF Call
      <4>2. (Clean(q) <=> Clean(q)') /\ (Involved(q, m) <=> Involved(q, m)')
        BY <1>2, <1>5, <1>6, <3>2, Untouched
      <4> QED
        BY <1>3, <2>1, <4>1, <4>2 DEF Aborting
    <3> QED
      BY <3>1, <3>2
  <2>3. Stage(t, m, "abort")'
    BY <1>3, <2>1, <2>2 DEF Stage
  <2> QED
    BY <1>2, <1>5, <1>8, <2>3 DEF Orderly, Polled
<1> QED
  BY <1>1, <1>3, <1>4, <1>5, <1>8, AnswerAlone

-----------------------------------------------------------------------------
\* The process goes down with whatever was under way, and leaves everything clean.
LEMMA DownAlone ==
  ASSUME IInv, Reserved, Alone, GoDown
  PROVE  Reserved' /\ Alone'
<1>1. /\ thread' = [t \in Threads |-> Idle] /\ calls' = {} /\ calm' = calm
      /\ mig' = [m \in Migrations |-> NotStarted(IF mig[m].phase = "unknown" THEN "unknown" ELSE "idle")]
      /\ part' = [p \in Participants |-> [Fresh EXCEPT !.on = IF p \in Persistence THEN part[p].on ELSE None]]
  BY DEF GoDown
<1>2. \A t \in Threads : thread'[t].pc = "idle"
  BY <1>1 DEF Idle
<1>3. Reserved'
  BY <1>2 DEF Reserved
<1>4. Polled'
  BY <1>1 DEF Polled, Voters, NotStarted
<1>5. AllClean'
  BY <1>1 DEF AllClean, Clean, Settled, Fresh
<1>6. Orderly'
  BY <1>1, <1>2, <1>4, <1>5, NobodyWorks
<1> QED
  BY <1>3, <1>6 DEF Alone

LEMMA NothingAlone ==
  ASSUME Reserved, Alone, UNCHANGED <<mig, thread, calls, part, calm>>
  PROVE  Reserved' /\ Alone'
<1>1. Reserved'
  BY DEF Reserved
<1>2. AllClean' <=> AllClean
  BY DEF AllClean, Clean, Settled
<1>3. \A t \in Threads : Working(t)' <=> Working(t)
  BY DEF Working
<1>4. ASSUME NEW t \in Threads
      PROVE  Stage(t, thread[t].mig, thread[t].pc)' <=> Stage(t, thread[t].mig, thread[t].pc)
  <2>1. PICK m, x : m = thread[t].mig /\ x = thread[t].pc
    OBVIOUS
  <2>2. AllInvolved(m)' <=> AllInvolved(m)
    BY DEF AllInvolved, Involved, Settled, Voters
  <2>3. \A p \in Participants : /\ Involved(p, m)' <=> Involved(p, m)
                                /\ Committing(t, m, p)' <=> Committing(t, m, p)
                                /\ Aborting(t, m, p)' <=> Aborting(t, m, p)
    BY DEF Committing, Aborting, Clean, Involved, Settled
  <2>4. Stage(t, m, x)' <=> Stage(t, m, x)
    BY <1>2, <2>2, <2>3 DEF Stage
  <2> QED
    BY <2>1, <2>4
<1>5. Orderly' <=> Orderly
  <2>1. Solo' <=> Solo
    BY <1>3 DEF Solo
  <2>2. OwnCalls' <=> OwnCalls
    BY DEF OwnCalls
  <2>3. Polled' <=> Polled
    BY DEF Polled, Voters
  <2>4. Rested' <=> Rested
    BY <1>2, <1>3 DEF Rested
  <2>5. Stages' <=> Stages
    BY <1>3, <1>4 DEF Stages
  <2> QED
    BY <2>1, <2>2, <2>3, <2>4, <2>5 DEF Orderly
<1> QED
  BY <1>1, <1>5 DEF Alone

\* The inductive invariant of executions that do not overlap.
CalmInv == IInv /\ Reserved /\ Alone

LEMMA InitAlone == Init => Reserved /\ Alone
<1> SUFFICES ASSUME Init PROVE Reserved /\ Alone
  OBVIOUS
<1>1. thread = [t \in Threads |-> Idle] /\ Idle.pc = "idle" /\ calls = {}
  BY DEF Init, Idle
<1>2. \A t \in Threads : ~Working(t)
  BY <1>1 DEF Working
<1>3. Reserved
  BY <1>1 DEF Reserved
<1>4. Polled
  BY DEF Init, Polled, Voters, NotStarted
<1>5. AllClean
  BY DEF Init, Fresh, AllClean, Clean, Settled
<1> QED
  BY <1>1, <1>2, <1>3, <1>4, <1>5 DEF Alone, Orderly, Solo, OwnCalls, Rested, Stages

LEMMA StaysAlone == CalmInv /\ [Next]_vars => Reserved' /\ Alone'
<1> SUFFICES ASSUME CalmInv, [Next]_vars PROVE Reserved' /\ Alone'
  OBVIOUS
<1> USE DEF CalmInv
<1>1. CASE UNCHANGED vars
  BY <1>1, NothingAlone DEF vars
<1>2. ASSUME NEW t \in Threads, ThreadStep(t) \/ PrepareTimeout(t) \/ CommitTimeout(t)
      PROVE  Reserved' /\ Alone'
  BY <1>2, RefuseAlone, BeginAlone, RetryAlone, StartPrepareAlone, CollectVotesAlone, StartCommitAlone, FailAlone,
     CompleteAlone, StartAbortAlone, EndAbortAlone, ReleaseAlone, PrepareTimeoutAlone DEF ThreadStep
<1>3. ASSUME NEW t \in Threads, NEW m \in Migrations,
             Check(t, m) \/ CheckRetry(t, m) \/ AbortMigration(t, m)
      PROVE  Reserved' /\ Alone'
  BY <1>3, CheckAlone, CheckRetryAlone, AbortMigrationAlone
<1>4. ASSUME NEW c \in calls, Answer(c)
      PROVE  Reserved' /\ Alone'
  BY <1>4, PrepareAlone, CommitSwitchAlone, CommitTxAlone, AbortPartAlone DEF Answer
<1>5. ASSUME NEW c \in calls, Panic(c)
      PROVE  Reserved' /\ Alone'
  BY <1>5, DownAlone DEF Panic
<1>6. CASE Crash
  BY <1>6, DownAlone DEF Crash
<1>7. CASE Restart
  BY <1>7, NothingAlone DEF Restart
<1> QED
  BY <1>1, <1>2, <1>3, <1>4, <1>5, <1>6, <1>7 DEF Next

THEOREM CalmInvariance == Spec => []CalmInv
<1>1. Init => CalmInv
  BY InitOK, InitAlone DEF CalmInv
<1>2. CalmInv /\ [Next]_vars => CalmInv'
  BY Inductive, StaysAlone DEF CalmInv
<1> QED
  BY <1>1, <1>2, PTL DEF Spec

\* When everything has come to an end and nothing overlapped, no database transaction
\* is open and nothing is switched to the new engine but by a migration that
\* completed (Commit and Abort of the participants, abortMigrationInternal).
THEOREM EndsClean == Spec => []NothingLeftBehind
<1>1. CalmInv => NothingLeftBehind
  BY DEF CalmInv, Alone, Orderly, Rested, NothingLeftBehind, Quiet, Working, AllClean, Clean, Settled
<1> QED
  BY <1>1, CalmInvariance, PTL

\* The only step that gives a migration the phase "completed".
LEMMA OnlyComplete ==
  ASSUME IInv, [Next]_vars, NEW m \in Migrations,
         mig[m].phase # "completed", mig'[m].phase = "completed"
  PROVE  \E t \in Threads : Complete(t) /\ thread[t].mig = m
<1>1. CASE UNCHANGED vars
  BY <1>1 DEF vars
<1>2. ASSUME NEW t \in Threads, ThreadStep(t) \/ PrepareTimeout(t) \/ CommitTimeout(t)
      PROVE  Complete(t) /\ thread[t].mig = m
  <2>1. PICK n : n = thread[t].mig
    OBVIOUS
  <2>2. thread[t].pc # "idle" /\ n \in Migrations
    <3>1. thread[t].pc # "idle"
      BY <1>2 DEF ThreadStep, Refuse, Begin, RetryMigration, StartPrepare, CollectVotes, StartCommit, LoseConsensus, Complete,
                  CommitFailed, StartAbort, EndAbort, Release, PrepareTimeout, CommitTimeout, At
    <3> QED
      BY <2>1, <3>1, Works DEF IInv
  <2>3. mig' # mig
    OBVIOUS
  <2>4. CASE Begin(t)
    <3>1. mig' = [mig EXCEPT ![n] = NotStarted("idle")]
      BY <2>1, <2>4 DEF Begin
    <3> QED
      BY <2>2, <3>1 DEF IInv, MigOK, NotStarted
  <2>10. CASE RetryMigration(t)
    <3>1. mig' = [mig EXCEPT ![n] = Retried(n)]
      BY <2>1, <2>10 DEF RetryMigration
    <3> QED
      BY <2>2, <3>1 DEF IInv, MigOK, Retried
  <2>5. CASE StartPrepare(t)
    <3>1. PICK v : mig' = [mig EXCEPT ![n].phase = "prepare", ![n].votes = v]
      BY <2>1, <2>5 DEF StartPrepare
    <3> QED
      BY <2>2, <3>1 DEF IInv, MigOK, Migs
  <2>6. CASE CollectVotes(t) \/ PrepareTimeout(t)
    <3>1. PICK x : mig' = [mig EXCEPT ![n].consensus = x] \/ mig' = [mig EXCEPT ![n].votes = x]
      BY <2>1, <2>6, Zenon DEF CollectVotes, PrepareTimeout
    <3> QED
      BY <2>2, <3>1 DEF IInv, MigOK, Migs
  <2>7. CASE StartCommit(t) \/ StartAbort(t) \/ EndAbort(t)
    <3>1. PICK x \in {"commit", "abort", "aborted"} : mig' = [mig EXCEPT ![n].phase = x]
      BY <2>1, <2>7 DEF StartCommit, StartAbort, EndAbort
    <3> QED
      BY <2>2, <3>1 DEF IInv, MigOK, Migs
  <2>8. CASE Complete(t)
    <3>1. mig' = [mig EXCEPT ![n].phase = "completed"]
      BY <2>1, <2>8 DEF Complete
    <3> QED
      BY <2>1, <2>2, <2>8, <3>1 DEF IInv, MigOK, Migs
  <2>9. CASE Refuse(t) \/ LoseConsensus(t) \/ CommitFailed(t) \/ Release(t) \/ CommitTimeout(t)
    BY <2>3, <2>9 DEF Refuse, LoseConsensus, CommitFailed, Release, CommitTimeout
  <2> QED
    BY <1>2, <2>4, <2>5, <2>6, <2>7, <2>8, <2>9, <2>10 DEF ThreadStep
<1>3. ASSUME NEW t \in Threads, NEW n \in Migrations,
             Check(t, n) \/ CheckRetry(t, n) \/ AbortMigration(t, n)
      PROVE  FALSE
  BY <1>3 DEF Check, CheckRetry, AbortMigration
<1>4. ASSUME NEW c \in calls, Answer(c)
      PROVE  FALSE
  <2>1. c.mig \in Migrations
    BY CallFields DEF IInv
  <2>2. mig' = mig \/ mig' = [mig EXCEPT ![c.mig].votes[c.to] = "yes"]
    BY <1>4 DEF Answer, Prepare, CommitSwitch, CommitTx, AbortPart, Return
  <2> QED
    BY <2>1, <2>2 DEF IInv, MigOK, Migs
<1>5. ASSUME GoDown
      PROVE  FALSE
  BY <1>5 DEF GoDown, NotStarted
<1>6. CASE Restart
  BY <1>6 DEF Restart
<1> QED
  BY <1>1, <1>2, <1>3, <1>4, <1>5, <1>6 DEF Next, Panic, Crash

\* A migration that no other overlaps becomes "completed" only when every participant
\* has gone over to it (executeCommitPhase collects the errors of the calls, and
\* completeMigration comes after it).
THEOREM CompletesWhole == Spec => CompletesOnlyWhole
<1>1. CalmInv /\ [Next]_vars =>
        \A m \in Migrations :
          mig[m].phase # "completed" /\ mig'[m].phase = "completed" /\ calm
            => \A p \in Participants : part[p].on = m
  BY OnlyComplete, WholeCommit DEF CalmInv, Alone
<1>2. CalmInv /\ [Next]_vars =>
        [\A m \in Migrations :
          mig[m].phase # "completed" /\ mig'[m].phase = "completed" /\ calm
            => \A p \in Participants : part[p].on = m]_vars
  BY <1>1
<1> QED
  BY <1>2, CalmInvariance, PTL DEF Spec, CompletesOnlyWhole
-----------------------------------------------------------------------------
(***************************************************************************)
(* Nothing is stranded.  A step moves one goroutine, and either it works   *)
(* on its migration afterwards, or the migration has ended, or it worked   *)
(* on none; the goroutines beside it are what they were.                   *)
(***************************************************************************)
Beyond(t) == \A u \in Threads \ {t} : thread'[u] = thread[u]

\* A goroutine takes its migration on, or one that it did not have before.
LEMMA TakesOn ==
  ASSUME IInv, NothingStranded, NEW t \in Threads, NEW m \in Migrations, Beyond(t),
         Busy(t, m)', thread[t].pc \notin {"idle", "begin", "retry"} => thread[t].mig = m,
         thread'[t].locked = thread[t].locked,
         \A n \in Migrations \ {m} : mig'[n] = mig[n], holder' = holder
  PROVE  NothingStranded'
<1>1. thread[t].locked => thread[t].mig = m
  BY DEF IInv, ThreadOK, WorkOK
<1>2. ASSUME NEW n \in Migrations, Active(n)'
      PROVE  Recovered(n)' \/ \E u \in Threads : Busy(u, n)'
  <2>1. CASE n = m
    BY <2>1
  <2>2. CASE n # m
    <3>1. Recovered(n) \/ \E u \in Threads \ {t} : Busy(u, n)
      BY <1>2, <2>2 DEF NothingStranded, Active, Busy, Checked
    <3> QED
      BY <2>2, <3>1 DEF Recovered, Busy, Beyond
  <2> QED
    BY <2>1, <2>2
<1>3. ASSUME NEW r \in Pairs, holder'[r] # None
      PROVE  Pair[holder'[r]] = r /\ \E u \in Threads : thread'[u].locked /\ thread'[u].mig = holder'[r]
  <2>1. PICK u \in Threads : thread[u].locked /\ thread[u].mig = holder[r] /\ Pair[holder[r]] = r
    BY <1>3 DEF NothingStranded
  <2>2. thread'[u].locked /\ thread'[u].mig = thread[u].mig
    BY <1>1, <2>1 DEF Beyond, Busy
  <2> QED
    BY <2>1, <2>2
<1> QED
  BY <1>2, <1>3 DEF NothingStranded

\* A goroutine brings its migration to an end.
LEMMA BringsToEnd ==
  ASSUME IInv, NothingStranded, NEW t \in Threads, NEW m \in Migrations, m = thread[t].mig, Beyond(t),
         ~Active(m)', thread[t].locked => thread'[t].locked /\ thread'[t].mig = m,
         \A n \in Migrations \ {m} : mig'[n] = mig[n], holder' = holder
  PROVE  NothingStranded'
<1>1. ASSUME NEW n \in Migrations, Active(n)'
      PROVE  Recovered(n)' \/ \E u \in Threads : Busy(u, n)'
  <2>1. n # m
    BY <1>1
  <2>2. Recovered(n) \/ \E u \in Threads \ {t} : Busy(u, n)
    BY <1>1, <2>1 DEF NothingStranded, Active, Busy
  <2> QED
    BY <2>1, <2>2 DEF Recovered, Busy, Beyond
<1>2. ASSUME NEW r \in Pairs, holder'[r] # None
      PROVE  Pair[holder'[r]] = r /\ \E u \in Threads : thread'[u].locked /\ thread'[u].mig = holder'[r]
  <2>1. PICK u \in Threads : thread[u].locked /\ thread[u].mig = holder[r] /\ Pair[holder[r]] = r
    BY <1>2 DEF NothingStranded
  <2> QED
    BY <2>1 DEF Beyond
<1> QED
  BY <1>1, <1>2 DEF NothingStranded

\* A goroutine that works on no migration and holds no lock does something else.
LEMMA WasNotBusy ==
  ASSUME NothingStranded, NEW t \in Threads, Beyond(t),
         thread[t].pc \in {"idle", "begin", "retry", "release"}, ~thread[t].locked,
         mig' = mig, holder' = holder
  PROVE  NothingStranded'
<1>1. \A u \in Threads, n \in Migrations : Busy(u, n) => Busy(u, n)'
  BY DEF Busy, Beyond, Checked
<1>2. \A u \in Threads : thread[u].locked => thread'[u] = thread[u]
  BY DEF Beyond
<1> QED
  BY <1>1, <1>2 DEF NothingStranded, Active, Recovered

\* Everybody stays where he is.
LEMMA NobodyMoves ==
  ASSUME NothingStranded, holder' = holder,
         \A u \in Threads : /\ thread'[u].pc = thread[u].pc /\ thread'[u].mig = thread[u].mig
                            /\ thread'[u].locked = thread[u].locked,
         \A n \in Migrations : mig'[n].phase = mig[n].phase /\ mig'[n].retries = mig[n].retries
  PROVE  NothingStranded'
BY DEF NothingStranded, Active, Recovered, Busy

\* Where a goroutine is after GoTo.
LEMMA GoneTo ==
  ASSUME IInv, NEW t \in Threads, NEW x, GoTo(t, x)
  PROVE  /\ Beyond(t) /\ thread'[t].pc = x /\ thread'[t].mig = thread[t].mig
         /\ thread'[t].locked = thread[t].locked
<1>1. thread \in [Threads -> Workers]
  BY DEF IInv, ThreadOK
<1> QED
  BY <1>1 DEF GoTo, Beyond, Workers

\* What becomes of the goroutine itself when it is given something else to do.
LEMMA IsGiven ==
  ASSUME IInv, NEW t \in Threads, NEW k, thread' = [thread EXCEPT ![t] = k]
  PROVE  Beyond(t) /\ thread'[t] = k
BY DEF IInv, ThreadOK, Beyond

LEMMA MovesKeep ==
  ASSUME IInv, NothingStranded, NEW t \in Threads,
         StartPrepare(t) \/ CollectVotes(t) \/ StartCommit(t) \/ LoseConsensus(t) \/ CommitFailed(t)
           \/ StartAbort(t) \/ PrepareTimeout(t) \/ CommitTimeout(t)
  PROVE  NothingStranded'
<1>1. PICK m : m = thread[t].mig
  OBVIOUS
<1>2. thread[t].pc # "idle"
  BY DEF StartPrepare, CollectVotes, StartCommit, LoseConsensus, CommitFailed, StartAbort,
         PrepareTimeout, CommitTimeout, At
<1>3. m \in Migrations
  BY <1>1, <1>2, Works DEF IInv
<1>4. \E x \in {"prepare", "voted", "fail", "commit", "abort"} : GoTo(t, x)
  BY DEF StartPrepare, CollectVotes, StartCommit, LoseConsensus, CommitFailed, StartAbort,
         PrepareTimeout, CommitTimeout
<1>5. Beyond(t) /\ Busy(t, m)' /\ thread'[t].locked = thread[t].locked
  BY <1>1, <1>4, GoneTo DEF Busy, Checked
<1>6. holder' = holder
  BY DEF StartPrepare, CollectVotes, StartCommit, LoseConsensus, CommitFailed, StartAbort,
         PrepareTimeout, CommitTimeout
<1>7. \A n \in Migrations \ {m} : mig'[n] = mig[n]
  <2> USE DEF IInv, MigOK
  <2>1. CASE mig' = mig
    BY <2>1
  <2>2. CASE StartPrepare(t)
    BY <1>1, <2>2 DEF StartPrepare
  <2>3. CASE CollectVotes(t)
    BY <1>1, <2>3 DEF CollectVotes
  <2>4. CASE StartCommit(t)
    BY <1>1, <2>4 DEF StartCommit
  <2>5. CASE StartAbort(t)
    BY <1>1, <2>5 DEF StartAbort
  <2>6. CASE PrepareTimeout(t)
    BY <1>1, <2>6 DEF PrepareTimeout
  <2> QED
    BY <2>1, <2>2, <2>3, <2>4, <2>5, <2>6 DEF LoseConsensus, CommitFailed, CommitTimeout
<1> QED
  BY <1>1, <1>3, <1>5, <1>6, <1>7, TakesOn

LEMMA BeginKeeps ==
  ASSUME IInv, NothingStranded, NEW t \in Threads, Begin(t)
  PROVE  NothingStranded'
<1>1. PICK m : m = thread[t].mig
  OBVIOUS
<1>2. thread[t].pc = "begin" /\ ~thread[t].locked
  BY DEF Begin, At, IInv, ThreadOK, WorkOK
<1>3. m \in Migrations /\ Pair[m] \in Pairs
  BY <1>1, <1>2, Works DEF IInv, Pairs
<1>4. /\ Beyond(t) /\ thread'[t].pc = "start" /\ thread'[t].mig = m /\ thread'[t].locked
  BY <1>1 DEF Begin, Beyond, IInv, ThreadOK, Workers
<1>5. \A n \in Migrations \ {m} : mig'[n] = mig[n]
  BY <1>1 DEF Begin, IInv, MigOK
<1>6. ASSUME NEW n \in Migrations, Active(n)'
      PROVE  Recovered(n)' \/ \E u \in Threads : Busy(u, n)'
  <2>1. CASE n = m
    BY <1>4, <2>1 DEF Busy, Checked
  <2>2. CASE n # m
    <3>1. Recovered(n) \/ \E u \in Threads \ {t} : Busy(u, n)
      BY <1>2, <1>5, <1>6, <2>2 DEF NothingStranded, Active, Busy, Checked
    <3> QED
      BY <1>4, <1>5, <2>2, <3>1 DEF Recovered, Busy, Beyond
  <2> QED
    BY <2>1, <2>2
<1>7. ASSUME NEW r \in Pairs, holder'[r] # None
      PROVE  Pair[holder'[r]] = r /\ \E u \in Threads : thread'[u].locked /\ thread'[u].mig = holder'[r]
  <2>1. holder' = [holder EXCEPT ![Pair[m]] = m] /\ holder \in [Pairs -> MaybeMigration]
    BY <1>1 DEF Begin, IInv, RestOK
  <2>2. CASE r = Pair[m]
    BY <1>3, <1>4, <2>1, <2>2
  <2>3. CASE r # Pair[m]
    <3>1. PICK u \in Threads : thread[u].locked /\ thread[u].mig = holder[r] /\ Pair[holder[r]] = r
      BY <1>7, <2>1, <2>3 DEF NothingStranded
    <3> QED
      BY <1>2, <1>4, <2>1, <2>3, <3>1 DEF Beyond
  <2> QED
    BY <2>2, <2>3
<1> QED
  BY <1>6, <1>7 DEF NothingStranded

LEMMA RetryKeeps ==
  ASSUME IInv, NothingStranded, NEW t \in Threads, RetryMigration(t)
  PROVE  NothingStranded'
<1>1. PICK m : m = thread[t].mig
  OBVIOUS
<1>2. /\ thread[t].pc = "retry" /\ GoTo(t, "start") /\ mig' = [mig EXCEPT ![m] = Retried(m)]
      /\ holder' = holder
  BY <1>1 DEF RetryMigration, At
<1>3. m \in Migrations
  BY <1>1, <1>2, Works DEF IInv
<1>4. Beyond(t) /\ Busy(t, m)' /\ thread'[t].locked = thread[t].locked
  BY <1>1, <1>2, GoneTo DEF Busy, Checked
<1>5. \A n \in Migrations \ {m} : mig'[n] = mig[n]
  BY <1>2 DEF IInv, MigOK
<1> QED
  BY <1>1, <1>2, <1>3, <1>4, <1>5, TakesOn

LEMMA AbortMigrationKeeps ==
  ASSUME IInv, NothingStranded, NEW t \in Threads, NEW m \in Migrations, AbortMigration(t, m)
  PROVE  NothingStranded'
<1>1. thread[t].pc = "idle" /\ ~thread[t].locked
  BY DEF AbortMigration, Free, IInv, ThreadOK, WorkOK
<1>2. thread' = [thread EXCEPT ![t] = [Idle EXCEPT !.mig = m, !.pc = "fail"]]
  BY DEF AbortMigration
<1>3. Beyond(t) /\ Busy(t, m)' /\ ~thread'[t].locked
  <2>1. Beyond(t) /\ thread'[t] = [Idle EXCEPT !.mig = m, !.pc = "fail"]
    BY <1>2, IsGiven
  <2> QED
    BY <2>1 DEF Idle, Busy, Checked
<1>4. holder' = holder /\ \A n \in Migrations \ {m} : mig'[n] = mig[n]
  BY DEF AbortMigration, IInv, MigOK
<1>5. thread'[t].locked = thread[t].locked
  <2>1. thread[t].locked = FALSE
    BY <1>1 DEF IInv, ThreadOK, Workers
  <2>2. thread'[t].locked = FALSE
    <3>1. thread'[t] = [Idle EXCEPT !.mig = m, !.pc = "fail"]
      BY <1>2, IsGiven
    <3> QED
      BY <3>1 DEF Idle
  <2> QED
    BY <2>1, <2>2
<1> QED
  BY <1>1, <1>3, <1>4, <1>5, TakesOn

LEMMA EndsKeep ==
  ASSUME IInv, NothingStranded, NEW t \in Threads, Complete(t) \/ EndAbort(t)
  PROVE  NothingStranded'
<1>1. PICK m : m = thread[t].mig
  OBVIOUS
<1>2. thread[t].pc # "idle"
  BY DEF Complete, EndAbort, At
<1>3. m \in Migrations
  BY <1>1, <1>2, Works DEF IInv
<1>4. PICK x \in {"completed", "aborted"} : mig' = [mig EXCEPT ![m].phase = x]
  BY <1>1 DEF Complete, EndAbort
<1>5. ~Active(m)' /\ \A n \in Migrations \ {m} : mig'[n] = mig[n]
  BY <1>3, <1>4 DEF Active, IInv, MigOK, Migs
<1>6. Beyond(t) /\ (thread[t].locked => thread'[t].locked /\ thread'[t].mig = m)
  <2>1. CASE Complete(t)
    BY <1>1, <2>1, GoneTo DEF Complete
  <2>2. CASE EndAbort(t)
    <3>1. Beyond(t) /\ thread'[t] = AfterAbort(t)
      BY <2>2, IsGiven DEF EndAbort
    <3>2. thread[t].locked => AfterAbort(t).locked /\ AfterAbort(t).mig = thread[t].mig
      BY DEF AfterAbort, IInv, ThreadOK, Workers
    <3> QED
      BY <1>1, <3>1, <3>2
  <2> QED
    BY <2>1, <2>2
<1>7. holder' = holder
  BY DEF Complete, EndAbort
<1> QED
  BY <1>1, <1>3, <1>5, <1>6, <1>7, BringsToEnd

LEMMA ReleaseKeeps ==
  ASSUME IInv, NothingStranded, NEW t \in Threads, Release(t)
  PROVE  NothingStranded'
<1>1. PICK m : m = thread[t].mig
  OBVIOUS
<1>2. thread[t].pc = "release" /\ mig' = mig /\ thread' = [thread EXCEPT ![t] = Idle]
  BY DEF Release, At
<1>3. m \in Migrations /\ Pair[m] \in Pairs
  BY <1>1, <1>2, Works DEF IInv, Pairs
<1>4. Beyond(t)
  BY <1>2, IsGiven
<1>5. CASE ~thread[t].locked
  BY <1>2, <1>4, <1>5, WasNotBusy DEF Release
<1>6. CASE thread[t].locked
  <2>1. holder' = [holder EXCEPT ![Pair[m]] = None] /\ holder \in [Pairs -> MaybeMigration]
    BY <1>1, <1>6 DEF Release, IInv, RestOK
  <2>2. ASSUME NEW r \in Pairs, holder'[r] # None
        PROVE  Pair[holder'[r]] = r /\ \E u \in Threads : thread'[u].locked /\ thread'[u].mig = holder'[r]
    <3>1. r # Pair[m] /\ holder'[r] = holder[r]
      BY <1>3, <2>1, <2>2
    <3>2. PICK u \in Threads : thread[u].locked /\ thread[u].mig = holder[r]
      BY <2>2, <3>1 DEF NothingStranded
    <3>3. u # t /\ Pair[holder[r]] = r
      BY <1>1, <2>2, <3>1, <3>2 DEF NothingStranded
    <3> QED
      BY <1>4, <3>1, <3>2, <3>3 DEF Beyond
  <2>3. \A n \in Migrations : Active(n)' => Recovered(n)' \/ \E u \in Threads : Busy(u, n)'
    BY <1>2, <1>4 DEF NothingStranded, Active, Recovered, Busy, Beyond
  <2> QED
    BY <2>2, <2>3 DEF NothingStranded
<1> QED
  BY <1>5, <1>6

LEMMA AnswersKeep ==
  ASSUME IInv, NothingStranded, NEW c \in calls, Answer(c)
  PROVE  NothingStranded'
<1>1. c.mig \in Migrations /\ c.by \in Threads
  BY CallFields DEF IInv
<1>2. holder' = holder
  BY DEF Answer, Prepare, CommitSwitch, CommitTx, AbortPart, Return
<1>3. \A n \in Migrations : mig'[n].phase = mig[n].phase /\ mig'[n].retries = mig[n].retries
  <2>1. mig' = mig \/ mig' = [mig EXCEPT ![c.mig].votes[c.to] = "yes"]
    BY DEF Answer, Prepare, CommitSwitch, CommitTx, AbortPart, Return
  <2> QED
    BY <1>1, <2>1 DEF IInv, MigOK, Migs
<1>4. \A u \in Threads : /\ thread'[u].pc = thread[u].pc /\ thread'[u].mig = thread[u].mig
                         /\ thread'[u].locked = thread[u].locked
  <2>1. thread' = thread \/ \E x : thread' = [thread EXCEPT ![c.by].failed = x]
    BY DEF Answer, Prepare, CommitSwitch, CommitTx, AbortPart, Return
  <2>2. ASSUME NEW x, thread' = [thread EXCEPT ![c.by].failed = x], NEW u \in Threads
        PROVE  /\ thread'[u].pc = thread[u].pc /\ thread'[u].mig = thread[u].mig
               /\ thread'[u].locked = thread[u].locked
    <3>1. thread \in [Threads -> Workers] /\ thread[u] \in Workers
      BY DEF IInv, ThreadOK
    <3>2. thread'[u] = thread[u] \/ thread'[u] = [thread[u] EXCEPT !.failed = x]
      BY <2>2, <3>1
    <3> QED
      BY <3>1, <3>2 DEF Workers
  <2> QED
    BY <2>1, <2>2
<1> QED
  BY <1>2, <1>3, <1>4, NobodyMoves

LEMMA StaysUnstranded == IInv /\ NothingStranded /\ [Next]_vars => NothingStranded'
<1> SUFFICES ASSUME IInv, NothingStranded, [Next]_vars PROVE NothingStranded'
  OBVIOUS
<1>1. CASE UNCHANGED vars
  BY <1>1, NobodyMoves DEF vars
<1>2. ASSUME NEW t \in Threads, ThreadStep(t) \/ PrepareTimeout(t) \/ CommitTimeout(t)
      PROVE  NothingStranded'
  <2>1. CASE Refuse(t)
    <3>1. /\ thread[t].pc = "begin" /\ mig' = mig /\ holder' = holder
          /\ thread' = [thread EXCEPT ![t] = Idle]
      BY <2>1 DEF Refuse, At
    <3>2. ~thread[t].locked /\ Beyond(t)
      BY <3>1, IsGiven DEF IInv, ThreadOK, WorkOK
    <3> QED
      BY <3>1, <3>2, WasNotBusy
  <2> QED
    BY <1>2, <2>1, BeginKeeps, RetryKeeps, MovesKeep, EndsKeep, ReleaseKeeps DEF ThreadStep
<1>3. ASSUME NEW t \in Threads, NEW m \in Migrations, Check(t, m) \/ CheckRetry(t, m)
      PROVE  NothingStranded'
  <2>1. /\ thread[t].pc = "idle" /\ mig' = mig /\ holder' = holder
        /\ \E x \in Checked : thread' = [thread EXCEPT ![t] = [Idle EXCEPT !.mig = m, !.pc = x]]
    BY <1>3 DEF Check, CheckRetry, Free, Checked
  <2>2. ~thread[t].locked /\ Beyond(t)
    BY <2>1, IsGiven DEF IInv, ThreadOK, WorkOK
  <2> QED
    BY <2>1, <2>2, WasNotBusy
<1>4. ASSUME NEW t \in Threads, NEW m \in Migrations, AbortMigration(t, m)
      PROVE  NothingStranded'
  BY <1>4, AbortMigrationKeeps
<1>5. ASSUME NEW c \in calls, Answer(c)
      PROVE  NothingStranded'
  BY <1>5, AnswersKeep
<1>6. CASE GoDown
  BY <1>6 DEF GoDown, NothingStranded, Active, Recovered, NotStarted
<1>7. CASE Restart
  BY <1>7, NobodyMoves DEF Restart
<1> QED
  BY <1>1, <1>2, <1>3, <1>4, <1>5, <1>6, <1>7 DEF Next, Panic, Crash

\* A migration that the coordinator counts as active has a goroutine that goes on
\* with it or is as recoverMigrations loads it, and a lock that is held has its
\* execution, however executions, retries and aborts overlap (executeMigration and
\* its deferred ReleaseLock, abortMigrationInternal, RetryMigration).
THEOREM NoneIsStranded == Spec => []NothingStranded
<1>1. Init => NothingStranded
  BY DEF Init, NothingStranded, Active, NotStarted
<1>2. IInv /\ NothingStranded /\ [Next]_vars => NothingStranded'
  BY StaysUnstranded
<1> QED
  BY <1>1, <1>2, Invariance, PTL DEF Spec
==============================================================================
