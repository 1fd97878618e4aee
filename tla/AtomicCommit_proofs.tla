------------------------- MODULE AtomicCommit_proofs -------------------------
(***************************************************************************)
(* The XA manager implements AtomicCommit, for any sets of transactions    *)
(* and resources: with every caller and every failure, no branch is made   *)
(* permanent without all votes or against the decision, and the decision   *)
(* never changes.  What is undone by an abort that comes after the commit  *)
(* was committed everywhere, or had been given up.                         *)
(*                                                                         *)
(* The manager records no decision.  That the one read off the votes and   *)
(* the branches behaves like one rests on what the loops of prepare and    *)
(* commit have reached (LoopInv): behind the resource whose turn it is     *)
(* every branch is prepared (committed or prepared), before it none is     *)
(* (all are), because no resource is enlisted twice.                       *)
(***************************************************************************)
EXTENDS XAManager_proofs

\* Nothing has been asked of any branch of t.
Waiting(t) == \A r \in Resources : branch[t][r] = "active"

\* How far the loops of prepare and commit have come.
LoopInv(t) ==
  /\ \A i, j \in 1 .. Len(resources[t]) : resources[t][i] = resources[t][j] => i = j
  /\ client[t] = "new" \/ (Unlocked(t) /\ Active(t)) \/ op[t].phase = "onephase" => Waiting(t)
  /\ op[t].phase = "prepare" =>
       /\ Len(resources[t]) > 1
       /\ \A i \in 1 .. Len(resources[t]) :
            branch[t][resources[t][i]] = IF i < op[t].next THEN "prepared" ELSE "active"
  /\ op[t].phase = "commit" =>
       /\ Len(resources[t]) > 1
       /\ \A i \in 1 .. Len(resources[t]) :
            /\ branch[t][resources[t][i]] \in {"prepared", "committed"}
            /\ i >= op[t].next => branch[t][resources[t][i]] = "prepared"
  /\ \A r \in committed[t] : branch[t][r] \in Permanent

IInv == TypeOK /\ Inv /\ \A t \in Txns : LoopInv(t)

-----------------------------------------------------------------------------
(***************************************************************************)
(* What a step may do to one transaction, in the terms of AtomicCommit.    *)
(***************************************************************************)
Lost(t) ==
  /\ Len(resources[t]) > 1 /\ Decision(t) = "commit" /\ op[t].phase # "commit"
  /\ \E r \in Members(t) : r \notin committed[t]

SameMembers(t)  == Members(t)' = Members(t)
SameDecision(t) == Decision(t)' = Decision(t)
SameBranch(t)   == branch'[t] = branch[t]
SameLost(t)     == Lost(t)' <=> Lost(t)
BranchTurns(t, r, b) == branch'[t] = [branch[t] EXCEPT ![r] = b]

Stays(t) == SameMembers(t) /\ SameDecision(t) /\ SameBranch(t) /\ SameLost(t)
Joins(t, r) ==
  /\ Decision(t) = "none" /\ Members(t)' = Members(t) \cup {r}
  /\ SameDecision(t) /\ SameBranch(t) /\ SameLost(t)
Votes(t, r) ==
  /\ Decision(t) = "none" /\ r \in Members(t) /\ branch[t][r] = "active"
  /\ BranchTurns(t, r, "prepared") /\ SameMembers(t) /\ SameDecision(t) /\ SameLost(t)
DecidesCommit(t) ==
  /\ Decision(t) = "none" /\ Members(t) # {} /\ \A r \in Members(t) : branch[t][r] = "prepared"
  /\ Decision(t)' = "commit" /\ SameMembers(t) /\ SameBranch(t) /\ SameLost(t)
DecidesAbort(t) ==
  /\ Decision(t) = "none" /\ Decision(t)' = "abort"
  /\ SameBranch(t) \/ \E r \in Members(t) : BranchTurns(t, r, "prepared")
  /\ SameMembers(t) /\ SameLost(t)
CommitsAlone(t, r) ==
  /\ Decision(t) = "none" /\ Members(t) = {r}
  /\ Decision(t)' = "commit" /\ BranchTurns(t, r, "committed")
  /\ SameMembers(t) /\ SameLost(t)
Commits(t, r) ==
  /\ Decision(t) = "commit" /\ r \in Members(t) /\ branch[t][r] = "prepared"
  /\ BranchTurns(t, r, "committed") /\ SameMembers(t) /\ SameDecision(t) /\ SameLost(t)
GivesUp(t) ==
  /\ Decision(t) = "commit" /\ Lost(t)'
  /\ SameMembers(t) /\ SameDecision(t) /\ SameBranch(t)
RollsBack(t, r) ==
  /\ Decision(t) = "abort" \/ Lost(t)
  /\ r \in Members(t) /\ branch[t][r] \in {"active", "prepared"}
  /\ BranchTurns(t, r, "rolledback") /\ SameMembers(t) /\ SameDecision(t) /\ SameLost(t)

Undoes(t, r) ==
  /\ Decision(t) = "commit"
  /\ Lost(t) \/ \A q \in Members(t) : branch[t][q] \in {"committed", "undone"}
  /\ r \in Members(t) /\ branch[t][r] = "committed"
  /\ BranchTurns(t, r, "undone") /\ SameMembers(t) /\ SameDecision(t) /\ SameLost(t)

Maps(t) ==
  \/ Stays(t) \/ DecidesCommit(t) \/ DecidesAbort(t) \/ GivesUp(t)
  \/ \E r \in Resources : \/ Joins(t, r) \/ Votes(t, r) \/ CommitsAlone(t, r)
                          \/ Commits(t, r) \/ RollsBack(t, r) \/ Undoes(t, r)

\* The other transactions are left alone.
SameTxn(u) ==
  /\ client'[u] = client[u] /\ state'[u] = state[u] /\ resources'[u] = resources[u]
  /\ prepared'[u] = prepared[u] /\ committed'[u] = committed[u]
  /\ op'[u] = op[u] /\ branch'[u] = branch[u]
Only(t) == \A u \in Txns \ {t} : SameTxn(u)

LEMMA SameStays ==
  ASSUME NEW u \in Txns, SameTxn(u)
  PROVE  Stays(u) /\ (LoopInv(u) => LoopInv(u)')
<1>1. SameMembers(u)
  BY DEF SameTxn, SameMembers, Members
<1>2. SameDecision(u)
  BY <1>1 DEF SameTxn, SameMembers, SameDecision, Decision
<1>3. SameLost(u)
  BY <1>1, <1>2 DEF SameTxn, SameMembers, SameDecision, SameLost, Lost
<1>4. LoopInv(u) => LoopInv(u)'
  BY DEF SameTxn, LoopInv, Waiting, Unlocked, Active
<1> QED
  BY <1>1, <1>2, <1>3, <1>4 DEF Stays, SameBranch, SameTxn

Mems == [u \in Txns |-> Members(u)]
Decs == [u \in Txns |-> Decision(u)]

LEMMA Lifted ==
  ASSUME TypeOK, TypeOK', NEW t \in Txns, Only(t)
  PROVE  /\ Mems' = [Mems EXCEPT ![t] = Members(t)']
         /\ Decs' = [Decs EXCEPT ![t] = Decision(t)']
         /\ branch' = [branch EXCEPT ![t] = branch'[t]]
         /\ \A u \in Txns \ {t} : u \in GivenUp' <=> u \in GivenUp
         /\ (t \in GivenUp <=> Lost(t)) /\ (t \in GivenUp' <=> Lost(t)')
         /\ GivenUp \in SUBSET Txns /\ GivenUp' \in SUBSET Txns
<1>1. \A u \in Txns \ {t} : Stays(u)
  BY SameStays DEF Only
<1>2. \A u \in Txns \ {t} : Members(u)' = Members(u) /\ Decision(u)' = Decision(u) /\ branch'[u] = branch[u]
  BY <1>1 DEF Stays, SameMembers, SameDecision, SameBranch
<1>3. \A u \in Txns \ {t} : Lost(u)' <=> Lost(u)
  BY <1>1 DEF Stays, SameLost
<1>4. GivenUp = {u \in Txns : Lost(u)}
  BY DEF GivenUp, Lost
<1>5. GivenUp' = {u \in Txns : Lost(u)'}
  BY DEF GivenUp, Lost
<1>6. Mems' = [Mems EXCEPT ![t] = Members(t)'] /\ Decs' = [Decs EXCEPT ![t] = Decision(t)']
  BY <1>2 DEF Mems, Decs
<1>7. branch' = [branch EXCEPT ![t] = branch'[t]]
  BY <1>2 DEF TypeOK
<1> QED
  BY <1>3, <1>4, <1>5, <1>6, <1>7

\* What happens to one transaction is a step of AtomicCommit, or none.
LEMMA Lifts ==
  ASSUME TypeOK, TypeOK', NEW t \in Txns, Only(t), Maps(t)
  PROVE  AC!Next \/ UNCHANGED AC!vars
<1> DEFINE g  == GivenUp
           gg == GivenUp'
<1>1. /\ Mems' = [Mems EXCEPT ![t] = Members(t)']
      /\ Decs' = [Decs EXCEPT ![t] = Decision(t)']
      /\ branch' = [branch EXCEPT ![t] = branch'[t]]
  BY Lifted
<1>2. SameLost(t) => gg = g
  BY Lifted DEF SameLost
<1>3. Lost(t)' => gg = g \cup {t}
  BY Lifted
<1>4. t \in g <=> Lost(t)
  BY Lifted
<1>5. Mems[t] = Members(t) /\ Decs[t] = Decision(t)
  BY DEF Mems, Decs
<1>6. SameMembers(t) => Mems' = Mems
  BY <1>1 DEF SameMembers, Mems
<1>7. SameDecision(t) => Decs' = Decs
  BY <1>1 DEF SameDecision, Decs
<1>8. SameBranch(t) => branch' = branch
  BY <1>1 DEF SameBranch, TypeOK
<1>9. ASSUME NEW r, NEW b, BranchTurns(t, r, b) PROVE branch' = [branch EXCEPT ![t][r] = b]
  BY <1>1, <1>9 DEF BranchTurns, TypeOK
<1> HIDE DEF g, gg
<1>10. CASE Stays(t)
  BY <1>2, <1>6, <1>7, <1>8, <1>10 DEF Stays, AC!vars, Mems, Decs, g, gg
<1>11. CASE DecidesCommit(t)
  <2>1. AC!DecideCommit(t)
    BY <1>1, <1>2, <1>5, <1>6, <1>8, <1>11 DEF DecidesCommit, AC!DecideCommit, Mems, Decs, g, gg
  <2> QED
    BY <2>1 DEF AC!Next
<1>12. CASE DecidesAbort(t)
  <2>1. AC!DecideAbort(t)
    BY <1>1, <1>2, <1>5, <1>6, <1>8, <1>9, <1>12 DEF DecidesAbort, AC!DecideAbort, Mems, Decs, g, gg
  <2> QED
    BY <2>1 DEF AC!Next
<1>13. CASE GivesUp(t)
  <2>1. AC!GiveUp(t)
    BY <1>3, <1>5, <1>6, <1>7, <1>8, <1>13 DEF GivesUp, AC!GiveUp, Mems, Decs, g, gg
  <2> QED
    BY <2>1 DEF AC!Next
<1>14. ASSUME NEW r \in Resources, Joins(t, r) PROVE AC!Next
  <2>1. AC!Join(t, r)
    BY <1>1, <1>2, <1>5, <1>7, <1>8, <1>14 DEF Joins, AC!Join, Mems, Decs, g, gg
  <2> QED
    BY <2>1 DEF AC!Next
<1>15. ASSUME NEW r \in Resources, Votes(t, r) PROVE AC!Next
  <2>1. AC!Vote(t, r)
    BY <1>2, <1>5, <1>6, <1>7, <1>9, <1>15 DEF Votes, AC!Vote, Mems, Decs, g, gg
  <2> QED
    BY <2>1 DEF AC!Next
<1>16. ASSUME NEW r \in Resources, CommitsAlone(t, r) PROVE AC!Next
  <2>1. AC!OnePhaseCommit(t, r)
    BY <1>1, <1>2, <1>5, <1>6, <1>9, <1>16 DEF CommitsAlone, AC!OnePhaseCommit, Mems, Decs, g, gg
  <2> QED
    BY <2>1 DEF AC!Next
<1>17. ASSUME NEW r \in Resources, Commits(t, r) PROVE AC!Next
  <2>1. AC!CommitBranch(t, r)
    BY <1>2, <1>5, <1>6, <1>7, <1>9, <1>17 DEF Commits, AC!CommitBranch, Mems, Decs, g, gg
  <2> QED
    BY <2>1 DEF AC!Next
<1>18. ASSUME NEW r \in Resources, RollsBack(t, r) PROVE AC!Next
  <2>1. AC!RollbackBranch(t, r)
    BY <1>2, <1>4, <1>5, <1>6, <1>7, <1>9, <1>18 DEF RollsBack, AC!RollbackBranch, Mems, Decs, g, gg
  <2> QED
    BY <2>1 DEF AC!Next
<1>19. ASSUME NEW r \in Resources, Undoes(t, r) PROVE AC!Next
  <2>1. AC!Undo(t, r)
    BY <1>2, <1>4, <1>5, <1>6, <1>7, <1>9, <1>19 DEF Undoes, AC!Undo, Mems, Decs, g, gg
  <2> QED
    BY <2>1 DEF AC!Next
<1> QED
  BY <1>10, <1>11, <1>12, <1>13, <1>14, <1>15, <1>16, <1>17, <1>18, <1>19 DEF Maps

-----------------------------------------------------------------------------
(***************************************************************************)
(* Each step, for the transaction it is about.                             *)
(***************************************************************************)
LEMMA Typed ==
  ASSUME TypeOK, NEW t \in Txns
  PROVE  /\ resources[t] \in Seq(Resources) /\ Len(resources[t]) \in Nat
         /\ \A i \in 1 .. Len(resources[t]) : resources[t][i] \in Resources
         /\ Members(t) \in SUBSET Resources
         /\ op[t].next \in Nat \ {0} /\ op[t] \in Calls
         /\ branch[t] \in [Resources -> Branches] /\ prepared[t] \in SUBSET Resources
         /\ committed[t] \in SUBSET Resources
<1>1. resources[t] \in Seq(Resources) /\ Len(resources[t]) \in Nat
  BY DEF TypeOK
<1>2. \A i \in 1 .. Len(resources[t]) : resources[t][i] \in Resources
  BY <1>1
<1> QED
  BY <1>1, <1>2 DEF TypeOK, Members, Calls

LEMMA Several == \A n \in Nat : (n > 1 <=> n \notin {0, 1}) /\ (n = 1 => ~(n > 1))
OBVIOUS

LEMMA SomeMember ==
  ASSUME TypeOK, NEW t \in Txns, Len(resources[t]) > 1
  PROVE  Members(t) # {}
<1>1. 1 \in 1 .. Len(resources[t])
  BY Typed
<1> QED
  BY <1>1 DEF Members

\* Nothing has been decided about a transaction that nobody was asked about.
LEMMA Undecided ==
  ASSUME TypeOK, NEW t \in Txns, Waiting(t), prepared[t] = {}, state[t] \notin {"aborted", "heur_abort"},
         op[t].phase # "rollback"
  PROVE  Decision(t) = "none" /\ ~Lost(t)
<1>1. \A r \in Members(t) : branch[t][r] \notin Permanent
  BY Typed DEF Waiting, Permanent
<1>2. Len(resources[t]) > 1 => Members(t) # {}
  BY SomeMember
<1> QED
  BY <1>1, <1>2 DEF Decision, Lost

\* An ACTIVE transaction without a call in progress.
LEMMA AtRest ==
  ASSUME IInv, NEW t \in Txns, Unlocked(t), Active(t)
  PROVE  Waiting(t) /\ Untouched(t) /\ prepared[t] = {} /\ Decision(t) = "none" /\ ~Lost(t) /\ client[t] # "new"
<1>1. Waiting(t)
  BY DEF IInv, LoopInv
<1>2. Untouched(t) /\ prepared[t] = {} /\ client[t] # "new"
  BY DEF IInv, Inv, TxnInv, PhaseInv, Fresh, Active
<1>3. op[t].phase # "rollback" /\ state[t] \notin {"aborted", "heur_abort"}
  BY DEF Unlocked, Active
<1> QED
  BY <1>1, <1>2, <1>3, Undecided DEF IInv

LEMMA StartMaps ==
  ASSUME IInv, NEW t \in Txns, Start(t)
  PROVE  LoopInv(t)' /\ Maps(t) /\ Only(t)
<1>1. /\ client[t] = "new" /\ Fresh(t) /\ Waiting(t)
  BY DEF Start, IInv, Inv, TxnInv, LoopInv
<1>2. /\ client'[t] = "open" /\ state'[t] = "active"
      /\ UNCHANGED <<resources, prepared, committed, op, branch>>
  BY DEF Start, IInv, TypeOK
<1>3. SameMembers(t) /\ SameBranch(t)
  BY <1>2 DEF SameMembers, SameBranch, Members
<1>4. Decision(t) = "none" /\ ~Lost(t)
  BY <1>1, Undecided DEF IInv, Fresh, Unlocked
<1>5. Decision(t)' = "none" /\ ~Lost(t)'
  BY <1>1, <1>2, <1>3, <1>4 DEF SameMembers, Decision, Lost, Fresh, Unlocked
<1>6. Stays(t)
  BY <1>3, <1>4, <1>5 DEF Stays, SameDecision, SameLost
<1>7. LoopInv(t)'
  BY <1>1, <1>2 DEF IInv, LoopInv, Waiting, Fresh, Unlocked
<1>8. Only(t)
  BY DEF Start, Only, SameTxn, IInv, TypeOK
<1> QED
  BY <1>6, <1>7, <1>8 DEF Maps

LEMMA EnlistMaps ==
  ASSUME IInv, NEW t \in Txns, NEW r \in Resources, Enlist(t, r)
  PROVE  LoopInv(t)' /\ Maps(t) /\ Only(t)
<1>1. Unlocked(t) /\ Active(t) /\ r \notin Members(t)
  BY DEF Enlist, Open
<1>2. Waiting(t) /\ Untouched(t) /\ prepared[t] = {} /\ Decision(t) = "none" /\ ~Lost(t) /\ client[t] # "new"
  BY <1>1, AtRest
<1>3. /\ resources'[t] = Append(resources[t], r)
      /\ UNCHANGED <<client, state, prepared, committed, op, branch>>
  BY DEF Enlist, IInv, TypeOK, envVars
<1>4. /\ Len(resources'[t]) = Len(resources[t]) + 1 /\ resources'[t][Len(resources[t]) + 1] = r
      /\ \A i \in 1 .. Len(resources[t]) : resources'[t][i] = resources[t][i]
  BY <1>3, Typed DEF IInv
<1>5. Members(t)' = Members(t) \cup {r}
  BY <1>4, Typed DEF Members, IInv
<1>6. Decision(t)' = "none" /\ ~Lost(t)'
  <2>1. \A q \in Members(t)' : branch'[t][q] \notin Permanent
    BY <1>2, <1>3, <1>5, Typed DEF Untouched, IInv
  <2>2. ~(Members(t)' \subseteq prepared'[t])
    BY <1>2, <1>3, <1>5
  <2>3. op'[t].phase # "rollback" /\ state'[t] \notin {"aborted", "heur_abort"}
    BY <1>1, <1>3 DEF Unlocked, Active
  <2> QED
    BY <2>1, <2>2, <2>3 DEF Decision, Lost
<1>7. Joins(t, r)
  BY <1>2, <1>3, <1>5, <1>6 DEF Joins, SameDecision, SameLost, SameBranch
<1>8. LoopInv(t)'
  <2>1. ASSUME NEW i \in 1 .. Len(resources'[t]), NEW j \in 1 .. Len(resources'[t]), resources'[t][i] = resources'[t][j]
        PROVE  i = j
    <3>1. \A k \in 1 .. Len(resources[t]) : resources[t][k] # r
      BY <1>1 DEF Members
    <3>2. \A k, l \in 1 .. Len(resources[t]) : resources[t][k] = resources[t][l] => k = l
      BY DEF IInv, LoopInv
    <3>3. \A k \in 1 .. Len(resources'[t]) : k \in 1 .. Len(resources[t]) \/ k = Len(resources[t]) + 1
      BY <1>4, Typed DEF IInv
    <3> QED
      BY <1>4, <2>1, <3>1, <3>2, <3>3
  <2>2. op'[t].phase = "idle" /\ Waiting(t)' /\ \A q \in committed'[t] : branch'[t][q] \in Permanent
    BY <1>1, <1>2, <1>3 DEF Unlocked, Waiting, IInv, LoopInv
  <2> QED
    BY <2>1, <2>2 DEF LoopInv
<1>9. Only(t)
  BY <1>3 DEF Enlist, Only, SameTxn, IInv, TypeOK
<1> QED
  BY <1>7, <1>8, <1>9 DEF Maps

\* Steps that leave the transaction itself alone.
LEMMA QuietMaps ==
  ASSUME IInv, NEW t \in Txns, UNCHANGED txnVars, client'[t] # "new"
  PROVE  LoopInv(t)' /\ Stays(t)
<1>1. UNCHANGED <<state, resources, prepared, committed, op, branch>>
  BY DEF txnVars
<1>2. SameMembers(t) /\ SameBranch(t)
  BY <1>1 DEF SameMembers, SameBranch, Members
<1>3. SameDecision(t)
  BY <1>1, <1>2 DEF SameMembers, SameDecision, Decision
<1>4. SameLost(t)
  BY <1>1, <1>2, <1>3 DEF SameMembers, SameDecision, SameLost, Lost
<1>5. LoopInv(t)'
  BY <1>1 DEF IInv, LoopInv, Waiting, Unlocked, Active
<1> QED
  BY <1>2, <1>3, <1>4, <1>5 DEF Stays

\* An abort begins: whatever was decided stays, and what was not is decided now.
LEMMA AbortMaps ==
  ASSUME IInv, NEW t \in Txns, Unlocked(t), op'[t].phase = "rollback", client'[t] # "new",
         UNCHANGED <<state, resources, prepared, committed, branch>>
  PROVE  LoopInv(t)' /\ Maps(t)
<1>1. SameMembers(t) /\ SameBranch(t)
  BY DEF SameMembers, SameBranch, Members
<1>2. \/ SameDecision(t)
      \/ Decision(t) = "none" /\ Decision(t)' = "abort"
  BY <1>1 DEF SameMembers, SameDecision, Decision, Unlocked
<1>3. SameLost(t)
  BY <1>1, <1>2 DEF SameMembers, SameDecision, SameLost, Lost, Unlocked
<1>4. LoopInv(t)'
  BY DEF IInv, LoopInv, Unlocked
<1> QED
  BY <1>1, <1>2, <1>3, <1>4 DEF Maps, Stays, DecidesAbort

LEMMA ReadonlyMaps ==
  ASSUME IInv, NEW t \in Txns, CommitReadonly(t)
  PROVE  LoopInv(t)' /\ Maps(t) /\ Only(t)
<1>1. Unlocked(t) /\ Active(t) /\ resources[t] = <<>>
  BY DEF CommitReadonly, Open
<1>2. Decision(t) = "none" /\ ~Lost(t) /\ prepared[t] = {}
  BY <1>1, AtRest
<1>3. /\ UNCHANGED <<resources, prepared, committed, op, branch>> /\ client'[t] = "done"
      /\ state'[t] = "committed"
  BY DEF CommitReadonly, Answer, IInv, TypeOK
<1>4. SameMembers(t) /\ SameBranch(t)
  BY <1>3 DEF SameMembers, SameBranch, Members
<1>5. Decision(t)' = "none" /\ ~Lost(t)'
  BY <1>1, <1>2, <1>3 DEF Decision, Lost, Members, Unlocked
<1>6. LoopInv(t)'
  BY <1>1, <1>3 DEF IInv, LoopInv, Unlocked, Active
<1>7. Only(t)
  BY <1>3 DEF CommitReadonly, Answer, Only, SameTxn, IInv, TypeOK
<1> QED
  BY <1>2, <1>4, <1>5, <1>6, <1>7 DEF Maps, Stays, SameDecision, SameLost

LEMMA BeginMaps ==
  ASSUME IInv, NEW t \in Txns, BeginCommit(t)
  PROVE  LoopInv(t)' /\ Maps(t) /\ Only(t)
<1>1. Unlocked(t) /\ Active(t) /\ resources[t] # <<>>
  BY DEF BeginCommit, Open
<1>2. Waiting(t) /\ prepared[t] = {} /\ Decision(t) = "none" /\ ~Lost(t)
  BY <1>1, AtRest
<1>3. /\ UNCHANGED <<state, resources, prepared, committed, branch>> /\ client'[t] = "calling"
      /\ op'[t].phase = (IF Len(resources[t]) = 1 THEN "onephase" ELSE "prepare") /\ op'[t].next = 1
  BY DEF BeginCommit, Enter, IInv, TypeOK
<1>4. SameMembers(t) /\ SameBranch(t)
  BY <1>3 DEF SameMembers, SameBranch, Members
<1>5. Decision(t)' = "none" /\ ~Lost(t)'
  <2>1. Waiting(t)' /\ Members(t)' = Members(t) /\ Members(t) \in SUBSET Resources
    BY <1>2, <1>3, <1>4, Typed DEF Waiting, SameMembers, IInv
  <2>2. Len(resources[t]) \in Nat /\ Len(resources[t]) > 1 => Members(t) # {}
    BY Typed, SomeMember DEF IInv
  <2> QED
    BY <1>1, <1>2, <1>3, <2>1, <2>2 DEF Decision, Lost, Waiting, Active
<1>6. LoopInv(t)'
  <2>1. Len(resources[t]) # 0 /\ Len(resources[t]) \in Nat
    BY <1>1, Typed DEF IInv
  <2>2. op'[t].phase = "prepare" => Len(resources[t]) > 1
    <3>1. op'[t].phase = "prepare" => Len(resources[t]) # 1
      BY <1>3
    <3>2. Len(resources[t]) # 1 => Len(resources[t]) > 1
      BY <2>1, Several
    <3> QED
      BY <3>1, <3>2
  <2>3. \A i \in 1 .. Len(resources[t]) : branch[t][resources[t][i]] = "active" /\ ~(i < 1)
    BY <1>2, Typed DEF Waiting, IInv
  <2> QED
    BY <1>2, <1>3, <2>2, <2>3 DEF IInv, LoopInv, Waiting, Unlocked
<1>7. Only(t)
  BY <1>3 DEF BeginCommit, Enter, Only, SameTxn, IInv, TypeOK
<1> QED
  BY <1>2, <1>4, <1>5, <1>6, <1>7 DEF Maps, Stays, SameDecision, SameLost

-----------------------------------------------------------------------------
(***************************************************************************)
(* The steps of a call.                                                    *)
(***************************************************************************)
LEMMA CallOnly ==
  ASSUME IInv, NEW t \in Txns, Call(t)
  PROVE  Only(t)
<1> SUFFICES ASSUME NEW u \in Txns \ {t} PROVE SameTxn(u)
  BY DEF Only
<1>1. /\ state'[u] = state[u] /\ resources'[u] = resources[u]
      /\ prepared'[u] = prepared[u] /\ committed'[u] = committed[u] /\ branch'[u] = branch[u]
  BY DEF IInv, TypeOK, Call, OnePhase, PrepareResource, VoteYes, VoteNo, AllPrepared, CommitResource,
         FinishCommit, RollbackResource, FinishAbort, Completed, Heuristic
<1>2. \/ Return(t, "ok") \/ Return(t, "error")
      \/ UNCHANGED client /\ \E c : op' = [op EXCEPT ![t] = c]
  BY DEF Call, OnePhase, PrepareResource, VoteYes, VoteNo, AllPrepared, CommitResource,
         FinishCommit, RollbackResource, FinishAbort, Completed, Heuristic, Enter, envVars
<1>3. op'[u] = op[u] /\ client'[u] = client[u]
  BY <1>2, ReturnFrame DEF IInv, TypeOK
<1> QED
  BY <1>1, <1>3 DEF SameTxn

\* The resource whose turn it is: it comes once, and at this place.
LEMMA TurnFacts ==
  ASSUME IInv, NEW t \in Txns, HasTurn(t)
  PROVE  /\ op[t].next \in 1 .. Len(resources[t]) /\ Turn(t) = resources[t][op[t].next]
         /\ Turn(t) \in Resources /\ Turn(t) \in Members(t)
         /\ \A i \in 1 .. Len(resources[t]) : resources[t][i] = Turn(t) => i = op[t].next
<1>1. op[t].next \in 1 .. Len(resources[t])
  BY Typed DEF HasTurn, IInv
<1>2. Turn(t) = resources[t][op[t].next]
  BY DEF Turn
<1> QED
  BY <1>1, <1>2, TurnType DEF IInv, LoopInv

LEMMA OnePhaseMaps ==
  ASSUME IInv, NEW t \in Txns, OnePhase(t)
  PROVE  LoopInv(t)' /\ Maps(t)
<1> DEFINE r == Turn(t)
<1>1. /\ op[t].phase = "onephase" /\ HasTurn(t) /\ Waiting(t) /\ Active(t) /\ Len(resources[t]) = 1
      /\ ~Unlocked(t)
  BY DEF OnePhase, IInv, Inv, TxnInv, PhaseInv, LoopInv, Unlocked
<1>2. r \in Resources /\ Members(t) = {r}
  BY <1>1, Typed, TurnFacts DEF Members, IInv
<1>3. Decision(t) = "none" /\ ~Lost(t)
  BY <1>1, <1>2, Typed DEF Decision, Lost, Waiting, Active, IInv, Permanent
<1>4. SameMembers(t) /\ resources'[t] = resources[t] /\ client'[t] # "new"
  BY CallStarted DEF SameMembers, Members, OnePhase, IInv, Call
<1>5. \/ BranchTurns(t, r, "committed")
      \/ SameBranch(t) /\ op'[t].phase = "rollback" /\ committed' = committed
  BY <1>1, <1>2, Typed DEF OnePhase, BranchTurns, SameBranch, Enter, IInv, TypeOK
<1>6. ~(Len(resources'[t]) > 1) /\ ~Lost(t)'
  <2>1. ~(Len(resources[t]) > 1)
    BY <1>1, Typed, Several DEF IInv
  <2> QED
    BY <1>4, <2>1 DEF Lost
<1>7. op'[t].phase \in {"idle", "rollback"} /\ (op'[t].phase = "idle" => state'[t] = "committed")
  BY ReturnFrame DEF OnePhase, Enter, IInv, TypeOK, Idle
<1>8. LoopInv(t)'
  <2>1. \A q \in committed'[t] : branch'[t][q] \in Permanent
    <3>1. \A q \in committed[t] : FALSE
      BY <1>1, Typed DEF IInv, LoopInv, Waiting, Permanent
    <3>2. committed'[t] \subseteq committed[t] \cup {r}
      BY DEF OnePhase, IInv, TypeOK
    <3>3. branch'[t][r] = "committed" \/ committed' = committed
      BY <1>2, <1>5, Typed DEF BranchTurns, IInv
    <3> QED
      BY <3>1, <3>2, <3>3 DEF Permanent
  <2>2. \A i, j \in 1 .. Len(resources'[t]) : resources'[t][i] = resources'[t][j] => i = j
    BY <1>4 DEF IInv, LoopInv
  <2> QED
    BY <1>4, <1>7, <2>1, <2>2 DEF LoopInv, Unlocked, Active
<1>9. CASE BranchTurns(t, r, "committed")
  <2>1. Members(t)' = {r} /\ branch'[t][r] = "committed"
    BY <1>2, <1>4, <1>9, Typed DEF SameMembers, BranchTurns, IInv
  <2>2. Decision(t)' = "commit"
    BY <2>1 DEF Decision, Permanent
  <2>3. CommitsAlone(t, r)
    BY <1>2, <1>3, <1>4, <1>6, <1>9, <2>2 DEF CommitsAlone, SameLost
  <2> QED
    BY <1>2, <1>8, <2>3 DEF Maps
<1>10. CASE SameBranch(t) /\ op'[t].phase = "rollback"
  <2>1. \A q \in Members(t)' : branch'[t][q] \notin Permanent
    BY <1>1, <1>2, <1>4, <1>10 DEF SameMembers, SameBranch, Waiting, Permanent
  <2>2. Decision(t)' = "abort"
    BY <1>6, <1>10, <2>1 DEF Decision
  <2>3. DecidesAbort(t)
    BY <1>3, <1>4, <1>6, <1>10, <2>2 DEF DecidesAbort, SameLost
  <2> QED
    BY <1>8, <2>3 DEF Maps
<1> QED
  BY <1>5, <1>9, <1>10

LEMMA PrepareMaps ==
  ASSUME IInv, NEW t \in Txns, PrepareResource(t)
  PROVE  LoopInv(t)' /\ Maps(t)
<1> DEFINE r == Turn(t)
           n == op[t].next
<1>1. /\ op[t].phase = "prepare" /\ HasTurn(t) /\ Active(t) /\ Untouched(t) /\ Len(resources[t]) > 1
      /\ prepared[t] = {resources[t][i] : i \in {j \in 1 .. Len(resources[t]) : j < n}}
      /\ \A i \in 1 .. Len(resources[t]) : branch[t][resources[t][i]] = IF i < n THEN "prepared" ELSE "active"
  BY DEF PrepareResource, IInv, Inv, TxnInv, PhaseInv, LoopInv
<1>2. /\ n \in 1 .. Len(resources[t]) /\ r = resources[t][n] /\ r \in Resources /\ r \in Members(t)
      /\ \A i \in 1 .. Len(resources[t]) : resources[t][i] = r => i = n
  BY <1>1, TurnFacts
<1>3. branch[t][r] = "active" /\ r \notin prepared[t]
  BY <1>1, <1>2
<1>4. UNCHANGED <<state, resources, committed, client>>
  BY DEF PrepareResource, envVars
<1>5. SameMembers(t)
  BY <1>4 DEF SameMembers, Members
<1>6. Decision(t) = "none" /\ ~Lost(t)
  BY <1>1, Typed DEF Decision, Lost, Untouched, Active, IInv
<1>7. \A b \in Branches : branch' = [branch EXCEPT ![t][r] = b] => BranchTurns(t, r, b)
  BY <1>2 DEF BranchTurns, IInv, TypeOK
<1>8. \A q \in committed[t] : FALSE
  BY <1>1, Typed DEF IInv, LoopInv, Untouched
<1>9. CASE VoteYes(t, r)
  <2>1. BranchTurns(t, r, "prepared")
    BY <1>7, <1>9 DEF VoteYes, Branches
  <2>2. op'[t].phase = "prepare" /\ op'[t].next = n + 1
    BY <1>1, <1>9 DEF VoteYes, IInv, TypeOK, Calls
  <2>3. \A q \in Members(t)' : branch'[t][q] \notin Permanent
    BY <1>1, <1>2, <1>5, <2>1, Typed DEF SameMembers, BranchTurns, Untouched, IInv, Permanent
  <2>4. Decision(t)' = "none" /\ ~Lost(t)'
    BY <1>1, <1>4, <2>2, <2>3 DEF Decision, Lost, Active
  <2>5. Votes(t, r)
    BY <1>2, <1>3, <1>5, <1>6, <2>1, <2>4 DEF Votes, SameDecision, SameLost
  <2>6. \A i \in 1 .. Len(resources[t]) : branch'[t][resources[t][i]] = IF i < n + 1 THEN "prepared" ELSE "active"
    <3> SUFFICES ASSUME NEW i \in 1 .. Len(resources[t])
                 PROVE  branch'[t][resources[t][i]] = IF i < n + 1 THEN "prepared" ELSE "active"
      OBVIOUS
    <3>1. CASE i = n
      BY <1>2, <2>1, <3>1, Typed DEF BranchTurns, IInv
    <3>2. CASE i # n
      <4>1. resources[t][i] # r /\ resources[t][i] \in Resources
        BY <1>2, <3>2, Typed DEF IInv
      <4>2. branch'[t][resources[t][i]] = branch[t][resources[t][i]]
        BY <1>2, <2>1, <4>1, Typed DEF BranchTurns, IInv
      <4>3. i < n + 1 <=> i < n
        BY <1>2, <3>2
      <4> QED
        BY <1>1, <4>2, <4>3
    <3> QED
      BY <3>1, <3>2
  <2>7. LoopInv(t)'
    <3>1. client'[t] # "new"
      BY CallStarted DEF IInv, Call
    <3> QED
      BY <1>1, <1>4, <1>8, <2>2, <2>6, <3>1 DEF IInv, LoopInv, Unlocked
  <2> QED
    BY <1>2, <2>5, <2>7 DEF Maps
<1>10. CASE VoteNo(t, r)
  <2>1. SameBranch(t) \/ BranchTurns(t, r, "prepared")
    <3>1. BranchTurns(t, r, "active") \/ BranchTurns(t, r, "prepared")
      BY <1>7, <1>10 DEF VoteNo, Branches
    <3>2. BranchTurns(t, r, "active") => SameBranch(t)
      BY <1>3, Typed DEF BranchTurns, SameBranch, IInv
    <3> QED
      BY <3>1, <3>2
  <2>2. op'[t].phase = "rollback" /\ prepared' = prepared
    BY <1>10 DEF VoteNo, Enter, IInv, TypeOK
  <2>3. \A q \in Members(t)' : branch'[t][q] \notin Permanent
    BY <1>1, <1>2, <1>5, <2>1, Typed DEF SameMembers, SameBranch, BranchTurns, Untouched, IInv, Permanent
  <2>4. ~(Members(t)' \subseteq prepared'[t])
    BY <1>2, <1>3, <1>5, <2>2 DEF SameMembers
  <2>5. Decision(t)' = "abort" /\ ~Lost(t)'
    BY <2>2, <2>3, <2>4 DEF Decision, Lost
  <2>6. DecidesAbort(t)
    BY <1>2, <1>5, <1>6, <2>1, <2>5 DEF DecidesAbort, SameLost
  <2>7. LoopInv(t)'
    <3>1. client'[t] # "new"
      BY CallStarted DEF IInv, Call
    <3> QED
      BY <1>4, <1>8, <2>2, <3>1 DEF IInv, LoopInv, Unlocked
  <2> QED
    BY <2>6, <2>7 DEF Maps
<1> QED
  BY <1>9, <1>10 DEF PrepareResource

LEMMA AllPreparedMaps ==
  ASSUME IInv, NEW t \in Txns, AllPrepared(t)
  PROVE  LoopInv(t)' /\ Maps(t)
<1>1. /\ op[t].phase = "prepare" /\ ~HasTurn(t) /\ Active(t) /\ Untouched(t) /\ Len(resources[t]) > 1
      /\ \A i \in 1 .. Len(resources[t]) : branch[t][resources[t][i]] = IF i < op[t].next THEN "prepared" ELSE "active"
  BY DEF AllPrepared, IInv, Inv, TxnInv, PhaseInv, LoopInv
<1>2. \A i \in 1 .. Len(resources[t]) : branch[t][resources[t][i]] = "prepared"
  BY <1>1, Typed DEF HasTurn, IInv
<1>3. /\ op'[t].phase = "commit" /\ op'[t].next = 1 /\ state'[t] = "prepared"
      /\ UNCHANGED <<client, resources, prepared, committed, branch>>
  BY DEF AllPrepared, Enter, IInv, TypeOK, envVars
<1>4. SameMembers(t) /\ SameBranch(t)
  BY <1>3 DEF SameMembers, SameBranch, Members
<1>5. Decision(t) = "none" /\ ~Lost(t)
  BY <1>1, Typed DEF Decision, Lost, Untouched, Active, IInv
<1>6. PhaseInv(t)'
  BY AllPreparedInv DEF IInv
<1>7. Members(t)' = prepared'[t]
  BY <1>3, <1>6 DEF PhaseInv
<1>8. Decision(t)' = "commit" /\ ~Lost(t)'
  BY <1>1, <1>3, <1>7 DEF Decision, Lost
<1>9. Members(t) # {} /\ \A q \in Members(t) : branch[t][q] = "prepared"
  BY <1>1, <1>2, SomeMember DEF Members, IInv
<1>10. DecidesCommit(t)
  BY <1>4, <1>5, <1>8, <1>9 DEF DecidesCommit, SameLost
<1>11. LoopInv(t)'
  <2>1. client'[t] # "new"
    BY CallStarted DEF IInv, Call
  <2> QED
    BY <1>1, <1>2, <1>3, <2>1 DEF IInv, LoopInv, Unlocked
<1> QED
  BY <1>10, <1>11 DEF Maps

LEMMA CommitResourceMaps ==
  ASSUME IInv, NEW t \in Txns, CommitResource(t)
  PROVE  LoopInv(t)' /\ Maps(t)
<1> DEFINE r == Turn(t)
           n == op[t].next
<1>1. /\ op[t].phase = "commit" /\ HasTurn(t) /\ state[t] = "prepared" /\ prepared[t] = Members(t)
      /\ Len(resources[t]) > 1
      /\ \A i \in 1 .. Len(resources[t]) :
           /\ branch[t][resources[t][i]] \in {"prepared", "committed"}
           /\ i >= n => branch[t][resources[t][i]] = "prepared"
      /\ \A q \in committed[t] : branch[t][q] \in Permanent
  BY DEF CommitResource, IInv, Inv, TxnInv, PhaseInv, LoopInv
<1>2. /\ n \in 1 .. Len(resources[t]) /\ r = resources[t][n] /\ r \in Resources /\ r \in Members(t)
      /\ \A i \in 1 .. Len(resources[t]) : resources[t][i] = r => i = n
  BY <1>1, TurnFacts
<1>3. branch[t][r] = "prepared"
  BY <1>1, <1>2
<1>4. UNCHANGED <<state, resources, prepared, client>> /\ client'[t] # "new"
  BY CallStarted DEF CommitResource, envVars, IInv, Call
<1>5. SameMembers(t)
  BY <1>4 DEF SameMembers, Members
<1>6. op'[t].phase = "commit" /\ op'[t].next = n + 1
  <2>1. CASE op' = [op EXCEPT ![t].next = @ + 1]
    BY <1>1, <2>1 DEF IInv, TypeOK, Calls
  <2>2. CASE op' = [op EXCEPT ![t].next = @ + 1, ![t].failed = TRUE]
    BY <1>1, <2>2 DEF IInv, TypeOK, Calls
  <2> QED
    BY <2>1, <2>2 DEF CommitResource
<1>7. Decision(t) = "commit" /\ Decision(t)' = "commit" /\ ~Lost(t) /\ ~Lost(t)'
  BY <1>1, <1>4, <1>5, <1>6 DEF Decision, Lost, SameMembers
<1>8. /\ SameBranch(t) \/ BranchTurns(t, r, "committed")
      /\ committed'[t] = committed[t] \/ (committed'[t] = committed[t] \cup {r} /\ BranchTurns(t, r, "committed"))
  <2>1. \A b \in Branches : branch' = [branch EXCEPT ![t][r] = b] => BranchTurns(t, r, b)
    BY <1>2 DEF BranchTurns, IInv, TypeOK
  <2>2. BranchTurns(t, r, branch[t][r]) => SameBranch(t)
    BY <1>2, Typed DEF BranchTurns, SameBranch, IInv
  <2>3. \/ branch' = [branch EXCEPT ![t][r] = "committed"] /\ committed'[t] = committed[t] \cup {r}
        \/ /\ committed' = committed
           /\ \E b \in {"prepared", "committed"} : branch' = [branch EXCEPT ![t][r] = b]
    BY <1>3 DEF CommitResource, IInv, TypeOK
  <2> QED
    BY <1>3, <2>1, <2>2, <2>3 DEF Branches
<1>9. Maps(t)
  <2>1. SameBranch(t) => Stays(t)
    BY <1>5, <1>7 DEF Stays, SameDecision, SameLost
  <2>2. BranchTurns(t, r, "committed") => Commits(t, r)
    BY <1>2, <1>3, <1>5, <1>7 DEF Commits, SameDecision, SameLost
  <2> QED
    BY <1>2, <1>8, <2>1, <2>2 DEF Maps
<1>10. \A q \in Resources : \/ branch'[t][q] = branch[t][q]
                            \/ q = r /\ branch'[t][q] = "committed"
  BY <1>8, Typed DEF SameBranch, BranchTurns, IInv
<1>11. \A i \in 1 .. Len(resources[t]) :
         /\ branch'[t][resources[t][i]] \in {"prepared", "committed"}
         /\ i >= n + 1 => branch'[t][resources[t][i]] = "prepared"
  <2> SUFFICES ASSUME NEW i \in 1 .. Len(resources[t])
               PROVE  /\ branch'[t][resources[t][i]] \in {"prepared", "committed"}
                      /\ i >= n + 1 => branch'[t][resources[t][i]] = "prepared"
    OBVIOUS
  <2>1. resources[t][i] \in Resources
    BY Typed DEF IInv
  <2>2. i >= n + 1 => i >= n /\ i # n
    BY <1>2
  <2> QED
    BY <1>1, <1>2, <1>10, <2>1, <2>2
<1>12. \A q \in committed'[t] : branch'[t][q] \in Permanent
  <2>1. \A q \in committed[t] : q \in Resources
    BY Typed DEF IInv
  <2>2. BranchTurns(t, r, "committed") => branch'[t][r] = "committed"
    BY <1>2, Typed DEF BranchTurns, IInv
  <2> QED
    BY <1>1, <1>8, <1>10, <2>1, <2>2 DEF Permanent
<1>13. LoopInv(t)'
  BY <1>1, <1>4, <1>6, <1>11, <1>12 DEF IInv, LoopInv, Unlocked
<1> QED
  BY <1>9, <1>13

LEMMA FinishCommitMaps ==
  ASSUME IInv, NEW t \in Txns, FinishCommit(t)
  PROVE  LoopInv(t)' /\ Maps(t)
<1>1. /\ op[t].phase = "commit" /\ prepared[t] = Members(t) /\ Len(resources[t]) > 1
  BY DEF FinishCommit, IInv, Inv, TxnInv, PhaseInv, LoopInv
<1>2. UNCHANGED <<resources, prepared, committed, branch>> /\ client'[t] # "new"
  BY CallStarted DEF FinishCommit, IInv, Call
<1>3. op'[t].phase = "idle" /\ state'[t] \in {"committed", "heur_commit"}
  BY ReturnFrame DEF FinishCommit, Completed, Heuristic, IInv, TypeOK, Idle
<1>4. SameMembers(t) /\ SameBranch(t)
  BY <1>2 DEF SameMembers, SameBranch, Members
<1>5. Decision(t) = "commit" /\ Decision(t)' = "commit" /\ ~Lost(t)
  BY <1>1, <1>2, <1>3, <1>4 DEF Decision, Lost, SameMembers
<1>6. LoopInv(t)'
  BY <1>2, <1>3 DEF IInv, LoopInv, Unlocked, Active
<1> QED
  BY <1>4, <1>5, <1>6 DEF Maps, Stays, GivesUp, SameDecision, SameLost

LEMMA RollbackResourceMaps ==
  ASSUME IInv, NEW t \in Txns, RollbackResource(t)
  PROVE  LoopInv(t)' /\ Maps(t)
<1> DEFINE r == Turn(t)
<1>1. op[t].phase = "rollback" /\ HasTurn(t) /\ \A q \in committed[t] : branch[t][q] \in Permanent
  BY DEF RollbackResource, IInv, LoopInv
<1>2. r \in Resources /\ r \in Members(t) /\ Members(t) \in SUBSET Resources
  BY <1>1, TurnFacts, Typed DEF IInv
<1>3. UNCHANGED <<state, resources, prepared, committed, client>> /\ client'[t] # "new"
  BY CallStarted DEF RollbackResource, envVars, IInv, Call
<1>4. op'[t].phase = "rollback"
  <2>1. CASE op' = [op EXCEPT ![t].next = @ + 1]
    BY <1>1, <2>1 DEF IInv, TypeOK, Calls
  <2>2. CASE op' = [op EXCEPT ![t].next = @ + 1, ![t].failed = TRUE]
    BY <1>1, <2>2 DEF IInv, TypeOK, Calls
  <2> QED
    BY <2>1, <2>2 DEF RollbackResource
<1>5. SameMembers(t)
  BY <1>3 DEF SameMembers, Members
<1>6. \/ SameBranch(t)
      \/ branch[t][r] \in {"active", "prepared"} /\ BranchTurns(t, r, "rolledback")
      \/ branch[t][r] = "committed" /\ BranchTurns(t, r, "undone")
  <2>1. /\ branch[t][r] \in Branches
        /\ \E b \in {branch[t][r]} \cup RolledBack(branch[t][r]) : branch' = [branch EXCEPT ![t][r] = b]
    BY RollbackEffect DEF IInv
  <2>2. PICK b \in {branch[t][r]} \cup RolledBack(branch[t][r]) : BranchTurns(t, r, b)
    BY <1>2, <2>1 DEF BranchTurns, IInv, TypeOK
  <2>3. BranchTurns(t, r, branch[t][r]) => SameBranch(t)
    BY <1>2, Typed DEF BranchTurns, SameBranch, IInv
  <2> QED
    BY <2>1, <2>2, <2>3 DEF RolledBack, Permanent, Branches
<1>7. \A q \in Resources : branch'[t][q] \in Permanent <=> branch[t][q] \in Permanent
  BY RollbackEffect DEF IInv
<1>8. SameDecision(t)
  BY <1>1, <1>2, <1>3, <1>4, <1>5, <1>7 DEF SameDecision, SameMembers, Decision
<1>9. SameLost(t)
  BY <1>1, <1>3, <1>4, <1>5, <1>8 DEF SameLost, SameMembers, SameDecision, Lost
<1>10. LoopInv(t)'
  <2>1. \A q \in committed'[t] : branch'[t][q] \in Permanent
    BY <1>1, <1>3, <1>7, Typed DEF IInv
  <2> QED
    BY <1>3, <1>4, <2>1 DEF IInv, LoopInv, Unlocked
<1>11. CASE SameBranch(t)
  BY <1>5, <1>8, <1>9, <1>10, <1>11 DEF Maps, Stays
<1>12. CASE branch[t][r] \in {"active", "prepared"} /\ BranchTurns(t, r, "rolledback")
  <2>1. Decision(t) = "abort" \/ Lost(t)
    <3>1. Decision(t) \in {"commit", "abort"}
      BY <1>1 DEF Decision
    <3>2. r \notin committed[t] /\ branch[t][r] \notin Permanent
      BY <1>1, <1>12 DEF Permanent
    <3>3. ASSUME Decision(t) = "commit" PROVE Len(resources[t]) > 1
      <4>1. CASE \E q \in Members(t) : branch[t][q] \in Permanent
        <5>1. PICK q \in Members(t) : branch[t][q] \in Permanent
          BY <4>1
        <5>2. PICK i \in 1 .. Len(resources[t]), j \in 1 .. Len(resources[t]) :
                resources[t][i] = q /\ resources[t][j] = r
          BY <1>2 DEF Members
        <5>3. i # j
          BY <3>2, <5>1, <5>2
        <5>4. Len(resources[t]) \in Nat
          BY Typed DEF IInv
        <5> QED
          BY <5>3, <5>4
      <4>2. CASE ~(\E q \in Members(t) : branch[t][q] \in Permanent)
        BY <3>3, <4>2 DEF Decision
      <4> QED
        BY <4>1, <4>2
    <3> QED
      BY <1>1, <1>2, <3>1, <3>2, <3>3 DEF Lost
  <2>2. RollsBack(t, r)
    BY <1>2, <1>5, <1>8, <1>9, <1>12, <2>1 DEF RollsBack
  <2> QED
    BY <1>2, <1>10, <2>2 DEF Maps
<1>13. CASE branch[t][r] = "committed" /\ BranchTurns(t, r, "undone")
  <2>1. Decision(t) = "commit"
    BY <1>2, <1>13 DEF Decision, Permanent
  <2>2. ASSUME NEW q \in Members(t), branch[t][q] \notin Permanent PROVE Lost(t)
    <3>1. q \notin committed[t] /\ q # r
      BY <1>1, <1>13, <2>2 DEF Permanent
    <3>2. PICK i \in 1 .. Len(resources[t]), j \in 1 .. Len(resources[t]) :
            resources[t][i] = q /\ resources[t][j] = r
      BY <1>2 DEF Members
    <3>3. i # j /\ Len(resources[t]) \in Nat
      BY <3>1, <3>2, Typed DEF IInv
    <3> QED
      BY <1>1, <2>1, <3>1, <3>3 DEF Lost
  <2>3. Undoes(t, r)
    BY <1>2, <1>5, <1>8, <1>9, <1>13, <2>1, <2>2 DEF Undoes, Permanent
  <2> QED
    BY <1>2, <1>10, <2>3 DEF Maps
<1> QED
  BY <1>6, <1>11, <1>12, <1>13

LEMMA FinishAbortMaps ==
  ASSUME IInv, NEW t \in Txns, FinishAbort(t)
  PROVE  LoopInv(t)' /\ Maps(t)
<1>1. op[t].phase = "rollback"
  BY DEF FinishAbort
<1>2. UNCHANGED <<resources, prepared, committed, branch>> /\ client'[t] # "new"
  BY CallStarted DEF FinishAbort, IInv, Call
<1>3. op'[t].phase = "idle" /\ state'[t] \in {"aborted", "heur_abort"}
  BY ReturnFrame DEF FinishAbort, Completed, Heuristic, IInv, TypeOK, Idle
<1>4. SameMembers(t) /\ SameBranch(t)
  BY <1>2 DEF SameMembers, SameBranch, Members
<1>5. SameDecision(t)
  BY <1>1, <1>2, <1>3, <1>4 DEF SameMembers, SameDecision, Decision
<1>6. SameLost(t)
  BY <1>1, <1>2, <1>3, <1>4, <1>5 DEF SameMembers, SameDecision, SameLost, Lost
<1>7. LoopInv(t)'
  BY <1>2, <1>3 DEF IInv, LoopInv, Unlocked, Active
<1> QED
  BY <1>4, <1>5, <1>6, <1>7 DEF Maps, Stays

LEMMA CallMaps ==
  ASSUME IInv, NEW t \in Txns, Call(t)
  PROVE  LoopInv(t)' /\ Maps(t) /\ Only(t)
BY CallOnly, OnePhaseMaps, PrepareMaps, AllPreparedMaps, CommitResourceMaps, FinishCommitMaps,
   RollbackResourceMaps, FinishAbortMaps DEF Call

\* Abort, by whichever of its callers.
LEMMA BeginAbortMaps ==
  ASSUME IInv, NEW t \in Txns,
         \/ CommitTimedOut(t) \/ ClientAbort(t) \/ ApiAbort(t)
         \/ \E s \in Sweepers : SweepAbort(s, t)
  PROVE  LoopInv(t)' /\ Maps(t) /\ Only(t)
<1>1. /\ Unlocked(t) /\ UNCHANGED <<state, resources, prepared, committed, branch>>
      /\ \A u \in Txns \ {t} : client'[u] = client[u] /\ op'[u] = op[u]
      /\ op'[t].phase = "rollback"
  BY DEF CommitTimedOut, ClientAbort, ApiAbort, SweepAbort, Open, Enter, envVars, IInv, TypeOK
<1>2. client'[t] # "new"
  <2>1. CommitTimedOut(t) \/ ClientAbort(t) => client'[t] = "calling"
    BY DEF CommitTimedOut, ClientAbort, IInv, TypeOK
  <2>2. ApiAbort(t) \/ (\E s \in Sweepers : SweepAbort(s, t)) => Known(t) /\ client' = client
    BY DEF ApiAbort, SweepAbort, Known, envVars
  <2>3. Known(t) => client[t] # "new"
    BY Started DEF IInv, Inv
  <2> QED
    BY <2>1, <2>2, <2>3
<1>3. Only(t)
  BY <1>1 DEF Only, SameTxn
<1> QED
  BY <1>1, <1>2, <1>3, AbortMaps

-----------------------------------------------------------------------------
(***************************************************************************)
(* The whole step.                                                         *)
(***************************************************************************)
LEMMA OneMaps ==
  ASSUME IInv, TypeOK', NEW t \in Txns, LoopInv(t)', Maps(t), Only(t)
  PROVE  (\A u \in Txns : LoopInv(u)') /\ (AC!Next \/ UNCHANGED AC!vars)
<1>1. ASSUME NEW u \in Txns PROVE LoopInv(u)'
  <2>1. CASE u = t
    BY <2>1
  <2>2. CASE u # t
    BY <2>2, SameStays DEF Only, IInv
  <2> QED
    BY <2>1, <2>2
<1>2. AC!Next \/ UNCHANGED AC!vars
  BY Lifts DEF IInv
<1> QED
  BY <1>1, <1>2

\* A step that changes no transaction.
LEMMA NoneMaps ==
  ASSUME IInv, UNCHANGED txnVars, \A u \in Txns : client'[u] = client[u] \/ client'[u] # "new"
  PROVE  (\A u \in Txns : LoopInv(u)') /\ UNCHANGED AC!vars
<1>1. ASSUME NEW u \in Txns PROVE LoopInv(u)'
  <2>1. CASE client'[u] # "new"
    BY <2>1, QuietMaps
  <2>2. CASE client'[u] = client[u]
    BY <2>2, SameStays DEF SameTxn, txnVars, IInv
  <2> QED
    BY <2>1, <2>2
<1>2. \A u \in Txns : Members(u)' = Members(u)
  BY DEF txnVars, Members
<1>3. \A u \in Txns : Decision(u)' = Decision(u)
  BY <1>2 DEF txnVars, Decision
<1>4. GivenUp' = GivenUp
  BY <1>2, <1>3 DEF txnVars, GivenUp
<1> QED
  BY <1>1, <1>2, <1>3, <1>4 DEF AC!vars, txnVars

LEMMA StepMaps ==
  ASSUME IInv, TypeOK', [Next]_vars
  PROVE  (\A u \in Txns : LoopInv(u)') /\ (AC!Next \/ UNCHANGED AC!vars)
<1>1. ASSUME NEW t \in Txns, Client(t)
      PROVE  (\A u \in Txns : LoopInv(u)') /\ (AC!Next \/ UNCHANGED AC!vars)
  <2>1. CASE Start(t) \/ CommitReadonly(t) \/ BeginCommit(t)
    BY <2>1, StartMaps, ReadonlyMaps, BeginMaps, OneMaps
  <2>2. CASE \E r \in Resources : Enlist(t, r)
    BY <2>2, EnlistMaps, OneMaps
  <2>3. CASE CommitTimedOut(t) \/ ClientAbort(t)
    BY <2>3, BeginAbortMaps, OneMaps
  <2>4. CASE \/ OperationFails(t) \/ CommitRefused(t)
             \/ \E r \in Resources : EnlistRefused(t, r)
    <3>1. UNCHANGED txnVars
      BY <2>4 DEF OperationFails, CommitRefused, EnlistRefused
    <3>2. \E pc \in {"aborting", "gone", "done"} : client' = [client EXCEPT ![t] = pc]
      BY <2>4 DEF OperationFails, CommitRefused, EnlistRefused, Answer
    <3>3. \A u \in Txns : client'[u] = client[u] \/ client'[u] # "new"
      BY <3>2 DEF IInv, TypeOK
    <3> QED
      BY <3>1, <3>3, NoneMaps
  <2> QED
    BY <1>1, <2>1, <2>2, <2>3, <2>4 DEF Client
<1>2. ASSUME NEW t \in Txns, Call(t)
      PROVE  (\A u \in Txns : LoopInv(u)') /\ (AC!Next \/ UNCHANGED AC!vars)
  BY <1>2, CallMaps, OneMaps
<1>3. ASSUME NEW t \in Txns, ApiAbort(t) \/ \E s \in Sweepers : SweepAbort(s, t)
      PROVE  (\A u \in Txns : LoopInv(u)') /\ (AC!Next \/ UNCHANGED AC!vars)
  BY <1>3, BeginAbortMaps, OneMaps
<1>4. CASE UNCHANGED <<txnVars, client>>
  BY <1>4, NoneMaps
<1>5. ASSUME NEW s \in Sweepers, Sweep(s)
      PROVE  (\E t \in Txns : SweepAbort(s, t)) \/ UNCHANGED <<txnVars, client>>
  BY <1>5 DEF Sweep, Snapshot, CheckClock, SweepDone, Inspect, envVars
<1>6. ASSUME NEW t \in Txns, Expire(t) \/ Cleanup(t) \/ ApiLookup(t)
      PROVE  UNCHANGED <<txnVars, client>>
  BY <1>6 DEF Expire, Cleanup, ApiLookup, envVars
<1>7. RecoveryExits \/ UNCHANGED vars => UNCHANGED <<txnVars, client>>
  BY DEF RecoveryExits, vars, envVars
<1> QED
  BY <1>1, <1>2, <1>3, <1>4, <1>5, <1>6, <1>7 DEF Next

LEMMA InitMaps == Init => IInv /\ AC!Init
<1> SUFFICES ASSUME Init PROVE IInv /\ AC!Init
  OBVIOUS
<1>1. TypeOK /\ Inv
  BY InitType, InitInv
<1>2. ASSUME NEW t \in Txns
      PROVE  /\ resources[t] = <<>> /\ prepared[t] = {} /\ committed[t] = {} /\ op[t] = Idle
             /\ state[t] = "none" /\ Waiting(t)
  BY DEF Init, Waiting
<1>3. ASSUME NEW t \in Txns PROVE LoopInv(t)
  BY <1>2 DEF LoopInv, Idle
<1>4. ASSUME NEW t \in Txns PROVE Members(t) = {} /\ Decision(t) = "none" /\ ~Lost(t)
  <2>1. Members(t) = {} /\ Len(resources[t]) = 0
    BY <1>2 DEF Members
  <2> QED
    BY <1>2, <2>1 DEF Decision, Lost, Idle
<1>5. GivenUp = {}
  BY <1>4 DEF GivenUp, Lost
<1>6. AC!Init
  BY <1>4, <1>5 DEF AC!Init, Init
<1> QED
  BY <1>1, <1>3, <1>6 DEF IInv

\* Whoever calls the manager and whichever calls to resources fail, what
\* prepare, commit, Commit and Abort do to the branches is what two-phase
\* commit promises: one decision, all votes before it, no branch against it
\* unless the transaction was given up to heuristic completion, and
\* none undone before the commit was carried out or given up.
THEOREM ManagerImplementsAtomicCommit == Spec => ImplementsAtomicCommit
<1>1. IInv /\ [Next]_vars => IInv' /\ [AC!Next]_(AC!vars)
  <2> SUFFICES ASSUME IInv, [Next]_vars
               PROVE  IInv' /\ (AC!Next \/ UNCHANGED AC!vars)
    OBVIOUS
  <2>1. TypeOK'
    <3>1. CASE Next
      BY <3>1, CallType, ClientType, SweepType, OtherType DEF Next, IInv
    <3>2. CASE UNCHANGED vars
      BY <3>2 DEF TypeOK, vars, txnVars, mgrVars, envVars, callVars, IInv
    <3> QED
      BY <3>1, <3>2
  <2>2. Inv'
    BY NextInv DEF IInv
  <2> QED
    BY <2>1, <2>2, StepMaps DEF IInv
<1>2. Init => IInv /\ AC!Init
  BY InitMaps
<1> QED
  BY <1>1, <1>2, PTL DEF Spec, ImplementsAtomicCommit, AC!Spec
==============================================================================
