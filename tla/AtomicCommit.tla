---------------------------- MODULE AtomicCommit ----------------------------
(***************************************************************************)
(* What two-phase commit promises for a set of transactions, as seen from  *)
(* the durable states of their branches: one decision per transaction,     *)
(* which never changes; commit only when every member has voted for it;    *)
(* no branch against the decision, except that a coordinator which could   *)
(* not reach a member after deciding to commit may give the transaction up *)
(* to manual (heuristic) completion.  Permanent is not for ever: once the  *)
(* commit is carried out at every member, or given up, what a member has   *)
(* made permanent may be undone by a compensation.                         *)
(***************************************************************************)
CONSTANTS Txns, Resources

VARIABLES
  members,   \* the resources that take part in t
  branch,    \* the durable state of each branch
  decision,  \* "none", "commit" or "abort"
  givenUp    \* transactions left to heuristic completion

vars == <<members, branch, decision, givenUp>>

Init ==
  /\ members  = [t \in Txns |-> {}]
  /\ branch   = [t \in Txns |-> [r \in Resources |-> "active"]]
  /\ decision = [t \in Txns |-> "none"]
  /\ givenUp  = {}

Join(t, r) ==
  /\ decision[t] = "none"
  /\ members' = [members EXCEPT ![t] = @ \cup {r}]
  /\ UNCHANGED <<branch, decision, givenUp>>

\* A member makes sure that it can commit.
Vote(t, r) ==
  /\ decision[t] = "none"
  /\ r \in members[t] /\ branch[t][r] = "active"
  /\ branch' = [branch EXCEPT ![t][r] = "prepared"]
  /\ UNCHANGED <<members, decision, givenUp>>

DecideCommit(t) ==
  /\ decision[t] = "none"
  /\ members[t] # {} /\ \A r \in members[t] : branch[t][r] = "prepared"
  /\ decision' = [decision EXCEPT ![t] = "commit"]
  /\ UNCHANGED <<members, branch, givenUp>>

\* A member may vote no although it has prepared its branch.
DecideAbort(t) ==
  /\ decision[t] = "none"
  /\ decision' = [decision EXCEPT ![t] = "abort"]
  /\ \/ UNCHANGED branch
     \/ \E r \in members[t] : branch' = [branch EXCEPT ![t][r] = "prepared"]
  /\ UNCHANGED <<members, givenUp>>

\* The only member decides by committing.
OnePhaseCommit(t, r) ==
  /\ decision[t] = "none"
  /\ members[t] = {r}
  /\ decision' = [decision EXCEPT ![t] = "commit"]
  /\ branch'   = [branch EXCEPT ![t][r] = "committed"]
  /\ UNCHANGED <<members, givenUp>>

CommitBranch(t, r) ==
  /\ decision[t] = "commit"
  /\ r \in members[t] /\ branch[t][r] = "prepared"
  /\ branch' = [branch EXCEPT ![t][r] = "committed"]
  /\ UNCHANGED <<members, decision, givenUp>>

GiveUp(t) ==
  /\ decision[t] = "commit"
  /\ givenUp' = givenUp \cup {t}
  /\ UNCHANGED <<members, branch, decision>>

RollbackBranch(t, r) ==
  /\ decision[t] = "abort" \/ t \in givenUp
  /\ r \in members[t] /\ branch[t][r] \in {"active", "prepared"}
  /\ branch' = [branch EXCEPT ![t][r] = "rolledback"]
  /\ UNCHANGED <<members, decision, givenUp>>

\* A compensation, after the commit.
Undo(t, r) ==
  /\ decision[t] = "commit"
  /\ t \in givenUp \/ \A q \in members[t] : branch[t][q] \in {"committed", "undone"}
  /\ r \in members[t] /\ branch[t][r] = "committed"
  /\ branch' = [branch EXCEPT ![t][r] = "undone"]
  /\ UNCHANGED <<members, decision, givenUp>>

Next ==
  \E t \in Txns :
    \/ DecideCommit(t) \/ DecideAbort(t) \/ GiveUp(t)
    \/ \E r \in Resources : \/ Join(t, r) \/ Vote(t, r) \/ OnePhaseCommit(t, r)
                            \/ CommitBranch(t, r) \/ RollbackBranch(t, r) \/ Undo(t, r)

Spec == Init /\ [][Next]_vars
=============================================================================
