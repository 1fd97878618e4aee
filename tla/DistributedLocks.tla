-------------------------- MODULE DistributedLocks --------------------------
(***************************************************************************)
(* The locks that processes take through rows of one database table        *)
(* (internal/accounts/transaction/distributed_locks.go), and the sessions  *)
(* that take them: a request in the transaction middleware, a workflow, a  *)
(* recovery.  A session asks for its resources one after the other; when   *)
(* it is refused one it gives back what it has and ends.  A recovery is a  *)
(* session for each transaction it finds: one that it is refused it skips. *)
(*                                                                         *)
(* AcquireLock reads the clock, then runs a transaction at the database's  *)
(* default level READ COMMITTED: a SELECT, and later a DELETE, an INSERT   *)
(* and the COMMIT, which are one step here because nobody sees them before *)
(* the last.  (Heartbeats write a column that nobody reads, and nobody     *)
(* calls ExtendLock: both are left out.)  One clock serves all processes.  *)
(* The code compares expires_at with the time.Now() of whichever process   *)
(* looks (lines 69, 264): clocks that differ are left out.                 *)
(***************************************************************************)
EXTENDS Integers, Sequences

CONSTANTS
  Sessions,   \* each a transaction id, the owner of its locks
  Resources,
  Processes,  \* each with a lock manager of its own
  Host,       \* the process in which a session runs
  Wants,      \* the resources a session asks for, in this order
  Lease,      \* the timeout with which locks are taken
  MaxTime     \* bound on the clock

ASSUME HostAssumption  == Host \in [Sessions -> Processes]
ASSUME WantsAssumption == Wants \in [Sessions -> Seq(Resources)]
ASSUME LeaseAssumption == Lease \in Nat \ {0} /\ MaxTime \in Nat

VARIABLES
  now,       \* the clock
  rows,      \* the committed rows of the table
  sess,      \* where each session is, and the clock as it last read it
  held,      \* the locks that a session is to give back, with their expiry
  local,     \* the resources of a session in the map of its process's manager
  up,        \* the state of each process
  calm       \* so far no two transactions of AcquireLock for one resource overlapped

vars == <<now, rows, sess, held, local, up, calm>>

Row(s, r, e) == [by |-> s, res |-> r, expires |-> e]
Lock(r, e)   == [res |-> r, expires |-> e]

Session(pc) == [pc |-> pc, at |-> 1, seen |-> 0]

Wanted(s)  == Wants[s][sess[s].at]
At(s, pc)  == sess[s].pc = pc
GoTo(s, pc) == sess' = [sess EXCEPT ![s].pc = pc]

Init ==
  /\ now = 0 /\ rows = {} /\ calm = TRUE
  /\ sess  = [s \in Sessions |-> Session("ask")]
  /\ held  = [s \in Sessions |-> {}]
  /\ local = [s \in Sessions |-> {}]
  /\ up    = [n \in Processes |-> "up"]

(***************************************************************************)
(* AcquireLock.                                                            *)
(***************************************************************************)
Acquiring(s) == sess[s].pc \in {"look", "insert"}

Ask(s) ==
  /\ At(s, "ask") /\ sess[s].at \in DOMAIN Wants[s]
  /\ now + Lease <= MaxTime
  /\ sess' = [sess EXCEPT ![s].pc = "look", ![s].seen = now]
  /\ calm' = (calm /\ ~\E u \in Sessions \ {s} : Acquiring(u) /\ Wanted(u) = Wanted(s))
  /\ UNCHANGED <<now, rows, held, local, up>>

\* A row that is still good in the eyes of one who read the clock at time t.
Unexpired_Grace(x, t) == x.expires > t + 1   \* mutant: expired a little before its time
Unexpired(x, t) == x.expires > t

Taken(s) == \E x \in rows : x.res = Wanted(s) /\ Unexpired(x, sess[s].seen)

Pass(s) ==
  /\ At(s, "look") /\ ~Taken(s)
  /\ GoTo(s, "insert")
  /\ UNCHANGED <<now, rows, held, local, up, calm>>

\* The resource is locked, or the database fails.
Refuse(s) ==
  /\ \/ At(s, "look")
     \/ At(s, "insert")
  /\ sess' = [sess EXCEPT ![s] = Session("release")]
  /\ UNCHANGED <<now, rows, held, local, up, calm>>

Expiry_Twice(s) == sess[s].seen + 2 * Lease   \* mutant: the timeout is added twice
Expiry(s) == sess[s].seen + Lease

\* The rows that an acquisition removes.
Stale_All(s, x) == x.res = Wanted(s)   \* mutant: expired or not
Stale(s, x) == x.res = Wanted(s) /\ x.expires <= sess[s].seen

Insert(s) ==
  /\ At(s, "insert")
  /\ rows' = {x \in rows : ~Stale(s, x)} \cup {Row(s, Wanted(s), Expiry(s))}
  /\ GoTo(s, "register")
  /\ UNCHANGED <<now, held, local, up, calm>>

Register(s) ==
  /\ At(s, "register")
  /\ local' = [local EXCEPT ![s] = @ \cup {Wanted(s)}]
  /\ held'  = [held EXCEPT ![s] = @ \cup {Lock(Wanted(s), Expiry(s))}]
  /\ sess'  = [sess EXCEPT ![s].pc = "ask", ![s].at = @ + 1, ![s].seen = 0]
  /\ UNCHANGED <<now, rows, up, calm>>

(***************************************************************************)
(* The session has all its locks, works and ends; ReleaseLock forgets the  *)
(* lock and then deletes the row, which may fail.                          *)
(***************************************************************************)
Finish(s) ==
  /\ At(s, "ask") /\ sess[s].at \notin DOMAIN Wants[s]
  /\ sess' = [sess EXCEPT ![s] = Session("release")]
  /\ UNCHANGED <<now, rows, held, local, up, calm>>

\* ReleaseLock of a lock that the manager does not know (after Stop) does nothing.
ReleaseLock(s, l) ==
  /\ At(s, "release") /\ l \in held[s]
  /\ held'  = [held EXCEPT ![s] = @ \ {l}]
  /\ local' = [local EXCEPT ![s] = @ \ {l.res}]
  /\ IF l.res \in local[s] THEN \/ rows' = rows \ {Row(s, l.res, l.expires)}
                                \/ rows' = rows
                           ELSE rows' = rows
  /\ UNCHANGED <<now, sess, up, calm>>

End(s) ==
  /\ At(s, "release") /\ held[s] = {}
  /\ GoTo(s, "done")
  /\ UNCHANGED <<now, rows, held, local, up, calm>>

(***************************************************************************)
(* The processes and the clock.                                            *)
(***************************************************************************)
\* cleanupExpiredLocks of any process: the rows of all of them.
Removed_Own(n, x) ==   \* mutant: only the locks that the process knows
  x.expires <= now /\ Host[x.by] = n /\ x.res \in local[x.by]
Removed(n, x) == x.expires <= now

Cleanup(n) ==
  /\ up[n] = "up"
  /\ rows' = {x \in rows : ~Removed(n, x)}
  /\ UNCHANGED <<now, sess, held, local, up, calm>>

\* Stop deletes the rows of the locks in the map, whoever still works under them;
\* a delete that fails is passed over.
Known(n) == {x \in rows : Host[x.by] = n /\ x.res \in local[x.by]}

Stop(n) ==
  /\ up[n] = "up"
  /\ up' = [up EXCEPT ![n] = "stopped"]
  /\ \E gone \in SUBSET Known(n) : rows' = rows \ gone
  /\ local' = [s \in Sessions |-> IF Host[s] = n THEN {} ELSE local[s]]
  /\ UNCHANGED <<now, sess, held, calm>>

\* The memory of the process is gone, its rows are not.
Crash(n) ==
  /\ up[n] = "up"
  /\ up'    = [up EXCEPT ![n] = "down"]
  /\ sess'  = [s \in Sessions |-> IF Host[s] = n THEN Session("done") ELSE sess[s]]
  /\ held'  = [s \in Sessions |-> IF Host[s] = n THEN {} ELSE held[s]]
  /\ local' = [s \in Sessions |-> IF Host[s] = n THEN {} ELSE local[s]]
  /\ UNCHANGED <<now, rows, calm>>

Tick ==
  /\ now < MaxTime
  /\ now' = now + 1
  /\ UNCHANGED <<rows, sess, held, local, up, calm>>

Next ==
  \/ \E s \in Sessions :
       \/ Ask(s) \/ Pass(s) \/ Refuse(s) \/ Insert(s) \/ Register(s) \/ Finish(s) \/ End(s)
       \/ \E l \in held[s] : ReleaseLock(s, l)
  \/ \E n \in Processes : Cleanup(n) \/ Stop(n) \/ Crash(n)
  \/ Tick

\* The clock advances, and a process that is up runs its cleanup ticker.
Spec == Init /\ [][Next]_vars
FairSpec == Spec /\ WF_vars(Tick) /\ \A n \in Processes : WF_vars(Cleanup(n))

(***************************************************************************)
(* Properties.                                                             *)
(***************************************************************************)
Rows == [by : Sessions, res : Resources, expires : Nat]

TypeOK ==
  /\ now \in Nat
  /\ rows \subseteq Rows /\ \A x \in rows : x.expires <= now + Lease
  /\ sess \in [Sessions ->
       [pc   : {"ask", "look", "insert", "register", "release", "done"},
        at   : Nat \ {0}, seen : Nat]]
  /\ held \in [Sessions -> SUBSET [res : Resources, expires : Nat]]
  /\ local \in [Sessions -> SUBSET Resources]
  /\ up \in [Processes -> {"up", "stopped", "down"}]
  /\ calm \in BOOLEAN

\* Two sessions of processes that run hold the same resource only if the lease of
\* one has passed, unless two acquisitions of one resource overlapped (then both
\* may have found no row: nothing in the table forbids the second).
Holds(s, l) == up[Host[s]] = "up" /\ l \in held[s] /\ l.expires > now
MutualExclusion ==
  calm => \A s, u \in Sessions : \A l \in held[s], k \in held[u] :
            Holds(s, l) /\ Holds(u, k) /\ s # u => l.res # k.res

\* An unexpired row goes only when its session releases the lock or the session's
\* process stops; neither another's acquisition nor a cleanup takes it away.
LeaseIsKept ==
  [][\A x \in rows :
       x \notin rows' /\ x.expires > now
         => \/ Lock(x.res, x.expires) \in held[x.by] \ held'[x.by]
            \/ up[Host[x.by]] = "up" /\ up'[Host[x.by]] = "stopped"]_vars

\* Every row goes in the end, also that of a session which ended without
\* deleting it or whose process went down, as long as some process runs.
HasRow(s) == \E x \in rows : x.by = s
RowsGo ==
  \A s \in Sessions : HasRow(s) ~> (~HasRow(s) \/ \A n \in Processes : up[n] # "up")
=============================================================================
