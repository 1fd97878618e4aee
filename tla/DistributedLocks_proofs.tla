----------------------- MODULE DistributedLocks_proofs -----------------------
(***************************************************************************)
(* The leases of DistributedLocks, for every set of sessions, processes    *)
(* and resources, every order of the requests and every timeout.           *)
(*                                                                         *)
(* MutualExclusion is not inductive.  It follows from two facts about the  *)
(* table: a lock that is held and has not expired has its row (HeldHasRow) *)
(* and a resource has one row (OneRow).  The latter holds because one who  *)
(* is about to insert saw no row that was unexpired when he read the clock *)
(* (Passed), which stays so as long as no other acquires the same resource *)
(* at the same time (Apart).                                               *)
(***************************************************************************)
EXTENDS DistributedLocks, TLAPS

Asking ==
  \A s \in Sessions :
    sess[s].pc \in {"look", "insert", "register"} => sess[s].at \in DOMAIN Wants[s]

Clocks == \A s \in Sessions : sess[s].seen <= now

HeldHasRow ==
  \A s \in Sessions :
    up[Host[s]] = "up" =>
      /\ \A l \in held[s] : l.expires > now => Row(s, l.res, l.expires) \in rows
      /\ sess[s].pc = "register" /\ Expiry(s) > now => Row(s, Wanted(s), Expiry(s)) \in rows

Apart ==
  calm => \A s, u \in Sessions :
            Acquiring(s) /\ Acquiring(u) /\ s # u => Wanted(s) # Wanted(u)

Passed ==
  calm => \A s \in Sessions :
            sess[s].pc = "insert" =>
              \A x \in rows : x.res = Wanted(s) => x.expires <= sess[s].seen

OneRow == calm => \A x, y \in rows : x.res = y.res => x = y

IInv == TypeOK /\ Asking /\ Clocks /\ HeldHasRow /\ Apart /\ Passed /\ OneRow

SessionStates ==
  [pc : {"ask", "look", "insert", "register", "release", "done"}, at : Nat \ {0}, seen : Nat]

-----------------------------------------------------------------------------
\* The resource that a session asks for is one.
LEMMA WantedType ==
  ASSUME TypeOK, NEW s \in Sessions, sess[s].at \in DOMAIN Wants[s]
  PROVE  Wanted(s) \in Resources
BY WantsAssumption DEF TypeOK, Wanted

LEMMA InitIInv == Init => IInv
BY HostAssumption, WantsAssumption, LeaseAssumption
   DEF Init, IInv, TypeOK, Asking, Clocks, HeldHasRow, Apart, Passed, OneRow, Session, Acquiring, Rows

-----------------------------------------------------------------------------
(***************************************************************************)
(* Types, program counters and clocks.                                     *)
(***************************************************************************)
LEMMA TypesKept == IInv /\ [Next]_vars => TypeOK' /\ Asking' /\ Clocks'
<1> SUFFICES ASSUME IInv, [Next]_vars PROVE TypeOK' /\ Asking' /\ Clocks'
  OBVIOUS
<1> USE HostAssumption, WantsAssumption, LeaseAssumption
        DEF IInv, TypeOK, Asking, Clocks, Rows
<1>1. ASSUME NEW s \in Sessions, Ask(s) PROVE TypeOK' /\ Asking' /\ Clocks'
  <2>1. sess' \in [Sessions -> SessionStates]
    BY <1>1 DEF Ask, SessionStates
  <2>2. calm' \in BOOLEAN
    BY <1>1, Zenon DEF Ask
  <2>3. Asking' /\ Clocks'
    BY <1>1 DEF Ask, At
  <2> QED
    BY <1>1, <2>1, <2>2, <2>3 DEF Ask, SessionStates
<1>2. ASSUME NEW s \in Sessions, Pass(s) PROVE TypeOK' /\ Asking' /\ Clocks'
  BY <1>2 DEF Pass, At, GoTo
<1>3. ASSUME NEW s \in Sessions, Refuse(s) PROVE TypeOK' /\ Asking' /\ Clocks'
  BY <1>3 DEF Refuse, At, Session
<1>4. ASSUME NEW s \in Sessions, Insert(s) PROVE TypeOK' /\ Asking' /\ Clocks'
  <2>1. Wanted(s) \in Resources
    BY <1>4, WantedType DEF Insert, At
  <2>2. Row(s, Wanted(s), Expiry(s)) \in Rows /\ Expiry(s) <= now + Lease
    BY <2>1 DEF Row, Expiry
  <2>3. Row(s, Wanted(s), Expiry(s)).expires = Expiry(s)
    BY DEF Row
  <2> QED
    <3>1. rows' \subseteq Rows /\ \A x \in rows' : x.expires <= now + Lease
      BY <1>4, <2>2, <2>3 DEF Insert
    <3>2. sess' \in [Sessions -> SessionStates] /\ Asking' /\ Clocks'
      BY <1>4 DEF Insert, At, GoTo, SessionStates
    <3> QED
      BY <1>4, <3>1, <3>2 DEF Insert, SessionStates
<1>5. ASSUME NEW s \in Sessions, Register(s) PROVE TypeOK' /\ Asking' /\ Clocks'
  <2>1. Wanted(s) \in Resources
    BY <1>5, WantedType DEF Register, At
  <2>2. Lock(Wanted(s), Expiry(s)) \in [res : Resources, expires : Nat]
    BY <2>1 DEF Lock, Expiry
  <2> QED
    <3>1. sess' \in [Sessions -> SessionStates] /\ Asking' /\ Clocks'
      <4>1. sess[s].at + 1 \in Nat \ {0}
        OBVIOUS
      <4>2. [sess[s] EXCEPT !.pc = "ask", !.at = @ + 1, !.seen = 0] \in SessionStates
        BY <4>1 DEF SessionStates
      <4>3. sess' = [sess EXCEPT ![s] = [sess[s] EXCEPT !.pc = "ask", !.at = @ + 1, !.seen = 0]]
        BY <1>5 DEF Register
      <4>4. sess' \in [Sessions -> SessionStates]
        BY <4>2, <4>3 DEF SessionStates
      <4>5. Asking' /\ Clocks'
        BY <1>5, <4>3 DEF Register
      <4> QED
        BY <4>4, <4>5
    <3>2. held' \in [Sessions -> SUBSET [res : Resources, expires : Nat]]
      BY <1>5, <2>2 DEF Register
    <3>3. local' \in [Sessions -> SUBSET Resources]
      BY <1>5, <2>1 DEF Register
    <3> QED
      BY <1>5, <3>1, <3>2, <3>3 DEF Register, SessionStates
<1>6. ASSUME NEW s \in Sessions, Finish(s) \/ End(s) PROVE TypeOK' /\ Asking' /\ Clocks'
  <2>1. CASE Finish(s)
    BY <2>1 DEF Finish, At, Session
  <2>2. CASE End(s)
    BY <2>2 DEF End, At, GoTo
  <2> QED
    BY <1>6, <2>1, <2>2
<1>7. ASSUME NEW s \in Sessions, NEW l \in held[s], ReleaseLock(s, l)
      PROVE  TypeOK' /\ Asking' /\ Clocks'
  <2>1. rows' \subseteq rows
    BY <1>7 DEF ReleaseLock
  <2> QED
    BY <1>7, <2>1 DEF ReleaseLock, At
<1>8. ASSUME NEW n \in Processes, Cleanup(n) PROVE TypeOK' /\ Asking' /\ Clocks'
  BY <1>8 DEF Cleanup
<1>9. ASSUME NEW n \in Processes, Stop(n) PROVE TypeOK' /\ Asking' /\ Clocks'
  <2>1. rows' \subseteq rows
    BY <1>9 DEF Stop
  <2> QED
    BY <1>9, <2>1 DEF Stop
<1>10. ASSUME NEW n \in Processes, Crash(n) PROVE TypeOK' /\ Asking' /\ Clocks'
  BY <1>10 DEF Crash, Session
<1>11. CASE Tick
  BY <1>11 DEF Tick
<1>12. CASE UNCHANGED vars
  BY <1>12 DEF vars
<1> QED
  BY <1>1, <1>2, <1>3, <1>4, <1>5, <1>6, <1>7, <1>8, <1>9, <1>10, <1>11, <1>12 DEF Next

-----------------------------------------------------------------------------
(***************************************************************************)
(* What is on the way out is expired, released, or its process stops.      *)
(***************************************************************************)
LEMMA RowsLost ==
  ASSUME IInv, [Next]_vars, NEW x \in rows, x \notin rows', x.expires > now
  PROVE  \/ \E s \in Sessions : \E l \in held[s] : ReleaseLock(s, l) /\ x = Row(s, l.res, l.expires)
         \/ \E n \in Processes : Stop(n) /\ Host[x.by] = n
<1> USE LeaseAssumption DEF IInv, TypeOK, Rows
<1>1. ASSUME NEW s \in Sessions, Insert(s) PROVE FALSE
  <2>1. Stale(s, x)
    BY <1>1 DEF Insert
  <2>2. x.expires <= sess[s].seen /\ sess[s].seen <= now
    BY <2>1 DEF Stale, Clocks
  <2> QED
    BY <2>2
<1>2. ASSUME NEW n \in Processes, Cleanup(n) PROVE FALSE
  BY <1>2 DEF Cleanup, Removed
<1>3. ASSUME NEW n \in Processes, Stop(n) PROVE Host[x.by] = n
  BY <1>3 DEF Stop, Known
<1>4. ASSUME NEW s \in Sessions, NEW l \in held[s], ReleaseLock(s, l)
      PROVE  x = Row(s, l.res, l.expires)
  BY <1>4 DEF ReleaseLock
<1>5. ASSUME NEW s \in Sessions, Ask(s) \/ Pass(s) \/ Refuse(s) \/ Register(s) \/ Finish(s) \/ End(s)
      PROVE  FALSE
  BY <1>5 DEF Ask, Pass, Refuse, Register, Finish, End
<1>6. ASSUME NEW n \in Processes, Crash(n) PROVE FALSE
  BY <1>6 DEF Crash
<1>7. CASE Tick \/ UNCHANGED vars
  BY <1>7 DEF Tick, vars
<1> QED
  BY <1>1, <1>2, <1>3, <1>4, <1>5, <1>6, <1>7 DEF Next

-----------------------------------------------------------------------------
(***************************************************************************)
(* A lock that is held and has not expired has its row.                    *)
(***************************************************************************)
\* A row stays if it has not expired, another session or lock is released, and no
\* process stops but one that is not the row's.
LEMMA RowStays ==
  ASSUME IInv, [Next]_vars, NEW s \in Sessions, NEW r \in Resources, NEW e \in Nat,
         Row(s, r, e) \in rows, e > now, up'[Host[s]] = "up",
         \A l \in held[s] : ~(ReleaseLock(s, l) /\ l.res = r /\ l.expires = e)
  PROVE  Row(s, r, e) \in rows'
<1> SUFFICES ASSUME Row(s, r, e) \notin rows' PROVE FALSE
  OBVIOUS
<1>1. Row(s, r, e).by = s /\ Row(s, r, e).res = r /\ Row(s, r, e).expires = e
  BY DEF Row
<1>2. ASSUME NEW u \in Sessions, NEW l \in held[u],
             ReleaseLock(u, l), Row(s, r, e) = Row(u, l.res, l.expires)
      PROVE  FALSE
  <2>1. u = s /\ l.res = r /\ l.expires = e
    BY <1>2, <1>1 DEF Row
  <2> QED
    BY <1>2, <2>1
<1>3. ASSUME NEW n \in Processes, Stop(n), Host[s] = n PROVE FALSE
  BY <1>3 DEF Stop, IInv, TypeOK
<1> QED
  BY <1>1, <1>2, <1>3, RowsLost

\* How a step changes what a session holds and where it is.
LEMMA SessionStep ==
  ASSUME IInv, [Next]_vars, NEW s \in Sessions
  PROVE  /\ now <= now'
         /\ up'[Host[s]] = "up" => up[Host[s]] = "up"
         /\ \A l \in held'[s] : l \notin held[s] => Register(s) /\ l = Lock(Wanted(s), Expiry(s))
         /\ sess'[s].pc = "register" /\ sess'[s] # sess[s] => Insert(s)
<1> DEFINE Goal ==
      /\ now <= now'
      /\ up'[Host[s]] = "up" => up[Host[s]] = "up"
      /\ \A l \in held'[s] : l \notin held[s] => Register(s) /\ l = Lock(Wanted(s), Expiry(s))
      /\ sess'[s].pc = "register" /\ sess'[s] # sess[s] => Insert(s)
<1> USE HostAssumption DEF IInv, TypeOK
<1>1. ASSUME NEW u \in Sessions, Ask(u) \/ Pass(u) \/ Refuse(u) \/ Finish(u) \/ End(u) PROVE Goal
  <2>1. now' = now /\ up' = up /\ held' = held
    BY <1>1 DEF Ask, Pass, Refuse, Finish, End
  <2>2. \E q : sess' = [sess EXCEPT ![u] = q] /\ q.pc # "register"
    <3>1. CASE Ask(u)
      <4>1. sess' = [sess EXCEPT ![u] = [sess[u] EXCEPT !.pc = "look", !.seen = now]]
        BY <3>1 DEF Ask
      <4>2. [sess[u] EXCEPT !.pc = "look", !.seen = now].pc = "look"
        OBVIOUS
      <4> QED
        BY <4>1, <4>2
    <3>2. CASE Pass(u) \/ End(u)
      BY <3>2 DEF Pass, End, GoTo
    <3>3. CASE Refuse(u) \/ Finish(u)
      BY <3>3 DEF Refuse, Finish, Session
    <3> QED
      BY <1>1, <3>1, <3>2, <3>3
  <2>3. sess'[s].pc = "register" => sess'[s] = sess[s]
    BY <2>2
  <2> QED
    BY <2>1, <2>3
<1>2. ASSUME NEW u \in Sessions, Insert(u) PROVE Goal
  <2>1. now' = now /\ up' = up /\ held' = held
    BY <1>2 DEF Insert
  <2>2. sess'[s] # sess[s] => u = s
    BY <1>2 DEF Insert, GoTo
  <2> QED
    BY <1>2, <2>1, <2>2
<1>3. ASSUME NEW u \in Sessions, Register(u) PROVE Goal
  BY <1>3 DEF Register
<1>4. ASSUME NEW u \in Sessions, NEW l \in held[u], ReleaseLock(u, l) PROVE Goal
  BY <1>4 DEF ReleaseLock
<1>5. ASSUME NEW n \in Processes, Cleanup(n) PROVE Goal
  BY <1>5 DEF Cleanup
<1>6. ASSUME NEW n \in Processes, Stop(n) PROVE Goal
  BY <1>6 DEF Stop
<1>7. ASSUME NEW n \in Processes, Crash(n) PROVE Goal
  BY <1>7 DEF Crash, Session
<1>8. CASE Tick
  BY <1>8 DEF Tick
<1>9. CASE UNCHANGED vars
  BY <1>9 DEF vars
<1> QED
  BY <1>1, <1>2, <1>3, <1>4, <1>5, <1>6, <1>7, <1>8, <1>9 DEF Next

\* A lock is known by its fields.
LEMMA LockFields ==
  ASSUME NEW l \in [res : Resources, expires : Nat], NEW k \in [res : Resources, expires : Nat],
         l.res = k.res, l.expires = k.expires
  PROVE  l = k
OBVIOUS

LEMMA HeldKept == IInv /\ [Next]_vars => HeldHasRow'
<1> SUFFICES ASSUME IInv, [Next]_vars, NEW s \in Sessions, up'[Host[s]] = "up"
             PROVE  /\ \A l \in held'[s] : l.expires > now' => Row(s, l.res, l.expires) \in rows'
                    /\ sess'[s].pc = "register" /\ Expiry(s)' > now'
                         => Row(s, Wanted(s)', Expiry(s)') \in rows'
  BY DEF HeldHasRow
<1> USE HostAssumption, WantsAssumption, LeaseAssumption DEF IInv, TypeOK
<1>1. TypeOK' /\ now <= now' /\ up[Host[s]] = "up"
  BY TypesKept, SessionStep
<1>2. ASSUME NEW l \in held'[s], l.expires > now' PROVE Row(s, l.res, l.expires) \in rows'
  <2>1. l.res \in Resources /\ l.expires \in Nat /\ now' \in Nat /\ l.expires > now
    BY <1>1, <1>2
  <2>2. CASE l \in held[s]
    <3>1. Row(s, l.res, l.expires) \in rows
      BY <1>1, <2>1, <2>2 DEF HeldHasRow
    <3>2. ASSUME NEW k \in held[s], ReleaseLock(s, k), k.res = l.res, k.expires = l.expires
          PROVE  FALSE
      <4>1. k = l
        BY <3>2, <2>2, LockFields
      <4> QED
        BY <3>2, <4>1, <1>2 DEF ReleaseLock
    <3> QED
      BY <2>1, <3>1, <3>2, RowStays
  <2>3. CASE l \notin held[s]
    <3>1. Register(s) /\ l = Lock(Wanted(s), Expiry(s))
      BY <1>2, <2>3, SessionStep
    <3>2. l.res = Wanted(s) /\ l.expires = Expiry(s)
      BY <3>1 DEF Lock
    <3>3. Row(s, Wanted(s), Expiry(s)) \in rows
      BY <1>1, <2>1, <3>1, <3>2 DEF HeldHasRow, Register, At
    <3>4. rows' = rows
      BY <3>1 DEF Register
    <3> QED
      BY <3>2, <3>3, <3>4
  <2> QED
    BY <2>2, <2>3
<1>3. ASSUME sess'[s].pc = "register", Expiry(s)' > now' PROVE Row(s, Wanted(s)', Expiry(s)') \in rows'
  <2>1. CASE sess'[s] = sess[s]
    <3>1. sess[s].at \in DOMAIN Wants[s] /\ sess[s].pc = "register"
      BY <1>3, <2>1 DEF Asking
    <3>2. Wanted(s) \in Resources /\ Wanted(s)' = Wanted(s)
      BY <2>1, <3>1, WantedType DEF Wanted
    <3>3. Expiry(s) \in Nat /\ Expiry(s)' = Expiry(s) /\ Expiry(s) > now
      BY <2>1, <1>1, <1>3 DEF Expiry
    <3>4. Row(s, Wanted(s), Expiry(s)) \in rows
      BY <1>1, <3>1, <3>3 DEF HeldHasRow
    <3>5. \A l \in held[s] : ~ReleaseLock(s, l)
      BY <3>1 DEF ReleaseLock, At
    <3> QED
      BY <3>2, <3>3, <3>4, <3>5, RowStays
  <2>2. CASE sess'[s] # sess[s]
    <3>1. Insert(s)
      BY <1>3, <2>2, SessionStep
    <3>2. Wanted(s)' = Wanted(s) /\ Expiry(s)' = Expiry(s)
      BY <3>1 DEF Insert, GoTo, Wanted, Expiry
    <3> QED
      BY <3>1, <3>2 DEF Insert
  <2> QED
    BY <2>1, <2>2
<1> QED
  BY <1>2, <1>3

-----------------------------------------------------------------------------
(***************************************************************************)
(* One row for each resource.                                              *)
(***************************************************************************)
\* A session that acquires was already acquiring the same resource, or asks now;
\* one that inserts has just passed, or was about to insert.
LEMMA Acquirers ==
  ASSUME IInv, [Next]_vars, NEW s \in Sessions, Acquiring(s)'
  PROVE  /\ Wanted(s)' = Wanted(s)
         /\ Ask(s) \/ Acquiring(s)
         /\ sess'[s].pc = "insert" => /\ sess'[s].seen = sess[s].seen
                                      /\ Pass(s) \/ sess[s].pc = "insert"
<1> DEFINE Goal ==
      /\ Wanted(s)' = Wanted(s)
      /\ Ask(s) \/ Acquiring(s)
      /\ sess'[s].pc = "insert" => /\ sess'[s].seen = sess[s].seen
                                   /\ Pass(s) \/ sess[s].pc = "insert"
<1> USE HostAssumption DEF IInv, TypeOK, Acquiring, Wanted
<1>1. CASE sess'[s] = sess[s]
  BY <1>1
<1>2. ASSUME NEW u \in Sessions, Ask(u) PROVE Goal
  BY <1>2 DEF Ask, At
<1>3. ASSUME NEW u \in Sessions, Pass(u) PROVE Goal
  BY <1>3 DEF Pass, At, GoTo
<1>4. ASSUME NEW u \in Sessions, Refuse(u) \/ Finish(u) PROVE Goal
  <2>1. sess' = [sess EXCEPT ![u] = Session("release")]
    BY <1>4 DEF Refuse, Finish
  <2> QED
    BY <1>1, <2>1 DEF Session
<1>5. ASSUME NEW u \in Sessions, Insert(u) \/ End(u) PROVE Goal
  <2>1. u # s => sess'[s] = sess[s]
    BY <1>5 DEF Insert, End, GoTo
  <2>2. u = s => sess'[s].pc \in {"register", "done"}
    BY <1>5 DEF Insert, End, GoTo
  <2> QED
    BY <1>1, <2>1, <2>2
<1>6. ASSUME NEW u \in Sessions, Register(u) PROVE Goal
  BY <1>6 DEF Register
<1>7. ASSUME NEW n \in Processes, Crash(n) PROVE Goal
  BY <1>7 DEF Crash, Session
<1>8. ASSUME sess' = sess PROVE Goal
  BY <1>1, <1>8
<1>9. ASSUME NEW n \in Processes, Cleanup(n) \/ Stop(n) PROVE sess' = sess
  BY <1>9 DEF Cleanup, Stop
<1>10. ASSUME NEW u \in Sessions, NEW l \in held[u], ReleaseLock(u, l) PROVE sess' = sess
  BY <1>10 DEF ReleaseLock
<1>11. ASSUME Tick \/ UNCHANGED vars PROVE sess' = sess
  BY <1>11 DEF Tick, vars
<1> QED
  BY <1>2, <1>3, <1>4, <1>5, <1>6, <1>7, <1>8, <1>9, <1>10, <1>11 DEF Next

\* What has not been calm stays so.
LEMMA CalmBefore == IInv /\ [Next]_vars /\ calm' => calm
<1> SUFFICES ASSUME IInv, [Next]_vars, calm' PROVE calm
  OBVIOUS
<1>1. ASSUME NEW s \in Sessions, Ask(s) PROVE calm
  BY <1>1, Zenon DEF Ask
<1>2. ASSUME calm' = calm PROVE calm
  BY <1>2
<1>3. ASSUME NEW s \in Sessions,
             Pass(s) \/ Refuse(s) \/ Insert(s) \/ Register(s) \/ Finish(s) \/ End(s)
      PROVE  calm' = calm
  BY <1>3 DEF Pass, Refuse, Insert, Register, Finish, End
<1>4. ASSUME NEW s \in Sessions, NEW l \in held[s], ReleaseLock(s, l) PROVE calm' = calm
  BY <1>4 DEF ReleaseLock
<1>5. ASSUME NEW n \in Processes, Cleanup(n) \/ Stop(n) \/ Crash(n) PROVE calm' = calm
  BY <1>5 DEF Cleanup, Stop, Crash
<1>6. ASSUME Tick \/ UNCHANGED vars PROVE calm' = calm
  BY <1>6 DEF Tick, vars
<1> QED
  BY <1>1, <1>2, <1>3, <1>4, <1>5, <1>6 DEF Next

LEMMA ApartKept == IInv /\ [Next]_vars => Apart'
<1> SUFFICES ASSUME IInv, [Next]_vars, calm', NEW s \in Sessions, NEW u \in Sessions,
                    Acquiring(s)', Acquiring(u)', s # u, Wanted(s)' = Wanted(u)'
             PROVE  FALSE
  BY DEF Apart
<1>1. calm /\ Wanted(s) = Wanted(u)
  BY CalmBefore, Acquirers
<1>2. ASSUME NEW v \in Sessions, NEW w \in Sessions, v # w,
             Ask(v), Acquiring(w)', Wanted(v) = Wanted(w)
      PROVE  FALSE
  <2>1. sess'[w] = sess[w]
    BY <1>2 DEF Ask, IInv, TypeOK
  <2>2. Acquiring(w)
    BY <1>2, <2>1 DEF Acquiring
  <2> QED
    BY <1>2, <2>2 DEF Ask
<1>3. ~Ask(s) /\ ~Ask(u)
  BY <1>1, <1>2
<1>4. Acquiring(s) /\ Acquiring(u)
  BY <1>3, Acquirers
<1> QED
  BY <1>1, <1>4 DEF IInv, Apart

\* Only Insert adds a row.
LEMMA RowsAdded ==
  ASSUME IInv, [Next]_vars, NEW x \in rows', x \notin rows
  PROVE  \E s \in Sessions : Insert(s) /\ x = Row(s, Wanted(s), Expiry(s))
<1>1. ASSUME NEW s \in Sessions, Insert(s) PROVE x = Row(s, Wanted(s), Expiry(s))
  BY <1>1 DEF Insert
<1>2. ASSUME rows' \subseteq rows PROVE FALSE
  BY <1>2
<1>3. ASSUME NEW s \in Sessions, Ask(s) \/ Pass(s) \/ Refuse(s) \/ Register(s) \/ Finish(s) \/ End(s)
      PROVE  rows' \subseteq rows
  BY <1>3 DEF Ask, Pass, Refuse, Register, Finish, End
<1>4. ASSUME NEW s \in Sessions, NEW l \in held[s], ReleaseLock(s, l) PROVE rows' \subseteq rows
  BY <1>4 DEF ReleaseLock
<1>5. ASSUME NEW n \in Processes, Cleanup(n) \/ Stop(n) \/ Crash(n) PROVE rows' \subseteq rows
  BY <1>5 DEF Cleanup, Stop, Crash
<1>6. ASSUME Tick \/ UNCHANGED vars PROVE rows' \subseteq rows
  BY <1>6 DEF Tick, vars
<1> QED
  BY <1>1, <1>2, <1>3, <1>4, <1>5, <1>6 DEF Next

LEMMA PassedKept == IInv /\ [Next]_vars => Passed'
<1> SUFFICES ASSUME IInv, [Next]_vars, calm', NEW s \in Sessions, sess'[s].pc = "insert",
                    NEW x \in rows', x.res = Wanted(s)'
             PROVE  x.expires <= sess'[s].seen
  BY DEF Passed
<1>1. /\ calm /\ x.res = Wanted(s) /\ sess'[s].seen = sess[s].seen /\ Acquiring(s)
      /\ Pass(s) \/ sess[s].pc = "insert"
  <2>1. Acquiring(s)'
    BY DEF Acquiring
  <2>2. Pass(s) => Acquiring(s)
    BY DEF Pass, At, Acquiring
  <2>3. sess[s].pc = "insert" => Acquiring(s)
    BY DEF Acquiring
  <2> QED
    BY <2>1, <2>2, <2>3, CalmBefore, Acquirers
<1>2. CASE x \notin rows
  <2>1. PICK u \in Sessions : Insert(u) /\ x = Row(u, Wanted(u), Expiry(u))
    BY <1>2, RowsAdded
  <2>2. Wanted(u) = Wanted(s) /\ Acquiring(u)
    BY <1>1, <2>1 DEF Row, Insert, At, Acquiring
  <2>3. u = s
    BY <1>1, <2>2 DEF IInv, Apart
  <2>4. sess'[s].pc = "register"
    BY <2>1, <2>3 DEF Insert, GoTo, IInv, TypeOK
  <2> QED
    BY <2>4
<1>3. CASE x \in rows /\ sess[s].pc = "insert"
  BY <1>1, <1>3 DEF IInv, Passed
<1>4. CASE x \in rows /\ Pass(s)
  <2>1. ~(x.expires > sess[s].seen)
    BY <1>1, <1>4 DEF Pass, Taken, Unexpired
  <2>2. x.expires \in Nat /\ sess[s].seen \in Nat
    BY <1>4 DEF IInv, TypeOK, Rows
  <2> QED
    BY <1>1, <2>1, <2>2
<1> QED
  BY <1>1, <1>2, <1>3, <1>4

LEMMA OneRowKept == IInv /\ [Next]_vars => OneRow'
<1> SUFFICES ASSUME IInv, [Next]_vars, calm', NEW x \in rows', NEW y \in rows', x.res = y.res
             PROVE  x = y
  BY DEF OneRow
<1>1. calm
  BY CalmBefore
<1>2. ASSUME NEW s \in Sessions, Insert(s), NEW z \in rows', z.res = Wanted(s)
      PROVE  z = Row(s, Wanted(s), Expiry(s))
  <2> SUFFICES ASSUME z \in rows, ~Stale(s, z) PROVE FALSE
    BY <1>2 DEF Insert
  <2>1. z.expires <= sess[s].seen
    BY <1>1, <1>2 DEF IInv, Passed, Insert, At
  <2> QED
    BY <1>2, <2>1 DEF Stale
<1>3. ASSUME NEW z \in rows', z \notin rows PROVE \A w \in rows' : w.res = z.res => w = z
  <2>1. PICK s \in Sessions : Insert(s) /\ z = Row(s, Wanted(s), Expiry(s))
    BY <1>3, RowsAdded
  <2>2. z.res = Wanted(s)
    BY <2>1 DEF Row
  <2> QED
    BY <1>2, <2>1, <2>2
<1>4. CASE x \in rows /\ y \in rows
  BY <1>1, <1>4 DEF IInv, OneRow
<1> QED
  BY <1>3, <1>4

-----------------------------------------------------------------------------
(***************************************************************************)
(* Theorems.                                                               *)
(***************************************************************************)
LEMMA Invariance == Spec => []IInv
<1>1. IInv /\ [Next]_vars => IInv'
  <2> SUFFICES ASSUME IInv, [Next]_vars PROVE IInv'
    OBVIOUS
  <2>1. TypeOK' /\ Asking' /\ Clocks'
    BY TypesKept
  <2>2. HeldHasRow' /\ Apart' /\ Passed' /\ OneRow'
    BY HeldKept, ApartKept, PassedKept, OneRowKept
  <2> QED
    BY <2>1, <2>2 DEF IInv
<1> QED
  BY InitIInv, <1>1, PTL DEF Spec

\* Rows, sessions and locks keep their types, and no row outlives a lease.
THEOREM TypeCorrect == Spec => []TypeOK
<1>1. IInv => TypeOK
  BY DEF IInv
<1> QED
  BY Invariance, <1>1, PTL

\* The table gives each resource, for the time of a lease, to one session at a time, as
\* long as no two acquisitions of one resource overlapped.
THEOREM Exclusive == Spec => []MutualExclusion
<1>1. IInv => MutualExclusion
  <2> SUFFICES ASSUME IInv, calm, NEW s \in Sessions, NEW u \in Sessions,
                      NEW l \in held[s], NEW k \in held[u],
                      Holds(s, l), Holds(u, k), s # u, l.res = k.res
               PROVE  FALSE
    BY DEF MutualExclusion
  <2>1. Row(s, l.res, l.expires) \in rows /\ Row(u, k.res, k.expires) \in rows
    BY DEF IInv, HeldHasRow, Holds
  <2>2. Row(s, l.res, l.expires).res = Row(u, k.res, k.expires).res
    BY DEF Row
  <2>3. Row(s, l.res, l.expires) = Row(u, k.res, k.expires)
    BY <2>1, <2>2 DEF IInv, OneRow
  <2> QED
    BY <2>3 DEF Row
<1> QED
  BY Invariance, <1>1, PTL

\* No unexpired row is taken from the session that it stands for.
THEOREM LeasesLast == Spec => LeaseIsKept
<1>1. IInv /\ [Next]_vars =>
        [\A x \in rows :
           x \notin rows' /\ x.expires > now
             => \/ Lock(x.res, x.expires) \in held[x.by] \ held'[x.by]
                \/ up[Host[x.by]] = "up" /\ up'[Host[x.by]] = "stopped"]_vars
  <2> SUFFICES ASSUME IInv, [Next]_vars, NEW x \in rows, x \notin rows', x.expires > now
               PROVE  \/ Lock(x.res, x.expires) \in held[x.by] \ held'[x.by]
                      \/ up[Host[x.by]] = "up" /\ up'[Host[x.by]] = "stopped"
    OBVIOUS
  <2> USE HostAssumption DEF IInv, TypeOK
  <2>1. ASSUME NEW s \in Sessions, NEW l \in held[s], ReleaseLock(s, l), x = Row(s, l.res, l.expires)
        PROVE  Lock(x.res, x.expires) \in held[x.by] \ held'[x.by]
    <3>1. x.by = s /\ x.res = l.res /\ x.expires = l.expires
      BY <2>1 DEF Row
    <3>2. Lock(x.res, x.expires) = l
      BY <2>1, <3>1, LockFields DEF Lock
    <3> QED
      BY <2>1, <3>1, <3>2 DEF ReleaseLock
  <2>2. ASSUME NEW n \in Processes, Stop(n), Host[x.by] = n
        PROVE  up[Host[x.by]] = "up" /\ up'[Host[x.by]] = "stopped"
    BY <2>2 DEF Stop
  <2> QED
    BY <2>1, <2>2, RowsLost
<1> QED
  BY Invariance, <1>1, PTL DEF Spec, LeaseIsKept
=============================================================================
