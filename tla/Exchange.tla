------------------------------ MODULE Exchange ------------------------------
(***************************************************************************)
(* What a trading pair promises to its clients, whatever goes on inside:   *)
(* every execution gives the same quantity to two orders of different      *)
(* users, no order executes more than its quantity, and an order that has  *)
(* been withdrawn, or that was executed in full while it rested, executes  *)
(* no more.                                                                *)
(***************************************************************************)
EXTENDS Naturals

CONSTANTS
  Orders,
  User,      \* the owner of each order
  Quantity   \* what each order asks for

VARIABLES
  filled,  \* what each order has executed
  closed   \* orders that execute no more

vars == <<filled, closed>>

Init ==
  /\ filled = [o \in Orders |-> 0]
  /\ closed = {}

Left(o) == Quantity[o] - filled[o]

\* An incoming order t and a resting order m exchange n.
Trade(t, m, n) ==
  /\ t \notin closed /\ m \notin closed
  /\ User[t] # User[m]
  /\ n \in 1..Left(t) /\ n <= Left(m)
  /\ filled' = [filled EXCEPT ![t] = @ + n, ![m] = @ + n]
  /\ closed' = IF n = Left(m) THEN closed \cup {m} ELSE closed

Withdraw(o) ==
  /\ closed' = closed \cup {o}
  /\ UNCHANGED filled

Next ==
  \/ \E t, m \in Orders : \E n \in 1..Left(t) : Trade(t, m, n)
  \/ \E o \in Orders : Withdraw(o)

Spec == Init /\ [][Next]_vars
=============================================================================
