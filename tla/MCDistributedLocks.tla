------------------------- MODULE MCDistributedLocks -------------------------
(***************************************************************************)
(* An instance of DistributedLocks for TLC: two requests, in different     *)
(* processes, that want the same two resources in either order.            *)
(***************************************************************************)
EXTENDS DistributedLocks

CONSTANTS request1, request2, user, market, node1, node2

TwoSessions  == {request1, request2}
TwoResources == {user, market}
TwoProcesses == {node1, node2}
HostOf  == [s \in Sessions |-> IF s = request1 THEN node1 ELSE node2]
WantsOf == [s \in Sessions |-> IF s = request1 THEN <<user, market>> ELSE <<market, user>>]
=============================================================================
