---------------------------- MODULE MCMigration ----------------------------
(***************************************************************************)
(* Instances of Migration for TLC.                                         *)
(***************************************************************************)
EXTENDS Migration

CONSTANTS m1, m2, t1, t2, orderbook, database, pair

OneMigration    == {m1}
TwoMigrations   == {m1, m2}
RetryFirst      == [m \in Migrations |-> IF m = m1 THEN 1 ELSE 0]
OnePair         == [m \in Migrations |-> pair]
TwoThreads      == {t1, t2}
TwoParticipants == {orderbook, database}
OneDatabase     == {database}
=============================================================================
