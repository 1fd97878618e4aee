----------------------------- MODULE MCXAManager -----------------------------
(***************************************************************************)
(* Instances of XAManager for TLC.                                         *)
(***************************************************************************)
EXTENDS XAManager, TLC

CONSTANTS t1, t2, r1, r2, r3

OneTxn       == {t1}
TwoTxns      == {t1, t2}
OneResource  == {r1}
TwoResources == {r1, r2}
AllResources == {r1, r2, r3}

\* Transactions and resources are interchangeable.
Symmetry == Permutations(Txns) \cup Permutations(Resources)
=============================================================================
