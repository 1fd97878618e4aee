---------------------------- MODULE MCBookkeeper ----------------------------
(***************************************************************************)
(* Instances of Bookkeeper for TLC.                                        *)
(***************************************************************************)
EXTENDS Bookkeeper, TLC

CONSTANTS c1, c2, c3, deposit, withdrawal

TwoClients   == {c1, c2}
ThreeClients == {c1, c2, c3}
TwoUsers     == {1, 2}
ThreeUsers   == {1, 2, 3}

Request(kind, keys, amount) == [kind |-> kind, keys |-> keys, amount |-> amount]

\* Calls that read FOR UPDATE: batches over the same users in either order,
\* transfers in both directions and to a user without an account.
ForUpdateRequests ==
  {Request("batchlock", <<1, 2>>, 1), Request("batchunlock", <<2, 1>>, 1),
   Request("transfer", <<1, 2>>, 1), Request("transfer", <<2, 1>>, 1),
   Request("transfer", <<1, 3>>, 1)}

\* Single-account calls, a transfer to oneself, and the transactions' ends.
AllRequests ==
  {Request("lock", <<1>>, 1), Request("unlock", <<1>>, 1),
   Request("batchlock", <<2, 1>>, 1), Request("batchunlock", <<1, 2>>, 1),
   Request("transfer", <<1, 2>>, 2), Request("transfer", <<1, 1>>, 1),
   Request("complete", <<deposit, 1>>, 0), Request("complete", <<withdrawal, 1>>, 0),
   Request("fail", <<deposit>>, 0)}

PlainRequests == {Request("lock", <<1>>, 1), Request("unlock", <<1>>, 1)}

NoTxs  == {}
AllTxs == {deposit, withdrawal}
Amounts == [x \in Txs |-> IF x = deposit THEN 1 ELSE -2]

Holding(available, locked) ==
  [balance |-> available + locked, available |-> available, locked |-> locked]

SmallDB ==
  [k \in Keys |-> CASE k \in Txs -> "pending"
                    [] k \in {1, 2} -> Holding(1, 1)
                    [] OTHER -> None]

\* Clients are interchangeable.
Symmetry == Permutations(Clients)
=============================================================================
