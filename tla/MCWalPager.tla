----------------------------- MODULE MCWalPager -----------------------------
(* Instances of WalPager for TLC: two connections, each in its process, and *)
(* one process that only checkpoints.                                       *)
EXTENDS WalPager, TLC

CONSTANTS c1, c2, k1

MCConn == {c1, c2}
MCConn1 == {c1}
MCCheckpointer == {k1}
MCNobody == {}

Symmetric == Permutations(MCConn)
=============================================================================
