--------------------------- MODULE MCRollbackPager ---------------------------
(* Instances of RollbackPager for TLC: two or three connections, up to      *)
(* three pages, of which the initial database has two.                      *)
EXTENDS RollbackPager, TLC

CONSTANTS c1, c2, c3

MCConn1 == {c1}
MCConn2 == {c1, c2}
MCConn3 == {c1, c2, c3}

Symmetric == Permutations(MCConn2)
=============================================================================
