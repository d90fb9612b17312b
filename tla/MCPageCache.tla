----------------------------- MODULE MCPageCache -----------------------------
(***************************************************************************)
(* PageCache for TLC.                                                      *)
(***************************************************************************)
EXTENDS PageCache, TLC

CONSTANTS p1, p2, p3, r1, r2, b1, b2, b3, b4
MCPage == {p1, p2, p3}
MCBuffer == {b1, b2, b3, b4}
MCReader == {r1, r2}
Symmetric == Permutations(MCPage) \cup Permutations(MCBuffer) \cup Permutations(MCReader)
=============================================================================
