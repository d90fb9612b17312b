---------------------------- MODULE MCIndexBtree ----------------------------
(***************************************************************************)
(* IndexBtree for TLC.  On pages of 136 bytes a long entry has 8 bytes in  *)
(* its cell and an overflow page; a leaf holds eight long entries, and an  *)
(* interior page six, or five and two short ones.                          *)
(***************************************************************************)
EXTENDS IndexBtree

\* Every fifth entry is promoted when they come in ascending order, the two short
\* ones among them.
MCLen == [k \in 1 .. 45 |-> IF k \in {10, 20} THEN 2 ELSE 140]

Ascending(n) == [i \in 1 .. n |-> i]
Drop(a, b) == [i \in 1 .. b + 1 - a |-> -(a + i - 1)]

\* Nothing; a full leaf; a full root; three levels; three levels with a drained leaf,
\* and with a drained subtree, below the entry in the root.
MCStart == {<< >>, Ascending(8), Ascending(39), Ascending(44),
            Ascending(44) \o Drop(21, 24), Ascending(44) \o Drop(1, 24)}

\* Pages of 512 bytes: ten short entries, then four of the longest that stay in
\* the page; the fifth splits the leaf by count.
MixedLen == [k \in 1 .. 15 |-> IF k <= 10 THEN 5 ELSE 102]

MixedStart == {Ascending(14)}
=============================================================================
