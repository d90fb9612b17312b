---------------------------- MODULE MCTableBtree ----------------------------
(***************************************************************************)
(* TableBtree for TLC.  A page of 56 bytes is the smallest on which three  *)
(* cells can need three leaves: a and b fill a leaf, c does not fit beside *)
(* either of them.  A negative rowid is nine bytes long: an interior page  *)
(* holds two such separators, and a leaf one such row of a, so that six    *)
(* rows make a tree of four levels.                                        *)
(***************************************************************************)
EXTENDS TableBtree

MCLen == [a |-> 20, c |-> 21, s |-> 1, o |-> 120]

MCRowid == (-6 .. 3) \ {0}
MCProbe == {-3}

Ascending(lo, hi, v) == [i \in 1 .. hi + 1 - lo |-> <<lo + i - 1, v>>]

\* Nothing; a leaf that an insert of c cuts in three; two and four levels, the
\* last interior page full; rows with chains.
MCStart == {<< >>,
            <<<<1, "a">>, <<3, "a">>>>,
            Ascending(-6, -4, "a"),
            Ascending(-6, -1, "a"),
            <<<<-1, "o">>, <<1, "s">>, <<2, "o">>, <<3, "c">>>>}
=============================================================================
