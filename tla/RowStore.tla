------------------------------- MODULE RowStore -------------------------------
(***************************************************************************)
(* What a b-tree promises its callers: a map from keys to values, and a    *)
(* cursor that yields the entries in key order, up after first and down    *)
(* after last.  A write closes the cursor: every traversal in this crate   *)
(* ends before its caller writes.                                          *)
(***************************************************************************)
EXTENDS Integers, FiniteSets, Sequences, FiniteSetsExt, Functions

CONSTANTS Key, Value

VARIABLES rows,     \* the map
          way,      \* "up", "down", or "none": where the cursor goes
          left,     \* the keys it has not come to yet
          result    \* the last call, its arguments and what it returned

svars == <<rows, way, left, result>>

Row(k) == IF k \in DOMAIN rows THEN <<k, rows[k]>> ELSE <<"none">>

StoreInit ==
  /\ DOMAIN rows \subseteq Key /\ Range(rows) \subseteq Value
  /\ way = "none" /\ left = {} /\ result = <<"open">>

Closed == way' = "none" /\ left' = {}

Insert(k, v) ==
  /\ result' = <<"insert", k, v, "ok">> /\ Closed
  /\ k \notin DOMAIN rows
  /\ rows' = [j \in DOMAIN rows \cup {k} |-> IF j = k THEN v ELSE rows[j]]

InsertTwice(k, v) ==
  /\ result' = <<"insert", k, v, "duplicate">> /\ Closed
  /\ k \in DOMAIN rows /\ UNCHANGED rows

Delete(k) ==
  /\ result' = <<"delete", k, "ok">> /\ Closed
  /\ k \in DOMAIN rows /\ rows' = Restrict(rows, DOMAIN rows \ {k})

DeleteAbsent(k) ==
  /\ result' = <<"delete", k, "not found">> /\ Closed
  /\ k \notin DOMAIN rows /\ UNCHANGED rows

\* The table is dropped and created again.
Recreate ==
  /\ result' = <<"drop", "ok">> /\ Closed
  /\ rows' = Restrict(rows, {})

\* The cursor moves to the best key of S, if there is one.
Move(call, S, best(_)) ==
  /\ result' = call \o IF S = {} THEN <<"none">> ELSE Row(best(S))
  /\ left' = IF S = {} THEN {} ELSE S \ {best(S)}
  /\ UNCHANGED rows

First   == way' = "up" /\ Move(<<"first">>, DOMAIN rows, Min)
Forward == way # "down" /\ UNCHANGED way /\ Move(<<"next">>, left, Min)
Final   == way' = "down" /\ Move(<<"last">>, DOMAIN rows, Max)
Back    == way = "down" /\ UNCHANGED way /\ Move(<<"prev">>, left, Max)

\* Stepping back is an error unless the cursor came from the end.
BackRefused ==
  way # "down" /\ result' = <<"prev", "refused">> /\ UNCHANGED <<rows, way, left>>

\* Up from the first key that is not less than k.
From(k) == way' = "up" /\ Move(<<"from", k>>, {j \in DOMAIN rows : j >= k}, Min)

\* A lookup leaves a traversal where it is.
Lookup(k) == result' = <<"seek", k>> \o Row(k) /\ UNCHANGED <<rows, way, left>>

\* The number of rows.
Size == result' = <<"count", Cardinality(DOMAIN rows)>> /\ UNCHANGED <<rows, way, left>>

StoreNext ==
  \/ \E k \in Key : \/ \E v \in Value : Insert(k, v) \/ InsertTwice(k, v)
                    \/ Delete(k) \/ DeleteAbsent(k)
                    \/ Lookup(k) \/ From(k)
  \/ Recreate \/ Size \/ First \/ Forward \/ Final \/ Back \/ BackRefused

StoreSpec == StoreInit /\ [][StoreNext]_svars
=============================================================================
