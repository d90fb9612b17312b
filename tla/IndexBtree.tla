------------------------------ MODULE IndexBtree ------------------------------
(***************************************************************************)
(* The index b-tree (btree/index.rs, index/insert.rs, index/delete.rs),    *)
(* which also stores WITHOUT ROWID tables.  The separators of an interior  *)
(* page are entries of the index themselves.  An entry is its key: keys    *)
(* stand for the records that compare_keys orders, PayloadLen gives their  *)
(* encoded lengths.                                                        *)
(***************************************************************************)
EXTENDS BtreePages

CONSTANTS
  Root,         \* the root page of the index
  Edit,         \* bound: keys inserted and deleted
  Probe,        \* bound: keys sought
  Start,        \* bound: what is done first, as runs of keys: k inserts k, -k deletes k
  MaxWrites     \* bound: calls that write after that

Key == DOMAIN PayloadLen

ASSUME IndexConstants ==
  /\ Root \in Nat \ {0} /\ Key \subseteq Nat \ {0} /\ Edit \subseteq Key
  /\ Probe \subseteq Int /\ MaxWrites \in Nat
  /\ \A s \in Start : \A i \in DOMAIN s : s[i] \in Key \/ -s[i] \in Key

VARIABLES db,       \* the database
          cursor,   \* an IndexCursor: [way, stack]
          result,   \* the last call, its arguments and what it returned
          view,     \* history: the entries in db, and those the cursor has not come to
          lost,     \* history: chains of entries that a predecessor replaced
          plan,     \* bound: what is left of a run in Start
          writes    \* bound: calls that wrote after it

vars == <<db, cursor, result, view, lost, plan, writes>>

-----------------------------------------------------------------------------
(* Descent.                                                                *)

\* Index of the child for key k: before the first separator that is greater.
Route(g, k) == Min({i \in DOMAIN g.seps : k < g.seps[i].key} \cup {Len(g.child)})

\* Where key k is among cells.
Match(cells, k) == {i \in DOMAIN cells : cells[i].key = k}

\* descend_index_tree that looks at the leaves only.
RECURSIVE descend_index_tree_LeavesOnly(_, _, _)
descend_index_tree_LeavesOnly(d, p, k) ==
  LET g == d.page[p]
  IN IF g.kind = "leaf" THEN <<p>>
     ELSE <<p>> \o descend_index_tree_LeavesOnly(d, g.child[Route(g, k)], k)

\* The pages from p down to the interior page that has k as an entry, else to
\* the leaf for k.
RECURSIVE descend_index_tree(_, _, _)
descend_index_tree(d, p, k) ==
  LET g == d.page[p]
  IN IF g.kind = "leaf" \/ Match(g.seps, k) # {} THEN <<p>>
     ELSE <<p>> \o descend_index_tree(d, g.child[Route(g, k)], k)

-----------------------------------------------------------------------------
(* Insert.                                                                 *)

\* A separator's cell has the child in front of the entry.
write_index_interior_page(d, p, seps, child) ==
  write_page_common(d, p, Interior(seps, child),
    page1_header_start(p) + 12 + Sum([i \in DOMAIN seps |-> seps[i].size + 4 + 2]))

\* The root keeps its number: its content moves to a fresh page.
root_split(d, new, promoted) ==
  LET to == Fresh(d)
      g  == d.page[Root]
      e  == allocate_page(d)
      moved == IF g.kind = "leaf" THEN write_leaf_page(e, to, g.cells)
                                  ELSE write_index_interior_page(e, to, g.seps, g.child)
  IN write_index_interior_page(moved, Root, <<promoted>>, <<to, new>>)

\* Page old, the last child on path, keeps what is less than promoted, page new
\* takes what is greater; a full parent promotes its middle entry in turn.
RECURSIVE insert_into_index_parent(_, _, _, _, _)
insert_into_index_parent(d, path, old, new, promoted) ==
  IF Failed(d) THEN d
  ELSE IF path = << >> THEN root_split(d, new, promoted)
  ELSE IF ~Contains(d.page[Last(path)].child, old) THEN Fail(d, "MissingChildRoute")
  ELSE LET p     == Last(path)
           g     == d.page[p]
           i     == CHOOSE j \in DOMAIN g.child :
                      g.child[j] = old /\ \A k \in 1 .. j - 1 : g.child[k] # old
           seps  == InsertAt(g.seps, i, promoted)
           child == InsertAt(g.child, i + 1, new)
           whole == write_index_interior_page(d, p, seps, child)
           mid   == Len(seps) \div 2 + 1
           right == Fresh(d)
           left_written  == write_index_interior_page(allocate_page(d), p,
                              SubSeq(seps, 1, mid - 1), SubSeq(child, 1, mid))
           right_written == write_index_interior_page(left_written, right,
                              SubSeq(seps, mid + 1, Len(seps)), SubSeq(child, mid + 1, Len(child)))
       IN IF ~Failed(whole) THEN whole
          ELSE insert_into_index_parent(right_written, Front(path), p, right, seps[mid])

\* The middle entry, by count, goes up to the parent.
split_index_leaf(d, path, leaf, cells) ==
  LET mid   == Len(cells) \div 2 + 1
      right == Fresh(d)
      left_written  == write_leaf_page(allocate_page(d), leaf, SubSeq(cells, 1, mid - 1))
      right_written == write_leaf_page(left_written, right, SubSeq(cells, mid + 1, Len(cells)))
  IN insert_into_index_parent(right_written, path, leaf, right, cells[mid])

\* The chain is written once no duplicate was found, on any level.
insert_into_index_leaf(d, path, leaf, k) ==
  LET cells == d.page[leaf].cells
      cell  == Cell(d, k, k, TRUE, 0)
      chain == write_overflow_chain(d, k, Chunks(k, TRUE))
      all   == InsertAt(cells, Min({i \in DOMAIN cells : cells[i].key > k} \cup {Len(cells) + 1}), cell)
  IN IF Match(cells, k) # {} THEN Fail(d, "duplicate")
     ELSE IF leaf_needed(leaf, all) <= PageLen THEN write_leaf_page(chain, leaf, all)
     ELSE split_index_leaf(chain, path, leaf, all)

insert_entry(d, k) ==
  LET path == descend_index_tree(d, Root, k)
  IN IF d.page[Last(path)].kind = "interior" THEN Fail(d, "duplicate")
     ELSE insert_into_index_leaf(d, Front(path), Last(path), k)

-----------------------------------------------------------------------------
(* Delete.  A page that runs empty stays where it is.                      *)

\* The largest entry below page p, taken out: [d, got], got empty when nothing
\* is left there, and then the pages below p are free.
RECURSIVE extract_max_entry(_, _)
extract_max_entry(d, p) ==
  LET g     == d.page[p]
      below == extract_max_entry(d, Last(g.child))
      freed == deallocate_page(below.d, Last(g.child))
  IN IF g.kind = "leaf"
     THEN IF g.cells = << >> THEN [d |-> d, got |-> << >>]
          ELSE [d |-> [d EXCEPT !.page[p].cells = Front(@)], got |-> <<Last(g.cells)>>]
     ELSE IF below.got # << >> THEN below
     ELSE IF g.seps = << >> THEN [d |-> freed, got |-> << >>]
     ELSE [d |-> write_index_interior_page(freed, p, Front(g.seps), Front(g.child)),
           got |-> <<Last(g.seps)>>]

\* The entry before child i of page p goes, and the child with it.
remove_entry_by_child(d, p, i) ==
  LET g == d.page[p]
  IN free_overflow_chain(
       write_index_interior_page(d, p, RemoveAt(g.seps, i), RemoveAt(g.child, i)),
       g.seps[i].ovfl)

\* delete_via_predecessor_swap that drops the subtree with the entry.
delete_via_predecessor_swap_Drop(d, p, i) == remove_entry_by_child(d, p, i)

\* Separator i of page p is replaced by its predecessor, if there still is one.
\* The chain of the entry that goes is not freed when it is replaced.
delete_via_predecessor_swap(d, p, i) ==
  LET entry_child == d.page[p].child[i]
      x == extract_max_entry(d, entry_child)
      g == x.d.page[p]
  IN IF Failed(x.d) THEN x.d
     ELSE IF x.got # << >>
     THEN write_index_interior_page(x.d, p, [g.seps EXCEPT ![i] = x.got[1]], g.child)
     ELSE remove_entry_by_child(deallocate_page(x.d, entry_child), p, i)

delete_from_leaf(d, leaf, k) ==
  LET cells == d.page[leaf].cells
      i     == CHOOSE j \in Match(cells, k) : TRUE
  IN IF Match(cells, k) = {} THEN Fail(d, "not found")
     ELSE free_overflow_chain([d EXCEPT !.page[leaf].cells = RemoveAt(@, i)], cells[i].ovfl)

delete_entry(d, k) ==
  LET p == Last(descend_index_tree(d, Root, k))
  IN IF d.page[p].kind = "leaf" THEN delete_from_leaf(d, p, k)
     ELSE delete_via_predecessor_swap(d, p, CHOOSE i \in Match(d.page[p].seps, k) : TRUE)

-----------------------------------------------------------------------------
(* IndexCursor.                                                            *)

\* advance and advance_desc.
advance_index(d, way, stack) == advance(d, way, stack, TRUE)

\* binary_search_page: how many cells are less than k.
Less(cells, k) == Cardinality({i \in DOMAIN cells : cells[i].key < k})

\* The frames that a traversal from the start would have when it comes to k.
RECURSIVE seek_frames(_, _, _)
seek_frames(d, p, k) ==
  LET g == d.page[p]
      i == Less(g.seps, k)
  IN IF g.kind = "leaf" THEN <<[page |-> g, taken |-> Less(g.cells, k)]>>
     ELSE <<[page |-> g, taken |-> 2 * i + 1]>> \o seek_frames(d, g.child[i + 1], k)

Moves(call, way, stack) ==
  /\ cursor' = [way |-> way, stack |-> stack]
  /\ result' = call \o Yielded(db, way, stack, TRUE)
  /\ view' = [view EXCEPT !.left = UNION {Ahead(db, way, f, TRUE) : f \in ToSet(stack)}]
  /\ UNCHANGED <<db, lost, plan, writes>>

first   == Moves(<<"first">>, "up", advance_index(db, "up", <<Frame(db, Root)>>))
last    == Moves(<<"last">>, "down", advance_index(db, "down", <<Frame(db, Root)>>))
seek(k) == Moves(<<"from", k>>, "up", advance_index(db, "up", seek_frames(db, Root, k)))

\* Callers go on in the direction they started in.
next == cursor.way = "up" /\ Moves(<<"next">>, "up", advance_index(db, "up", cursor.stack))
prev == cursor.way = "down" /\ Moves(<<"prev">>, "down", advance_index(db, "down", cursor.stack))

-----------------------------------------------------------------------------
(* The calls that write.  A write that stops half way is the last: its     *)
(* caller can only roll the transaction back.                              *)

Wrote(call, d) ==
  /\ db' = IF d.err \in {"duplicate", "not found"} THEN [d EXCEPT !.err = "ok"] ELSE d
  /\ result' = Append(call, d.err)
  /\ view' = [rows |-> Contents(d, Root, TRUE), left |-> {}]
  /\ cursor' = Closed

Insert(k) == Wrote(<<"insert", k, Whole(k, TRUE)>>, insert_entry(db, k)) /\ UNCHANGED lost

\* What a delete of k from d loses: the chain of an entry that was replaced.
Unfreed(d, k) ==
  LET p  == Last(descend_index_tree(d, Root, k))
      c  == d.page[p].seps[CHOOSE i \in Match(d.page[p].seps, k) : TRUE]
      ps == ToSet(Chain(d, c.ovfl, {}))
  IN IF d.page[p].kind = "leaf" THEN {} ELSE ps \ delete_entry(d, k).free

Delete(k) ==
  /\ Wrote(<<"delete", k>>, delete_entry(db, k))
  /\ lost' = lost \cup Unfreed(db, k)

Init ==
  /\ db = [page |-> [p \in 1 .. Root |-> IF p = Root THEN Leaf(<< >>) ELSE Unused],
           free |-> {}, err |-> "ok"]
  /\ view = [rows |-> Contents(db, Root, TRUE), left |-> {}]
  /\ cursor = Closed /\ result = <<"open">> /\ lost = {}
  /\ plan \in Start /\ writes = 0

\* A run in Start first, then any calls.
Planned ==
  /\ plan # << >> /\ plan' = Tail(plan) /\ UNCHANGED writes
  /\ \E k \in Key : (plan[1] = k /\ Insert(k)) \/ (plan[1] = -k /\ Delete(k))

\* A write does not look at a cursor, and ends it: one that is on its way is left out.
Free ==
  /\ writes < MaxWrites /\ writes' = writes + 1 /\ UNCHANGED plan
  /\ cursor.stack = << >>
  /\ \E k \in Edit : Insert(k) \/ Delete(k)

Next ==
  /\ ~Failed(db)
  /\ \/ Planned
     \/ /\ plan = << >>
        /\ \/ Free
           \/ \E k \in Probe : seek(k)
           \/ first \/ next \/ last \/ prev

Spec == Init /\ [][Next]_vars

-----------------------------------------------------------------------------
(* Properties.                                                             *)

Store == INSTANCE RowStore
           WITH Key <- Key \cup Probe, Value <- {Whole(k, TRUE) : k \in Key},
                rows <- view.rows, way <- cursor.way, left <- view.left

\* A delete of a promoted entry that is refused, because the predecessor that would
\* replace it is longer and the interior page has no room for it.
RefusedSwap ==
  \E k \in Key :
    LET g    == db.page[Last(descend_index_tree(db, Root, k))]
        all  == ToSet(InOrder(db, Root, TRUE))
        pred == CHOOSE c \in all : c.key < k /\ \A e \in all : e.key < k => e.key <= c.key
    IN /\ result' = <<"delete", k, "Internal">>
       /\ g.kind = "interior" /\ \E i \in Match(g.seps, k) : pred.size > g.seps[i].size

\* insert_entry, delete_entry and the calls of IndexCursor treat the index as an
\* ordered set: an insert succeeds unless the entry is there, on a leaf or promoted
\* to an interior page; a delete of a promoted entry swaps in its predecessor, past
\* drained subtrees, and loses no other entry, or else it is refused because the
\* predecessor is longer and does not fit; traversals yield every entry once and
\* in order, and a seek leaves the cursor where a traversal would have.
RefinesRowStore == Store!StoreInit /\ [][Store!StoreNext \/ RefusedSwap]_(Store!svars)

\* The same without the exception: no delete discards another entry than its own
\* (module doc of index/delete.rs).
StrictStore == Store!StoreSpec

\* Every page has one owner: a place in the tree, drained or not, a place in the
\* chain of one entry, or the freelist.  Only the chain of an entry that its
\* predecessor replaced belongs to nobody (delete_via_predecessor_swap), and what
\* a refused write has taken out.
PagesOwnedOnce ==
  LET owned == TreePages(db, Root) \o ChainPages(db, Root, TRUE)
  IN Failed(db) \/
     /\ IsInjective(owned)
     /\ ToSet(owned) \cap (db.free \cup lost) = {} /\ db.free \cap lost = {}
     /\ ToSet(owned) \cup db.free \cup lost = Root .. Len(db.page)
=============================================================================
