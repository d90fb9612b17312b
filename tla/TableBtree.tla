------------------------------ MODULE TableBtree ------------------------------
(***************************************************************************)
(* The table b-tree: insert_row with its splits (table/insert.rs),         *)
(* delete_row with its collapses (table/delete.rs), DROP TABLE             *)
(* (free_btree_pages), and TableCursor (btree/mod.rs).  Every separator is *)
(* a rowid: the child before it holds rowids up to it.                     *)
(***************************************************************************)
EXTENDS BtreePages

CONSTANTS
  Root,         \* the root page of the table
  Rowid,        \* rowids that callers use
  Probe,        \* bound: rowids sought
  Start,        \* bound: what was inserted before, as runs of <<rowid, payload>>
  MaxWrites     \* bound: calls that write

Payload == DOMAIN PayloadLen

ASSUME TableConstants ==
  /\ Root \in Nat \ {0} /\ Rowid \subseteq Int /\ Probe \subseteq Rowid /\ MaxWrites \in Nat
  /\ \A s \in Start : \A i \in DOMAIN s : s[i] \in Rowid \X Payload

VARIABLES db,       \* the database
          cursor,   \* a TableCursor: [way, stack]
          result,   \* the last call, its arguments and what it returned
          view,     \* history: the rows in db, and those the cursor has not come to
          lost,     \* history: pages allocated for an insert that was refused
          writes    \* bound: calls that wrote

vars == <<db, cursor, result, view, lost, writes>>

-----------------------------------------------------------------------------
(* Reading.                                                                *)

\* Index of the child that rowid r is routed to, with the separators read as
\* upper bounds that are not included.
Route_Exclusive(g, r) == Min({i \in DOMAIN g.seps : r < g.seps[i]} \cup {Len(g.child)})

\* Index of the child that rowid r is routed to: the first separator that is
\* not less than r, else the rightmost child.
Route(g, r) == Min({i \in DOMAIN g.seps : r <= g.seps[i]} \cup {Len(g.child)})

\* find_leaf_page: the ancestors of the leaf for r, and the leaf.
RECURSIVE find_leaf_page(_, _, _)
find_leaf_page(d, p, r) ==
  LET g == d.page[p]
  IN IF g.kind = "leaf" THEN <<p>>
     ELSE <<p>> \o find_leaf_page(d, g.child[Route(g, r)], r)

\* Binary search in the leaf; a rowid is there once.
Position(cells, r) == {i \in DOMAIN cells : cells[i].key = r}

RECURSIVE count_table_rows(_, _)
count_table_rows(d, p) ==
  LET g == d.page[p]
  IN IF g.kind = "leaf" THEN Len(g.cells)
     ELSE Sum([i \in DOMAIN g.child |-> count_table_rows(d, g.child[i])])

-----------------------------------------------------------------------------
(* Insert.                                                                 *)

interior_cell(r) == 4 + VarintLen(r)

write_interior_page(d, p, seps, child) ==
  write_page_common(d, p, Interior(seps, child),
    page1_header_start(p) + 12 + Sum([i \in DOMAIN seps |-> interior_cell(seps[i]) + 2]))

\* Page to becomes what page g is.
write_copy(d, to, g) ==
  IF g.kind = "leaf" THEN write_leaf_page(d, to, g.cells)
                     ELSE write_interior_page(d, to, g.seps, g.child)

\* The root keeps its number: its content moves to a fresh page.
root_split(d, new, divider) ==
  LET moved == write_copy(allocate_page(d), Fresh(d), d.page[Root])
  IN write_interior_page(moved, Root, <<divider>>, <<Fresh(d), new>>)

\* The separator whose promotion splits the bytes most evenly, never an end.
interior_median_by_bytes(seps) ==
  LET size  == [i \in DOMAIN seps |-> interior_cell(seps[i])]
      upto(i) == Sum(SubSeq(size, 1, i))
      half  == Min({i \in DOMAIN seps : 2 * upto(i) >= Sum(size)})
  IN Max({2, Min({half, Max({Len(seps) - 1, 2})})})

\* Page old, the last child on path, keeps the rowids up to divider, page new
\* takes the others: the parent learns of it, and splits in turn when it is full.
RECURSIVE insert_into_parent(_, _, _, _, _)
insert_into_parent(d, path, old, new, divider) ==
  IF Failed(d) THEN d
  ELSE IF path = << >> THEN root_split(d, new, divider)
  ELSE IF ~Contains(d.page[Last(path)].child, old) THEN Fail(d, "MissingChildRoute")
  ELSE LET p     == Last(path)
           g     == d.page[p]
           i     == CHOOSE j \in DOMAIN g.child :
                      g.child[j] = old /\ \A k \in 1 .. j - 1 : g.child[k] # old
           seps  == InsertAt(g.seps, i, divider)
           child == InsertAt(g.child, i + 1, new)
           whole == write_interior_page(d, p, seps, child)
           mid   == interior_median_by_bytes(seps)
           right == Fresh(d)
           left_written  == write_interior_page(allocate_page(d), p, SubSeq(seps, 1, mid - 1),
                                                SubSeq(child, 1, mid))
           right_written == write_interior_page(left_written, right,
                                                SubSeq(seps, mid + 1, Len(seps)),
                                                SubSeq(child, mid + 1, Len(child)))
       IN IF ~Failed(whole) THEN whole
          ELSE insert_into_parent(right_written, Front(path), p, right, seps[mid])

\* Ends of the groups that the cells of an overfull leaf are split into: the
\* most even cut in two if both sides fit, else first fit.
split_groups_by_bytes(cells, capacity) ==
  LET n        == Len(cells)
      w        == [i \in 1 .. n |-> cells[i].size + 2]
      worst(c) == Max({Sum(SubSeq(w, 1, c)), Sum(SubSeq(w, c + 1, n))})
      cut      == Min({c \in 1 .. n - 1 : \A e \in 1 .. n - 1 : worst(c) <= worst(e)})
      fill(s, i) == IF s.acc > 0 /\ s.acc + w[i] > capacity
                    THEN [ends |-> Append(s.ends, i - 1), acc |-> w[i]]
                    ELSE [s EXCEPT !.acc = @ + w[i]]
      packed   == FoldLeft(fill, [ends |-> << >>, acc |-> 0], [i \in 1 .. n |-> i])
  IN IF n > 1 /\ worst(cut) <= capacity THEN <<cut, n>> ELSE Append(packed.ends, n)

\* Each group on a page of its own, the first one on the leaf; the parents learn
\* of the new pages one by one, after a fresh descent when the leaf was cut in three.
RECURSIVE route_pages(_, _, _, _, _)
route_pages(d, path, pages, groups, i) ==
  IF i = Len(pages) \/ Failed(d) THEN d
  ELSE LET divider == Last(groups[i]).key
           again   == find_leaf_page(d, Root, divider)
       IN IF i > 1 /\ Last(again) # pages[i] THEN Fail(d, "Internal")
          ELSE route_pages(insert_into_parent(d, IF i = 1 THEN path ELSE Front(again),
                                              pages[i], pages[i + 1], divider),
                           path, pages, groups, i + 1)

split_leaf(d, path, leaf, cells) ==
  LET ends   == split_groups_by_bytes(cells, PageLen - page1_header_start(leaf) - 8)
      n      == Len(ends)
      groups == [i \in 1 .. n |-> SubSeq(cells, IF i = 1 THEN 1 ELSE ends[i - 1] + 1, ends[i])]
      pages  == <<leaf>> \o FreshPages(d, n - 1)
      put(e, i) == write_leaf_page(e, pages[i], groups[i])
      written == FoldLeft(put, allocate_pages(d, n - 1), [i \in 1 .. n |-> i])
  IN route_pages(written, path, pages, groups, 1)

insert_into_leaf(d, path, leaf, cell) ==
  LET cells == d.page[leaf].cells
      pos   == Min({i \in DOMAIN cells : cells[i].key > cell.key} \cup {Len(cells) + 1})
      all   == InsertAt(cells, pos, cell)
  IN IF Position(cells, cell.key) # {} THEN Fail(d, "duplicate")
     ELSE IF leaf_needed(leaf, all) <= PageLen THEN write_leaf_page(d, leaf, all)
     ELSE split_leaf(d, path, leaf, all)

\* encode_leaf_cell writes the overflow chain before anything is looked up.
insert_row(d, r, v) ==
  LET cell  == Cell(d, r, v, FALSE, VarintLen(r))
      chain == write_overflow_chain(d, v, Chunks(v, FALSE))
      path  == find_leaf_page(chain, Root, r)
  IN insert_into_leaf(chain, Front(path), Last(path), cell)

-----------------------------------------------------------------------------
(* Delete.                                                                 *)

\* The root takes over the content of its only child.
collapse_root(d, only) == deallocate_page(write_copy(d, Root, d.page[only]), only)

\* Child old of the last page of path is replaced by new.
splice_child(d, path, old, new) ==
  LET g == d.page[Last(path)]
  IN IF ~Contains(g.child, old) THEN Fail(d, "MissingChildRoute")
     ELSE [d EXCEPT !.page[Last(path)].child = ReplaceAll(@, old, new)]

\* The parent forgets an emptied child and the separator after it (before it, for
\* the rightmost child).  A parent with one child left gives it to its own parent.
collapse_into_ancestors(d, path, emptied) ==
  LET p == Last(path)
      g == d.page[p]
      i == CHOOSE j \in DOMAIN g.child : g.child[j] = emptied
      child == RemoveAt(g.child, i)
      seps  == RemoveAt(g.seps, Min({i, Len(g.seps)}))
  IN IF Failed(d) THEN d
     ELSE IF ~Contains(g.child, emptied) THEN Fail(d, "MissingChildRoute")
     ELSE IF g.seps = << >> THEN Fail(d, "Internal")
     ELSE IF seps # << >> THEN write_interior_page(d, p, seps, child)
     ELSE IF p = Root THEN collapse_root(d, child[1])
     ELSE splice_child(deallocate_page(d, p), Front(path), p, child[1])

delete_row(d, r) ==
  LET path  == find_leaf_page(d, Root, r)
      leaf  == Last(path)
      cells == d.page[leaf].cells
      i     == CHOOSE j \in Position(cells, r) : TRUE
      chain == cells[i].ovfl
  IN IF Position(cells, r) = {} THEN Fail(d, "not found")
     ELSE IF Len(cells) > 1 \/ Len(path) = 1
     THEN free_overflow_chain([d EXCEPT !.page[leaf].cells = RemoveAt(@, i)], chain)
     ELSE collapse_into_ancestors(free_overflow_chain(deallocate_page(d, leaf), chain),
                                  Front(path), leaf)

\* Every page of the tree and every chain of its cells.
free_btree_pages(d, p) ==
  LET rows  == InOrder(d, p, FALSE)
      free(e, i) == free_overflow_chain(e, rows[i].ovfl)
  IN FoldLeft(deallocate_page, FoldLeft(free, d, [i \in DOMAIN rows |-> i]), TreePages(d, p))

\* create_empty_table_root: the root page that allocate_page returns is Root here,
\* so that callers go on with the table they had.
create_empty_table_root(d) == write_leaf_page([d EXCEPT !.free = @ \ {Root}], Root, << >>)

-----------------------------------------------------------------------------
(* TableCursor.                                                            *)

\* advance_table that ends with the leaf it is on.
advance_table_OneLeaf(d, way, stack) ==
  LET to == advance(d, way, stack, FALSE)
  IN IF stack # << >> /\ Last(stack).page.kind = "leaf" /\ Front(to) # Front(stack)
     THEN << >> ELSE to

\* advance and advance_rev.
advance_table(d, way, stack) == advance(d, way, stack, FALSE)

Moves(call, way, stack) ==
  /\ cursor' = [way |-> way, stack |-> stack]
  /\ result' = call \o Yielded(db, way, stack, FALSE)
  /\ view' = [view EXCEPT !.left = UNION {Ahead(db, way, f, FALSE) : f \in ToSet(stack)}]
  /\ UNCHANGED <<db, lost, writes>>

first == Moves(<<"first">>, "up", advance_table(db, "up", <<Frame(db, Root)>>))
next  == cursor.way # "down" /\ Moves(<<"next">>, cursor.way, advance_table(db, cursor.way, cursor.stack))
last  == Moves(<<"last">>, "down", advance_table(db, "down", <<Frame(db, Root)>>))
prev  == cursor.way = "down" /\ Moves(<<"prev">>, "down", advance_table(db, "down", cursor.stack))

prev_refused ==
  cursor.way # "down" /\ result' = <<"prev", "refused">> /\ UNCHANGED <<db, cursor, view, lost, writes>>

seek(r) ==
  LET leaf  == Last(find_leaf_page(db, Root, r))
      cells == db.page[leaf].cells
      found == Position(cells, r)
  IN /\ result' = <<"seek", r>> \o IF found = {} THEN <<"none">>
                                      ELSE RowOf(db, cells[CHOOSE i \in found : TRUE], FALSE)
     /\ UNCHANGED <<db, cursor, view, lost, writes>>

count == result' = <<"count", count_table_rows(db, Root)>> /\ UNCHANGED <<db, cursor, view, lost, writes>>

-----------------------------------------------------------------------------
(* The calls that write.  A refused call leaves what it has done so far to *)
(* the transaction.                                                        *)

Wrote(call, d) ==
  /\ writes < MaxWrites /\ writes' = writes + 1
  /\ db' = [d EXCEPT !.err = "ok"]
  /\ result' = Append(call, d.err)
  /\ view' = [rows |-> Contents(d, Root, FALSE), left |-> {}]
  /\ cursor' = Closed

Insert(r, v) ==
  LET d == insert_row(db, r, v)
  IN /\ Wrote(<<"insert", r, Whole(v, FALSE)>>, d)
     /\ lost' = IF d.err = "duplicate"
                THEN lost \cup {FreshPages(db, Chunks(v, FALSE))[i] : i \in 1 .. Chunks(v, FALSE)}
                ELSE lost

Delete(r) == Wrote(<<"delete", r>>, delete_row(db, r)) /\ UNCHANGED lost

DropAndCreate ==
  /\ Root # 1
  /\ Wrote(<<"drop">>, create_empty_table_root(free_btree_pages(db, Root)))
  /\ UNCHANGED lost

\* A new table, then the inserts of one of the runs in Start.
Empty == [page |-> [p \in 1 .. Root |-> IF p = Root THEN Leaf(<< >>) ELSE Unused],
          free |-> {}, err |-> "ok"]

Load(s) == LET put(d, x) == insert_row(d, x[1], x[2]) IN FoldLeft(put, Empty, s)

Init ==
  /\ \E s \in Start : db = Load(s)
  /\ view = [rows |-> Contents(db, Root, FALSE), left |-> {}]
  /\ cursor = Closed /\ result = <<"open">> /\ lost = {} /\ writes = 0

Next ==
  \/ \E r \in Rowid : (\E v \in Payload : Insert(r, v)) \/ Delete(r)
  \/ \E r \in Probe : seek(r)
  \/ DropAndCreate \/ count
  \/ first \/ next \/ last \/ prev \/ prev_refused

Spec == Init /\ [][Next]_vars

-----------------------------------------------------------------------------
(* Properties.                                                             *)

Store == INSTANCE RowStore
           WITH Key <- Rowid, Value <- {Whole(v, FALSE) : v \in Payload},
                rows <- view.rows, way <- cursor.way, left <- view.left

\* insert_row, delete_row, DROP TABLE and the calls of TableCursor do to the rows
\* what an ordered map does: an insert succeeds unless the rowid is there, whatever
\* splits it causes; no delete takes another row along or leaves one unreachable;
\* traversals in both directions yield every row once, in order, with the payload
\* that was written, and a seek in between does not disturb them.
RefinesRowStore == Store!StoreSpec

\* Every page has one owner: a place in the tree, a place in the chain of one cell,
\* or the freelist.  Only a chain written for a duplicate rowid (insert_row encodes
\* the cell before it looks) belongs to nobody.
PagesOwnedOnce ==
  LET owned == TreePages(db, Root) \o ChainPages(db, Root, FALSE)
  IN /\ IsInjective(owned)
     /\ ToSet(owned) \cap (db.free \cup lost) = {} /\ db.free \cap lost = {}
     /\ ToSet(owned) \cup db.free \cup lost = Root .. Len(db.page)

\* The tree at p, with rowids above lo and up to hi.
RECURSIVE InInterval(_, _, _)
InInterval(p, lo, hi) ==
  LET g == db.page[p]
      within(k) == (\A b \in lo : b < k) /\ (\A b \in hi : k <= b)
      low(i)  == IF i = 1 THEN lo ELSE {g.seps[i - 1]}
      high(i) == IF i = Len(g.child) THEN hi ELSE {g.seps[i]}
  IN IF g.kind = "leaf"
     THEN /\ \A i \in DOMAIN g.cells : within(g.cells[i].key)
          /\ \A i, j \in DOMAIN g.cells : i < j => g.cells[i].key < g.cells[j].key
          /\ g.cells # << >> \/ p = Root
     ELSE /\ g.kind = "interior" /\ g.seps # << >>
          /\ \A i \in DOMAIN g.seps : within(g.seps[i])
          /\ \A i \in DOMAIN g.child : InInterval(g.child[i], low(i), high(i))

\* Every subtree holds rowids of its own interval only, and no page except an
\* empty root is empty: an insert or a delete leaves nothing that a later descent
\* would route past.
SearchTree == db.page[Root].kind \in {"leaf", "interior"} /\ InInterval(Root, {}, {})
=============================================================================
