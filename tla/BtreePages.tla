------------------------------ MODULE BtreePages ------------------------------
(***************************************************************************)
(* What the table and the index b-trees share (btree/mod.rs): the pages of *)
(* a database, the room their cells take, and overflow chains.  Pages are  *)
(* handed out and taken back as Pager::allocate_page and deallocate_page   *)
(* promise (PageAllocator).  A call works on a database d and returns the  *)
(* database it leaves behind; d.err names the error it stopped with.       *)
(***************************************************************************)
EXTENDS Integers, Sequences, FiniteSets, SequencesExt, Functions

CONSTANTS
  PageLen,      \* page size, and usable_size: no reserved bytes
  FileHeader,   \* the file header in front of page 1's b-tree page
  PayloadLen    \* payload_len of every payload

ASSUME PagesConstants ==
  /\ PageLen \in Nat \ {0} /\ FileHeader \in Nat
  /\ \A v \in DOMAIN PayloadLen : PayloadLen[v] \in Nat

Sub(a, b) == IF a > b THEN a - b ELSE 0       \* saturating_sub

Sum(s) == FoldSeq(+, 0, s)

\* encode_varint(n).len(): seven bits a byte; a negative number is a large u64.
RECURSIVE VarintLen(_)
VarintLen(n) ==
  IF n < 0 THEN 9 ELSE IF n < 128 THEN 1 ELSE Min({9, 1 + VarintLen(n \div 128)})

-----------------------------------------------------------------------------
(* Pages.  The entries of an interior page and its rightmost pointer are   *)
(* its separators and one child more than separators.  A cell is its key,  *)
(* its payload, the first page of its overflow chain and its length.       *)

Leaf(cells)            == [kind |-> "leaf", cells |-> cells]
Interior(seps, child)  == [kind |-> "interior", seps |-> seps, child |-> child]
Overflow(next, piece)  == [kind |-> "overflow", next |-> next, piece |-> piece]
Unused                 == [kind |-> "unused"]

Failed(d)  == d.err # "ok"
Fail(d, e) == [d EXCEPT !.err = e]

page1_header_start(p) == IF p = 1 THEN FileHeader ELSE 0

\* Header, pointer array and content of a leaf page.
leaf_needed(p, cells) ==
  page1_header_start(p) + 8 + Sum([i \in DOMAIN cells |-> cells[i].size + 2])

\* Page p rewritten from scratch, refused when needed bytes do not fit.
write_page_common(d, p, page, needed) ==
  IF Failed(d) THEN d
  ELSE IF needed > PageLen THEN Fail(d, "Internal")
  ELSE [d EXCEPT !.page[p] = page]

write_leaf_page(d, p, cells) == write_page_common(d, p, Leaf(cells), leaf_needed(p, cells))

-----------------------------------------------------------------------------
(* Pager::allocate_page and deallocate_page: free pages first, then a      *)
(* longer file.  Which free page is the freelist's choice (Freelist); what *)
(* a free page still holds is never read.                                  *)

Fresh(d) == IF d.free = {} THEN Len(d.page) + 1 ELSE Min(d.free)

allocate_page(d) ==
  IF d.free = {} THEN [d EXCEPT !.page = Append(@, Unused)]
  ELSE [d EXCEPT !.free = @ \ {Fresh(d)}]

deallocate_page(d, p) ==
  IF Failed(d) THEN d ELSE [d EXCEPT !.free = @ \cup {p}, !.page[p] = Unused]

\* The next n pages that allocate_page returns.
RECURSIVE FreshPages(_, _)
FreshPages(d, n) ==
  IF n = 0 THEN << >> ELSE <<Fresh(d)>> \o FreshPages(allocate_page(d), n - 1)

RECURSIVE allocate_pages(_, _)
allocate_pages(d, n) == IF n = 0 THEN d ELSE allocate_pages(allocate_page(d), n - 1)

-----------------------------------------------------------------------------
(* Payloads.  A payload too long for its cell goes on in a chain of        *)
(* overflow pages: <<v, 0>> is what of v stays in the cell, <<v, i>> what  *)
(* the i-th page of the chain holds.                                       *)

local_payload_size(len, is_index) ==
  LET max_local == IF is_index THEN Sub((Sub(PageLen, 12) * 64) \div 255, 23)
                               ELSE Sub(PageLen, 35)
      min_local == Sub((Sub(PageLen, 12) * 32) \div 255, 23)
      k         == min_local + (Sub(len, min_local) % Max({Sub(PageLen, 4), 1}))
  IN IF len <= max_local THEN len ELSE IF k <= max_local THEN k ELSE min_local

\* Pages that the rest of v takes.
Chunks(v, is_index) ==
  LET rest == PayloadLen[v] - local_payload_size(PayloadLen[v], is_index)
      room == Max({Sub(PageLen, 4), 1})
  IN (rest + room - 1) \div room

\* Every page of the chain is allocated, then written.
write_overflow_chain(d, v, n) ==
  LET ps   == FreshPages(d, n)
      e    == allocate_pages(d, n)
      put(pages, i) ==
        [pages EXCEPT ![ps[i]] = Overflow(IF i < n THEN ps[i + 1] ELSE 0, <<v, i>>)]
  IN [e EXCEPT !.page = FoldLeft(put, e.page, [i \in 1 .. n |-> i])]

\* The cell of v; extra is what the cell kind puts in front of the payload.
Cell(d, key, v, is_index, extra) ==
  LET n == Chunks(v, is_index)
  IN [key  |-> key, val |-> v,
      ovfl |-> IF n = 0 THEN 0 ELSE FreshPages(d, n)[1],
      size |-> extra + VarintLen(PayloadLen[v]) + local_payload_size(PayloadLen[v], is_index)
               + (IF n = 0 THEN 0 ELSE 4)]

\* The chain that starts on page p, as far as it can be followed.
RECURSIVE Chain(_, _, _)
Chain(d, p, seen) ==
  IF p = 0 \/ p \in seen THEN << >>
  ELSE <<p>> \o (IF d.page[p].kind = "overflow" THEN Chain(d, d.page[p].next, seen \cup {p})
                                                ELSE << >>)

\* As many pages of the chain as the payload's length asks for; OverflowChain*
\* errors show as missing pieces.
reassemble_payload(d, c, is_index) ==
  LET n  == Chunks(c.val, is_index)
      ps == Chain(d, c.ovfl, {})
  IN <<<<c.val, 0>>>> \o [i \in 1 .. Min({n, Len(ps)}) |->
                            IF d.page[ps[i]].kind = "overflow" THEN d.page[ps[i]].piece
                                                               ELSE <<"lost", i>>]

\* What was written.
Whole(v, is_index) == [i \in 1 .. Chunks(v, is_index) + 1 |-> <<v, i - 1>>]

\* free_overflow_chain that frees the first page only.
free_overflow_chain_First(d, p) == IF p = 0 THEN d ELSE deallocate_page(d, p)

free_overflow_chain(d, p) ==
  LET ps    == Chain(d, p, {})
      cycle == ps # << >> /\ d.page[Last(ps)].next # 0
      freed == FoldLeft(deallocate_page, d, ps)
  IN IF cycle THEN Fail(freed, "OverflowChainCycle") ELSE freed

-----------------------------------------------------------------------------
(* The tree below page p.                                                  *)

RECURSIVE TreePages(_, _)
TreePages(d, p) ==
  LET g == d.page[p]
  IN <<p>> \o (IF g.kind # "interior" THEN << >>
               ELSE FlattenSeq([i \in DOMAIN g.child |-> TreePages(d, g.child[i])]))

\* Its entries in order: the cells of the leaves, and between the children of
\* an interior page its separators, in a tree whose separators are entries.
RECURSIVE InOrder(_, _, _)
InOrder(d, p, is_index) ==
  LET g == d.page[p]
  IN IF g.kind = "leaf" THEN g.cells
     ELSE FlattenSeq([i \in DOMAIN g.child |->
            InOrder(d, g.child[i], is_index)
              \o (IF is_index /\ i <= Len(g.seps) THEN <<g.seps[i]>> ELSE << >>)])

\* The entries by key, with what their chains hold.
Contents(d, p, is_index) ==
  LET cells == InOrder(d, p, is_index)
      at(k) == CHOOSE i \in DOMAIN cells : cells[i].key = k
  IN [k \in {cells[i].key : i \in DOMAIN cells} |->
        reassemble_payload(d, cells[at(k)], is_index)]

\* The pages of the chains of all entries.
ChainPages(d, p, is_index) ==
  LET cells == InOrder(d, p, is_index)
  IN FlattenSeq([i \in DOMAIN cells |-> Chain(d, cells[i].ovfl, {})])

-----------------------------------------------------------------------------
(* Cursors.  A frame is a page as it was read, and how many of its steps   *)
(* the traversal has taken: from the left on the way up, from the right on *)
(* the way down.  A step goes down to a child or yields a cell.            *)

Frame(d, p) == [page |-> d.page[p], taken |-> 0]

Closed == [way |-> "none", stack |-> << >>]

Down(p)  == [down |-> TRUE, to |-> p]
Yield(c) == [down |-> FALSE, cell |-> c]

Steps(g, is_index) ==
  IF g.kind = "leaf" THEN [i \in DOMAIN g.cells |-> Yield(g.cells[i])]
  ELSE IF ~is_index THEN [i \in DOMAIN g.child |-> Down(g.child[i])]
  ELSE [i \in 1 .. 2 * Len(g.seps) + 1 |->
          IF i % 2 = 1 THEN Down(g.child[(i + 1) \div 2]) ELSE Yield(g.seps[i \div 2])]

\* Step n of a frame, counted in the direction of the traversal.
Step(f, way, n, is_index) ==
  LET steps == Steps(f.page, is_index)
  IN steps[IF way = "up" THEN n ELSE Len(steps) + 1 - n]

\* The stack at the next cell that is yielded, empty if there is none.
RECURSIVE advance(_, _, _, _)
advance(d, way, stack, is_index) ==
  IF stack = << >> THEN << >>
  ELSE LET f    == Last(stack)
           step == Step(f, way, f.taken + 1, is_index)
           took == Append(Front(stack), [f EXCEPT !.taken = @ + 1])
       IN IF f.taken = Len(Steps(f.page, is_index)) THEN advance(d, way, Front(stack), is_index)
          ELSE IF step.down THEN advance(d, way, Append(took, Frame(d, step.to)), is_index)
          ELSE took

\* Key and payload, or nothing.
RowOf(d, c, is_index) == <<c.key, reassemble_payload(d, c, is_index)>>

Yielded(d, way, stack, is_index) ==
  IF stack = << >> THEN <<"none">>
  ELSE RowOf(d, Step(Last(stack), way, Last(stack).taken, is_index).cell, is_index)

\* Keys in the part of frame f that the cursor has not come to.
Ahead(d, way, f, is_index) ==
  LET steps == {Step(f, way, n, is_index) : n \in f.taken + 1 .. Len(Steps(f.page, is_index))}
  IN UNION {IF s.down THEN {c.key : c \in ToSet(InOrder(d, s.to, is_index))} ELSE {s.cell.key} :
              s \in steps}
=============================================================================
