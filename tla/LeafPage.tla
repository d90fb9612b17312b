------------------------------- MODULE LeafPage -------------------------------
(***************************************************************************)
(* The bytes of one leaf page (btree/mod.rs): cells grow down from the end *)
(* of the page, the pointer array grows up from the header, and what a     *)
(* delete leaves becomes part of the gap between them, a freeblock, or     *)
(* fragmented bytes.  insert_into_leaf splices a cell into the gap, or     *)
(* rebuilds the page; the delete paths splice a cell out.  Offsets are     *)
(* counted from 0, as in the code.                                         *)
(***************************************************************************)
EXTENDS Integers, Sequences, FiniteSets, SequencesExt

CONSTANTS
  PageLen,    \* page size
  Header,     \* length of everything in front of the pointer array
  Wide,       \* 65536: the smallest offset that a two-byte field cannot hold
  FragMax,    \* 255: the largest value of the one-byte fragment counter
  Cell,       \* cells that are inserted
  CellLen     \* their lengths

ASSUME LeafPageConstants ==
  /\ PageLen \in Nat /\ Header \in 1 .. PageLen /\ Wide >= PageLen /\ FragMax \in Nat
  /\ CellLen \in [Cell -> 1 .. PageLen]

VARIABLES
  ptrs,     \* the pointer array: where each cell starts
  start,    \* the stored content_start
  blocks,   \* the freeblock chain, as walk_freeblocks reads it: <<offset, size>>
  frag,     \* fragmented free bytes
  mem,      \* the bytes from Header on: 0, a freeblock header, or byte i of cell c
  order     \* history: the cells that were put here, in order

vars == <<ptrs, start, blocks, frag, mem, order>>

\* Stored 0 is offset 65536.
write_content_start(v) == IF v >= Wide THEN 0 ELSE v
read_content_start == IF start = 0 THEN Wide ELSE start

ptr_end == Header + 2 * Len(ptrs)

\* mem with cell c put at offset o.
put(m, o, c) == [a \in DOMAIN m |-> IF a \in o .. o + CellLen[c] - 1 THEN <<c, a - o>> ELSE m[a]]

Byte0 == <<"free", 0>>
Blank == [a \in 0 .. PageLen - 1 |-> Byte0]

-----------------------------------------------------------------------------
(* Insert.                                                                 *)

\* insert_into_leaf's fit check counts cells and pointers, not where space is.
Fits(c) ==
  Header + 2 * (Len(ptrs) + 1) + FoldSeq(LAMBDA d, n : CellLen[d] + n, CellLen[c], order) <= PageLen

gap_too_small(c) ==
  read_content_start < ptr_end \/ read_content_start - ptr_end < CellLen[c] + 2

\* splice_insert_cell that does not move content_start.
splice_insert_cell_StartKept(i, c) ==
  LET at == read_content_start - CellLen[c]
  IN /\ ~gap_too_small(c)
     /\ mem' = put(mem, at, c)
     /\ ptrs' = InsertAt(ptrs, i, at)
     /\ UNCHANGED <<start, blocks, frag>>

splice_insert_cell(i, c) ==
  LET at == read_content_start - CellLen[c]
  IN /\ ~gap_too_small(c)
     /\ mem' = put(mem, at, c)
     /\ ptrs' = InsertAt(ptrs, i, at)
     /\ start' = write_content_start(at)
     /\ UNCHANGED <<blocks, frag>>

\* write_page_common: the cells from the end of the page down, in order.
write_page_common(cells) ==
  LET at(i) == PageLen - FoldSeq(LAMBDA d, n : CellLen[d] + n, 0, SubSeq(cells, i, Len(cells)))
  IN /\ ptrs' = [i \in DOMAIN cells |-> at(i)]
     /\ mem' = FoldLeft(LAMBDA m, i : put(m, at(i), cells[i]), Blank, [i \in DOMAIN cells |-> i])
     /\ start' = write_content_start(IF cells = << >> THEN PageLen ELSE at(1))
     /\ blocks' = << >> /\ frag' = 0

\* The cells that the pointer array leads to.
Cells == [i \in DOMAIN ptrs |-> mem[ptrs[i]][1]]

Insert(i, c) ==
  /\ c \notin ToSet(order) /\ Fits(c)
  /\ order' = InsertAt(order, i, c)
  /\ splice_insert_cell(i, c)

Rebuild(i, c) ==
  /\ c \notin ToSet(order) /\ Fits(c) /\ gap_too_small(c)
  /\ order' = InsertAt(order, i, c)
  /\ write_page_common(InsertAt(Cells, i, c))

-----------------------------------------------------------------------------
(* Delete.                                                                 *)

\* add_freeblock that leaves neighbours apart.
add_freeblock_Apart(bs, at, size) ==
  LET pos == Cardinality({i \in DOMAIN bs : bs[i][1] < at}) + 1
  IN InsertAt(bs, pos, <<at, size>>)

\* A freed range, merged with the freeblocks that it touches.
add_freeblock(bs, at, size) ==
  LET before == {i \in DOMAIN bs : bs[i][1] + bs[i][2] = at}
      after  == {i \in DOMAIN bs : at + size = bs[i][1]}
      pos    == Cardinality({i \in DOMAIN bs : bs[i][1] < at} \ before) + 1
      from   == IF before = {} THEN at ELSE bs[CHOOSE i \in before : TRUE][1]
      to     == IF after = {} THEN at + size
                ELSE LET b == bs[CHOOSE i \in after : TRUE] IN b[1] + b[2]
      rest   == SelectSeq(bs, LAMBDA b : b[1] + b[2] # at /\ b[1] # at + size)
  IN InsertAt(rest, pos, <<from, to - from>>)

\* write_freeblock_chain writes four bytes at the start of every block.
write_freeblock_chain(m, bs) ==
  [a \in DOMAIN m |-> IF \E i \in DOMAIN bs : a \in bs[i][1] .. bs[i][1] + 3
                      THEN <<"block", 0>> ELSE m[a]]

\* The content area shrinks past the freeblocks at its edge.
RECURSIVE absorb(_, _)
absorb(bs, edge) ==
  LET at == {i \in DOMAIN bs : bs[i][1] = edge}
      b  == CHOOSE i \in at : TRUE
  IN IF at = {} THEN [bs |-> bs, edge |-> edge] ELSE absorb(RemoveAt(bs, b), edge + bs[b][2])

\* The fragment counter that wraps around.
write_fragmented_bytes_Wrap(n) == n % (FragMax + 1)

\* The fragment counter is one byte and saturates.
write_fragmented_bytes(n) == Min({n, FragMax})

splice_delete_cell(i) ==
  LET at   == ptrs[i]
      len  == CellLen[mem[at][1]]
      zero == [a \in DOMAIN mem |-> IF a \in at .. at + len - 1 THEN Byte0 ELSE mem[a]]
      edge == absorb(blocks, at + len)
      free == add_freeblock(blocks, at, len)
  IN /\ ptrs' = RemoveAt(ptrs, i)
     /\ CASE at = read_content_start ->
             /\ start' = write_content_start(edge.edge) /\ blocks' = edge.bs
             /\ mem' = write_freeblock_chain(zero, edge.bs) /\ UNCHANGED frag
          [] at # read_content_start /\ len < 4 ->
             /\ frag' = write_fragmented_bytes(frag + len)
             /\ mem' = zero /\ UNCHANGED <<start, blocks>>
          [] OTHER ->
             /\ blocks' = free
             /\ mem' = write_freeblock_chain(zero, free) /\ UNCHANGED <<start, frag>>

Delete(i) == order' = RemoveAt(order, i) /\ splice_delete_cell(i)

Init ==
  /\ ptrs = << >> /\ start = write_content_start(PageLen) /\ blocks = << >> /\ frag = 0
  /\ mem = Blank /\ order = << >>

Next ==
  \/ \E c \in Cell : \E i \in 1 .. Len(ptrs) + 1 : Insert(i, c) \/ Rebuild(i, c)
  \/ \E i \in DOMAIN ptrs : Delete(i)

Spec == Init /\ [][Next]_vars

-----------------------------------------------------------------------------
(* Properties.                                                             *)

\* Whatever was spliced in and out, every pointer leads to its own cell, whole:
\* no later cell and no freeblock header was written over one of its bytes.
CellsIntact ==
  /\ Len(ptrs) = Len(order)
  /\ \A i \in DOMAIN ptrs : \A j \in 0 .. CellLen[order[i]] - 1 : mem[ptrs[i] + j] = <<order[i], j>>

\* The bytes behind the pointer array that no cell and no freeblock owns.
Stray ==
  {a \in read_content_start .. PageLen - 1 :
     /\ \A i \in DOMAIN ptrs : a \notin ptrs[i] .. ptrs[i] + CellLen[order[i]] - 1
     /\ \A i \in DOMAIN blocks : a \notin blocks[i][1] .. blocks[i][1] + blocks[i][2] - 1}

\* The header accounts for every byte: what is in the content area and belongs to
\* no cell is in a freeblock or counted in frag, up to the counter's limit; the
\* pointer array ends before the content area, with 65536 stored as 0.
SpaceExact ==
  /\ ptr_end <= read_content_start /\ read_content_start <= PageLen
  /\ frag = Min({Cardinality(Stray), FragMax})

\* The chain is as the file format wants it: ascending, blocks of four bytes or
\* more, no two of them touching, all of them in the content area, and no cell
\* spliced in later was written over the links.
FreeblocksApart ==
  /\ \A i \in DOMAIN blocks :
       /\ blocks[i][2] >= 4 /\ blocks[i][1] > read_content_start
       /\ blocks[i][1] + blocks[i][2] <= PageLen
       /\ \A j \in 0 .. 3 : mem[blocks[i][1] + j] = <<"block", 0>>
  /\ \A i, j \in DOMAIN blocks : i < j => blocks[i][1] + blocks[i][2] < blocks[j][1]

\* After any splices, merges and rebuilds the page holds exactly the cells that were
\* put there, accounts for each of its bytes, and has no two freeblocks that touch
\* (btree/mod.rs).
PageSound == CellsIntact /\ SpaceExact /\ FreeblocksApart
=============================================================================
