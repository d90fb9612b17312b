------------------------------- MODULE Freelist -------------------------------
(***************************************************************************)
(* The freelist (pager/freelist.rs, Pager::allocate_page and               *)
(* deallocate_page): a chain of trunk pages, newest first, each with an    *)
(* array of leaf pages, and two fields of page 1, all of them ordinary     *)
(* pages of the running transaction.  And the walk over that chain by      *)
(* PRAGMA integrity_check (integrity.rs, check_freelist).                  *)
(***************************************************************************)
EXTENDS Naturals, Sequences, FiniteSets, Functions

CONSTANTS
  MaxPages,     \* bound: the largest database
  MaxLeaves,    \* max_leaves_per_trunk(page_size)
  DoubleFree    \* may a caller free a page twice?

ASSUME FreelistConstants ==
  /\ MaxPages \in Nat \ {0} /\ MaxLeaves \in Nat \ {0} /\ DoubleFree \in BOOLEAN

Page == 1 .. MaxPages

\* A page buffer read as a TrunkPage.
TrunkPage == [next : 0 .. MaxPages, leaves : Seq(Page)]
NoLeaves(next) == [next |-> next, leaves |-> << >>]

VARIABLES db,       \* what this connection reads: the file and its dirty map
          saved     \* the file, as of the last flush

vars == <<db, saved>>

\* head, count and pages are fields of page 1 (freelist_trunk_page,
\* freelist_page_count, page_count); buf[p] is page p.  chain, the trunks from the
\* oldest to the head, and used, the pages that callers own, are history.
Empty == [head |-> 0, count |-> 0, pages |-> 1, buf |-> [p \in Page |-> NoLeaves(0)],
          chain |-> << >>, used |-> {1}]

Init == db = Empty /\ saved = db

Pop(s) == [i \in 1 .. Len(s) - 1 |-> s[i]]
Top(s) == s[Len(s)]

Trunk == db.buf[db.head]

-----------------------------------------------------------------------------
(* Pager::allocate_page.                                                   *)

\* The freelist is empty: a new last page.
Extend ==
  /\ db.head = 0 /\ db.pages < MaxPages
  /\ db' = [db EXCEPT !.pages = @ + 1, !.used = @ \cup {db.pages + 1}]
  /\ UNCHANGED saved

\* TakeLeaf that does not take the leaf off its trunk.
TakeLeaf_Keeps ==
  /\ db.head # 0 /\ Trunk.leaves # << >>
  /\ db' = [db EXCEPT !.count = @ - 1, !.used = @ \cup {Top(Trunk.leaves)}]
  /\ UNCHANGED saved

\* The newest leaf of the head trunk.
TakeLeaf ==
  /\ db.head # 0 /\ Trunk.leaves # << >>
  /\ db' = [db EXCEPT !.buf[db.head].leaves = Pop(@),
                      !.count = @ - 1,
                      !.used = @ \cup {Top(Trunk.leaves)}]
  /\ UNCHANGED saved

\* TakeTrunk that forgets the rest of the chain.
TakeTrunk_DropsChain ==
  /\ db.head # 0 /\ Trunk.leaves = << >>
  /\ db' = [db EXCEPT !.head = 0, !.buf[db.head] = NoLeaves(0), !.count = @ - 1,
                      !.chain = Pop(@), !.used = @ \cup {db.head}]
  /\ UNCHANGED saved

\* A head trunk without leaves is handed out itself (its buffer is the caller's
\* from here on, and is not represented).
TakeTrunk ==
  /\ db.head # 0 /\ Trunk.leaves = << >>
  /\ db' = [db EXCEPT !.head = Trunk.next, !.buf[db.head] = NoLeaves(0), !.count = @ - 1,
                      !.chain = Pop(@), !.used = @ \cup {db.head}]
  /\ UNCHANGED saved

-----------------------------------------------------------------------------
(* Pager::deallocate_page.  A page freed twice is not noticed.             *)

Freed(p) == p \in db.used \ {1} \/ (DoubleFree /\ p \in 2 .. db.pages)

\* There is no head trunk with room for one more leaf.
Full == db.head # 0 => Len(Trunk.leaves) >= MaxLeaves

AddLeaf(p) ==
  /\ Freed(p) /\ ~Full
  /\ db' = [db EXCEPT !.buf[db.head].leaves = Append(@, p),
                      !.count = @ + 1, !.used = @ \ {p}]
  /\ UNCHANGED saved

\* AddTrunk that leaves the count on page 1 alone.
AddTrunk_SameCount(p) ==
  /\ Freed(p) /\ Full
  /\ db' = [db EXCEPT !.buf[p] = NoLeaves(db.head), !.head = p,
                      !.chain = Append(@, p), !.used = @ \ {p}]
  /\ UNCHANGED saved

AddTrunk(p) ==
  /\ Freed(p) /\ Full
  /\ db' = [db EXCEPT !.buf[p] = NoLeaves(db.head), !.head = p,
                      !.count = @ + 1, !.chain = Append(@, p), !.used = @ \ {p}]
  /\ UNCHANGED saved

-----------------------------------------------------------------------------
(* The end of the transaction: Pager::flush and Pager::rollback.           *)

flush    == saved' = db /\ UNCHANGED db
rollback == db' = saved /\ UNCHANGED saved

Next ==
  \/ Extend \/ TakeLeaf \/ TakeTrunk
  \/ \E p \in Page : AddLeaf(p) \/ AddTrunk(p)
  \/ flush \/ rollback

Spec == Init /\ [][Next]_vars

-----------------------------------------------------------------------------
(* integrity.rs: check_freelist.                                           *)

\* The trunk after n hops; 0 once the chain has ended.
Hop[n \in 0 .. MaxPages] ==
  IF n = 0 THEN db.head ELSE IF Hop[n - 1] = 0 THEN 0 ELSE db.buf[Hop[n - 1]].next

\* The walk stops at the end of the chain, or at a trunk that is out of range or
\* was seen before.  A chain longer than the database repeats a trunk first.
Stop(n) == Hop[n] = 0 \/ Hop[n] > db.pages \/ \E i \in 0 .. n - 1 : Hop[i] = Hop[n]

\* Hops whose trunk is read.
Walked == {n \in 0 .. MaxPages : \A i \in 0 .. n : ~Stop(i)}

Leaves(n) == db.buf[Hop[n]].leaves

TrunkProblem == \E n \in 0 .. MaxPages : Stop(n) /\ (n = 0 \/ n - 1 \in Walked) /\ Hop[n] # 0
LeafProblem  == \E n \in Walked : \E l \in Range(Leaves(n)) : l = 0 \/ l > db.pages
CountProblem == db.count # SumFunction([n \in Walked |-> 1 + Len(Leaves(n))])

check_freelist == (IF TrunkProblem THEN {"trunk"} ELSE {})
             \cup (IF LeafProblem  THEN {"leaf"}  ELSE {})
             \cup (IF CountProblem THEN {"count"} ELSE {})

-----------------------------------------------------------------------------
(* Properties.                                                             *)

\* The shape of page 1's fields and of every trunk: a trunk never holds more
\* leaves than fit into a page (max_leaves_per_trunk).
TypeOK ==
  /\ {db, saved} \subseteq [head : 0 .. MaxPages, count : 0 .. MaxPages, pages : Page,
                            buf : [Page -> TrunkPage], chain : Seq(Page), used : SUBSET Page]
  /\ \A s \in {db, saved}, p \in Page : Len(s.buf[p].leaves) <= MaxLeaves

Leaf(s) == UNION {Range(s.buf[s.chain[i]].leaves) : i \in 1 .. Len(s.chain)}
Free(s) == Range(s.chain) \cup Leaf(s)

Allocator == INSTANCE PageAllocator
               WITH free <- Free(db), used <- db.used, kept <- <<Free(saved), saved.used>>

\* allocate_page and deallocate_page keep the allocator's promise: a page handed
\* out is on no trunk's leaf array and no trunk itself, free pages are reused
\* before the database grows, and ROLLBACK restores both sides.
AllocatesPages == Allocator!AllocSpec

\* Page 1's freelist_page_count is the number of free pages, and every page of
\* the database is in use or on the freelist: none is leaked.
NothingLeaks ==
  /\ db.count = Cardinality(Free(db))
  /\ db.used \cup Free(db) = 1 .. db.pages

\* The chain of next pointers that starts on page 1 visits exactly the trunks,
\* newest first, and integrity_check finds nothing to report.
ChecksOk ==
  /\ \A n \in 1 .. Len(db.chain) : Hop[n - 1] = db.chain[Len(db.chain) + 1 - n]
  /\ check_freelist = {}

\* check_freelist reports a page number that is on the freelist twice (its doc:
\* "that no page number repeats or is out of range").
RepeatReported ==
  (\E n \in Walked : ~IsInjective(Leaves(n))) => check_freelist # {}
=============================================================================
