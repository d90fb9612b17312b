------------------------------ MODULE PageCache ------------------------------
(***************************************************************************)
(* PageCache (pager/mod.rs): an LRU cache whose eviction order is a heap   *)
(* of (tick, page) records, stale ones included, and whose buffers are     *)
(* shared with readers (Rc) and recycled in place when nobody else holds   *)
(* them.  Driven by Pager::read_page, for pages that are neither dirty nor *)
(* in the WAL overlay, and by get_page_mut's invalidate.                   *)
(***************************************************************************)
EXTENDS Naturals, FiniteSets

CONSTANTS
  Page,
  Capacity,     \* DEFAULT_PAGE_CACHE_CAPACITY
  HeapLimit,    \* capacity * 4, at least 16: a longer heap is compacted
  Reader,       \* callers that may keep the Rc that read_page returned
  Buffer,       \* buffers: enough for the cache and every reader
  NoBuffer,
  MaxTick       \* bound on tick

ASSUME CacheConstants ==
  /\ Capacity \in Nat \ {0} /\ HeapLimit \in Nat /\ MaxTick \in Nat
  /\ IsFiniteSet(Page) /\ NoBuffer \notin Buffer

VARIABLES
  entries,      \* entries[p]: the tick of page p, 0 when it is not cached
  heap,         \* eviction_heap: <<tick, page>> records
  tick,
  slot,         \* slot[p]: the buffer that the entry of p points to
  content,      \* content[b]: the page whose bytes are in b
  held,         \* held[r]: the buffer that reader r keeps
  asked         \* asked[r]: the page r asked for when it got that buffer

vars == <<entries, heap, tick, slot, content, held, asked>>

Cached == {p \in Page : entries[p] # 0}

Init ==
  /\ entries = [p \in Page |-> 0]
  /\ heap = {} /\ tick = 0
  /\ slot = [p \in Page |-> NoBuffer]
  /\ content \in [Buffer -> Page]
  /\ held = [r \in Reader |-> NoBuffer]
  /\ asked \in [Reader -> Page]

-----------------------------------------------------------------------------

\* The heap after get's push, rebuilt from the entries when it has grown too long.
Compacted(h, e) ==
  IF Cardinality(h) > HeapLimit THEN {<<e[p], p>> : p \in {q \in Page : e[q] # 0}} ELSE h

\* A hit that updates the entry and not the heap.
get_NoPush(r, p) ==
  /\ p \in Cached /\ held[r] = NoBuffer /\ tick < MaxTick
  /\ tick' = tick + 1
  /\ entries' = [entries EXCEPT ![p] = tick']
  /\ held' = [held EXCEPT ![r] = slot[p]]
  /\ asked' = [asked EXCEPT ![r] = p]
  /\ UNCHANGED <<heap, slot, content>>

\* PageCache::get on a page that is there.
get(r, p) ==
  /\ p \in Cached /\ held[r] = NoBuffer /\ tick < MaxTick
  /\ tick' = tick + 1
  /\ entries' = [entries EXCEPT ![p] = tick']
  /\ heap' = Compacted(heap \cup {<<tick', p>>}, entries')
  /\ held' = [held EXCEPT ![r] = slot[p]]
  /\ asked' = [asked EXCEPT ![r] = p]
  /\ UNCHANGED <<slot, content>>

\* evict_one: records are popped from the smallest tick on, and the first one
\* that still is its page's tick names the victim.
Current == {h \in heap : entries[h[2]] = h[1]}

\* An eviction that trusts the heap's first record.
Victim_AnyRecord(q) == \E h \in heap : h[2] = q /\ q \in Cached /\ \A g \in heap : h[1] <= g[1]

Victim(q) == \E h \in Current : h[2] = q /\ \A g \in Current : h[1] <= g[1]

\* The cache at its limit: evict_one_if_full evicts.
AtLimit == Cardinality(Cached) >= Capacity

\* Rc::get_mut succeeds: no reader has a clone.
Unshared_Always(b) == TRUE
Unshared(b) == \A r \in Reader : held[r] # b

InUse == {slot[p] : p \in Page} \cup {held[r] : r \in Reader}

\* The page is read into b and inserted.  The miss itself took a tick in get.
Fill(r, p, b, base, left) ==
  /\ tick' = tick + 2
  /\ entries' = [base EXCEPT ![p] = tick']
  /\ heap' = left \cup {<<tick', p>>}
  /\ content' = [content EXCEPT ![b] = p]
  /\ held' = [held EXCEPT ![r] = b]
  /\ asked' = [asked EXCEPT ![r] = p]

\* read_page misses and the cache has room.
MissRoom(r, p) ==
  /\ p \notin Cached /\ held[r] = NoBuffer /\ tick + 1 < MaxTick
  /\ ~AtLimit
  /\ \E b \in Buffer \ InUse :
       /\ Fill(r, p, b, entries, heap)
       /\ slot' = [slot EXCEPT ![p] = b]

\* read_page misses and evicts; the victim's buffer is recycled if it can be.
MissEvicts(r, p) ==
  /\ p \notin Cached /\ held[r] = NoBuffer /\ tick + 1 < MaxTick
  /\ AtLimit
  /\ \E q \in Page, b \in Buffer :
       /\ Victim(q)
       /\ IF Unshared(slot[q]) THEN b = slot[q] ELSE b \notin InUse
       /\ Fill(r, p, b, [entries EXCEPT ![q] = 0], {h \in heap : h[1] > entries[q]})
       /\ slot' = [slot EXCEPT ![q] = NoBuffer, ![p] = b]

\* The read fails: a victim that was evicted is gone all the same.
MissFails(p) ==
  /\ p \notin Cached /\ tick < MaxTick
  /\ tick' = tick + 1
  /\ \/ ~AtLimit /\ UNCHANGED <<entries, heap, slot>>
     \/ /\ AtLimit
        /\ \E q \in Page :
             /\ Victim(q)
             /\ entries' = [entries EXCEPT ![q] = 0]
             /\ heap' = {h \in heap : h[1] > entries[q]}
             /\ slot' = [slot EXCEPT ![q] = NoBuffer]
  /\ UNCHANGED <<content, held, asked>>

\* get_page_mut; records of p stay in the heap.
invalidate(p) ==
  /\ p \in Cached
  /\ entries' = [entries EXCEPT ![p] = 0]
  /\ slot' = [slot EXCEPT ![p] = NoBuffer]
  /\ UNCHANGED <<heap, tick, content, held, asked>>

\* A reader drops its Rc.
Drop(r) ==
  /\ held[r] # NoBuffer
  /\ held' = [held EXCEPT ![r] = NoBuffer]
  /\ UNCHANGED <<entries, heap, tick, slot, content, asked>>

Next ==
  \/ \E r \in Reader, p \in Page : get(r, p) \/ MissRoom(r, p) \/ MissEvicts(r, p)
  \/ \E p \in Page : MissFails(p) \/ invalidate(p)
  \/ \E r \in Reader : Drop(r)

Spec == Init /\ [][Next]_vars

-----------------------------------------------------------------------------
(* Properties.                                                             *)

\* Ticks, records and buffers keep their types, and a page is cached exactly when
\* its entry has a buffer.
TypeOK ==
  /\ entries \in [Page -> 0 .. MaxTick]
  /\ heap \subseteq (1 .. MaxTick) \X Page
  /\ tick \in 0 .. MaxTick
  /\ slot \in [Page -> Buffer \cup {NoBuffer}]
  /\ \A p \in Page : slot[p] = NoBuffer <=> p \notin Cached
  /\ content \in [Buffer -> Page]
  /\ held \in [Reader -> Buffer \cup {NoBuffer}]
  /\ asked \in [Reader -> Page]

\* The cache never holds more pages than its capacity (evict_one_if_full before
\* every insert), whatever was invalidated or failed in between.
WithinCapacity == Cardinality(Cached) <= Capacity

\* The record of a cached page's last use is always in the heap, so that evict_one
\* always finds a victim: neither popping stale records nor compaction loses one.
EvictionFindsVictim == \A p \in Cached : <<entries[p], p>> \in heap

Lru == INSTANCE LruCache WITH stamp <- entries, clock <- tick, Size <- Cardinality

\* PageCache implements the LRU cache: with stale records, compaction and
\* invalidation in any order, what evict_one finds is the least recently used page.
EvictsLeastRecent == Lru!LruSpec

\* A page that read_page handed out keeps its bytes for as long as the caller
\* holds on to it, and a cached page has its own bytes: recycling an evicted buffer
\* in place never changes a page under a reader (Rc::get_mut).
NobodySeesRecycling ==
  /\ \A r \in Reader : held[r] # NoBuffer => content[held[r]] = asked[r]
  /\ \A p \in Cached : content[slot[p]] = p

\* The heap stays O(capacity), as the comment on get's rebuild says: it never grows
\* to twice the length at which get rebuilds it.
HeapBounded == Cardinality(heap) <= 2 * HeapLimit
=============================================================================
