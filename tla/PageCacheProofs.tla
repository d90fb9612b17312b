--------------------------- MODULE PageCacheProofs ---------------------------
(***************************************************************************)
(* PageCache keeps within its capacity, implements the LRU cache and never *)
(* recycles a buffer under a reader, for every set of pages and readers    *)
(* and every capacity, heap limit and tick bound.                          *)
(***************************************************************************)
EXTENDS PageCache, FiniteSetTheorems, TLAPS

USE SMTT(30)

\* No record and no entry is younger than the tick counter, so a new tick is new.
TicksPast ==
  /\ \A h \in heap : h[1] <= tick
  /\ \A p \in Page : entries[p] <= tick

\* No two cached pages were last used at the same tick.
TicksDiffer == \A p, q \in Cached : entries[p] = entries[q] => p = q

\* No two entries share a buffer.
OwnBuffers == \A p, q \in Cached : slot[p] = slot[q] => p = q

Order == TicksPast /\ TicksDiffer /\ EvictionFindsVictim
Buffers == OwnBuffers /\ NobodySeesRecycling

\* The inductive invariant.
Inv == TypeOK /\ Order /\ Buffers /\ WithinCapacity

-----------------------------------------------------------------------------

\* A set comprehension over Page is finite, and its size is a number.
LEMMA CachedFinite ==
  ASSUME NEW f \in [Page -> Nat]
  PROVE  /\ IsFiniteSet({p \in Page : f[p] # 0})
         /\ Cardinality({p \in Page : f[p] # 0}) \in Nat
<1>1. {p \in Page : f[p] # 0} \subseteq Page
  OBVIOUS
<1>2. IsFiniteSet({p \in Page : f[p] # 0})
  BY <1>1, FS_Subset, CacheConstants
<1> QED BY <1>2, FS_CardinalityType

\* What evict_one finds is a cached page, its record is the oldest of the cached
\* pages', and every other cached page's record is strictly younger.
LEMMA VictimIsOldest ==
  ASSUME TypeOK, TicksDiffer, EvictionFindsVictim, NEW q \in Page, Victim(q)
  PROVE  /\ q \in Cached
         /\ \A p \in Cached : entries[q] <= entries[p]
         /\ \A p \in Cached : p # q => entries[p] > entries[q]
<1>1. PICK h \in Current : h[2] = q /\ \A g \in Current : h[1] <= g[1]
  BY DEF Victim
<1>2. h \in (1 .. MaxTick) \X Page /\ entries[q] = h[1]
  BY <1>1 DEF Current, TypeOK
<1>3. h[1] \in 1 .. MaxTick
  BY <1>2
<1>4. q \in Cached
  BY <1>2, <1>3, CacheConstants DEF Cached
<1>5. ASSUME NEW p \in Cached
      PROVE  entries[q] <= entries[p]
  <2>1. <<entries[p], p>> \in Current
    BY DEF EvictionFindsVictim, Current, Cached
  <2> QED BY <1>1, <1>2, <2>1
<1>6. ASSUME NEW p \in Cached, p # q
      PROVE  entries[p] > entries[q]
  <2>1. entries[p] # entries[q]
    BY <1>4, <1>6 DEF TicksDiffer
  <2>2. entries[p] \in Nat /\ entries[q] \in Nat
    BY CacheConstants DEF TypeOK, Cached
  <2> QED BY <1>5, <2>1, <2>2
<1> QED BY <1>4, <1>5, <1>6

LEMMA CacheInit == Init => Inv
<1> SUFFICES ASSUME Init PROVE Inv
  OBVIOUS
<1>1. Cached = {}
  BY DEF Init, Cached
<1>2. TypeOK
  BY <1>1, CacheConstants DEF Init, TypeOK
<1>3. Order
  BY <1>1, CacheConstants DEF Init, Order, TicksPast, TicksDiffer, EvictionFindsVictim
<1>4. Buffers
  BY <1>1 DEF Init, Buffers, OwnBuffers, NobodySeesRecycling
<1>5. WithinCapacity
  BY <1>1, FS_EmptySet, CacheConstants DEF WithinCapacity
<1> QED BY <1>2, <1>3, <1>4, <1>5 DEF Inv

-----------------------------------------------------------------------------
(* A hit.                                                                  *)

LEMMA GetStep ==
  ASSUME Inv, NEW r \in Reader, NEW p \in Page, get(r, p)
  PROVE  Inv' /\ Lru!Touch(p)
<1> USE CacheConstants
<1>0. TypeOK /\ Order /\ Buffers /\ WithinCapacity
  BY DEF Inv
<1>1. tick' = tick + 1 /\ tick \in Nat /\ tick' \in 1 .. MaxTick /\ tick' # 0
  BY <1>0 DEF get, TypeOK
<1>2. entries' = [entries EXCEPT ![p] = tick'] /\ entries \in [Page -> 0 .. MaxTick]
  BY <1>0 DEF get, TypeOK
<1>3. Cached' = Cached
  BY <1>1, <1>2 DEF get, Cached
<1>4. heap' \subseteq heap \cup {<<entries'[q], q>> : q \in Cached'}
  BY <1>2, <1>1 DEF get, Compacted, Cached
<1>5. \A q \in Cached' : entries'[q] \in 1 .. MaxTick
  BY <1>1, <1>2 DEF Cached
<1>6. heap' \subseteq (1 .. MaxTick) \X Page
  BY <1>0, <1>4, <1>5 DEF TypeOK, Cached
<1>7. TypeOK'
  <2>1. entries' \in [Page -> 0 .. MaxTick] /\ tick' \in 0 .. MaxTick
    BY <1>1, <1>2
  <2>2. slot' = slot /\ content' = content
    BY DEF get
  <2>3. held' \in [Reader -> Buffer \cup {NoBuffer}] /\ asked' \in [Reader -> Page]
    BY <1>0 DEF get, TypeOK
  <2> QED BY <1>0, <1>3, <1>6, <2>1, <2>2, <2>3 DEF TypeOK
<1>8. TicksPast'
  <2>1. \A q \in Page : entries'[q] <= tick'
    BY <1>0, <1>1, <1>2 DEF Order, TicksPast
  <2>2. ASSUME NEW h \in heap'
        PROVE  h[1] <= tick'
    <3>1. CASE h \in heap
      <4>1. h[1] <= tick /\ h[1] \in 1 .. MaxTick
        BY <1>0, <3>1 DEF Order, TicksPast, TypeOK
      <4> QED BY <1>1, <4>1
    <3>2. CASE \E q \in Cached' : h = <<entries'[q], q>>
      BY <2>1, <3>2 DEF Cached
    <3> QED BY <1>4, <3>1, <3>2
  <2> QED BY <2>1, <2>2 DEF TicksPast
<1>9. TicksDiffer'
  <2>1. \A q \in Page : entries[q] \in Nat /\ entries[q] <= tick
    BY <1>0, <1>2 DEF Order, TicksPast
  <2>2. \A q \in Page : entries[q] # tick'
    BY <1>1, <2>1
  <2> QED BY <1>0, <1>2, <1>3, <2>2 DEF Order, TicksDiffer, Cached
<1>10. EvictionFindsVictim'
  <2>1. ASSUME NEW q \in Cached'
        PROVE  <<entries'[q], q>> \in heap \cup {<<tick', p>>}
    BY <1>0, <1>2, <1>3, <2>1 DEF Order, EvictionFindsVictim, Cached
  <2>2. heap' = heap \cup {<<tick', p>>} \/ heap' = {<<entries'[q], q>> : q \in Cached'}
    BY Zenon DEF get, Compacted, Cached
  <2> QED BY <2>1, <2>2, Zenon DEF EvictionFindsVictim
<1>11. Buffers'
  <2>1. slot' = slot /\ content' = content
    BY DEF get
  <2>2. OwnBuffers'
    BY <1>0, <1>3, <2>1 DEF Buffers, OwnBuffers
  <2>3. NobodySeesRecycling'
    BY <1>0, <1>3, <2>1 DEF Buffers, NobodySeesRecycling, get, TypeOK
  <2> QED BY <2>2, <2>3 DEF Buffers
<1>12. WithinCapacity'
  BY <1>0, <1>3 DEF WithinCapacity
<1>13. Lru!Touch(p)
  BY <1>1, <1>2 DEF Lru!Touch, Lru!In, get, Cached
<1> QED BY <1>7, <1>8, <1>9, <1>10, <1>11, <1>12, <1>13 DEF Inv, Order

-----------------------------------------------------------------------------
(* Misses: the entries shrink to base and the heap to left, then the page  *)
(* that was read is added.                                                 *)

LEMMA FillOrder ==
  ASSUME TypeOK, Order, NEW p \in Page, NEW base \in [Page -> 0 .. MaxTick],
         NEW left \in SUBSET heap,
         \A q \in Page : base[q] = 0 \/ base[q] = entries[q],
         \A q \in Page : base[q] # 0 => <<base[q], q>> \in left,
         tick + 1 < MaxTick, tick' = tick + 2,
         entries' = [base EXCEPT ![p] = tick'], heap' = left \cup {<<tick', p>>}
  PROVE  /\ Order'
         /\ entries' \in [Page -> 0 .. MaxTick]
         /\ heap' \subseteq (1 .. MaxTick) \X Page
         /\ tick' \in 0 .. MaxTick /\ tick' > tick
         /\ Cached' = {q \in Page : base[q] # 0} \cup {p}
<1> USE CacheConstants
<1>1. tick \in Nat /\ tick' \in 1 .. MaxTick /\ tick' > tick /\ tick' # 0
  BY DEF TypeOK
<1>2. entries' \in [Page -> 0 .. MaxTick]
  BY <1>1
<1>3. heap' \subseteq (1 .. MaxTick) \X Page
  BY <1>1 DEF TypeOK
<1>4. Cached' = {q \in Page : base[q] # 0} \cup {p}
  BY <1>1 DEF Cached
<1>5. \A q \in Page : base[q] \in Nat /\ entries[q] \in Nat /\ entries[q] <= tick
  BY DEF TypeOK, Order, TicksPast
<1>6. \A q \in Page : base[q] <= tick /\ base[q] # tick'
  BY <1>1, <1>5
<1>7. TicksPast'
  <2>1. \A q \in Page : entries'[q] <= tick'
    BY <1>1, <1>5, <1>6
  <2>2. ASSUME NEW h \in left
        PROVE  h[1] <= tick'
    <3>1. h[1] <= tick /\ h[1] \in 1 .. MaxTick
      BY DEF Order, TicksPast, TypeOK
    <3> QED BY <1>1, <3>1
  <2>3. <<tick', p>>[1] <= tick'
    BY <1>1
  <2> QED BY <2>1, <2>2, <2>3 DEF TicksPast
<1>8. TicksDiffer'
  <2> SUFFICES ASSUME NEW q1 \in Cached', NEW q2 \in Cached', entries'[q1] = entries'[q2]
               PROVE  q1 = q2
    BY DEF TicksDiffer
  <2>1. CASE q1 = p \/ q2 = p
    BY <1>4, <1>6, <2>1
  <2>2. CASE q1 # p /\ q2 # p
    <3>1. base[q1] # 0 /\ base[q2] # 0 /\ q1 \in Page /\ q2 \in Page
      BY <1>4, <2>2
    <3>2. entries[q1] = entries[q2] /\ q1 \in Cached /\ q2 \in Cached
      BY <2>2, <3>1 DEF Cached
    <3> QED BY <3>2 DEF Order, TicksDiffer
  <2> QED BY <2>1, <2>2
<1>9. EvictionFindsVictim'
  BY <1>4 DEF EvictionFindsVictim
<1> QED BY <1>1, <1>2, <1>3, <1>4, <1>7, <1>8, <1>9 DEF Order

LEMMA ShrinkOrder ==
  ASSUME TypeOK, Order, NEW left \in SUBSET heap,
         \A q \in Page : entries'[q] = 0 \/ entries'[q] = entries[q],
         \A q \in Page : entries'[q] # 0 => <<entries'[q], q>> \in left,
         tick' \in 0 .. MaxTick, tick' >= tick,
         entries' \in [Page -> 0 .. MaxTick], heap' = left
  PROVE  Order'
<1> USE CacheConstants
<1>1. tick \in Nat /\ tick' \in Nat
  BY DEF TypeOK
<1>2. \A q \in Page : entries[q] \in Nat /\ entries[q] <= tick
  BY DEF TypeOK, Order, TicksPast
<1>3. TicksPast'
  <2>1. \A q \in Page : entries'[q] <= tick'
    BY <1>1, <1>2
  <2>2. ASSUME NEW h \in left
        PROVE  h[1] <= tick'
    <3>1. h[1] <= tick /\ h[1] \in 1 .. MaxTick
      BY DEF Order, TicksPast, TypeOK
    <3> QED BY <1>1, <3>1
  <2> QED BY <2>1, <2>2 DEF TicksPast
<1>4. TicksDiffer'
  BY DEF Order, TicksDiffer, Cached
<1>5. EvictionFindsVictim'
  BY Zenon DEF EvictionFindsVictim, Cached
<1> QED BY <1>3, <1>4, <1>5 DEF Order

\* A page read into a buffer that no entry left and no reader points to.
LEMMA FillBuffers ==
  ASSUME TypeOK, Buffers, NEW r \in Reader, NEW p \in Page, NEW b \in Buffer,
         NEW keep \in SUBSET Cached, p \notin keep, Cached' = keep \cup {p},
         \A q \in keep : slot[q] # b /\ slot'[q] = slot[q],
         slot'[p] = b, \A s \in Reader : held[s] # b,
         content' = [content EXCEPT ![b] = p],
         held' = [held EXCEPT ![r] = b], asked' = [asked EXCEPT ![r] = p]
  PROVE  Buffers'
<1>1. OwnBuffers'
  BY DEF Buffers, OwnBuffers
<1>2. ASSUME NEW s \in Reader, held'[s] # NoBuffer
      PROVE  content'[held'[s]] = asked'[s]
  BY <1>2 DEF Buffers, NobodySeesRecycling, TypeOK
<1>3. ASSUME NEW q \in Cached'
      PROVE  content'[slot'[q]] = q
  <2>1. CASE q = p
    BY <2>1 DEF TypeOK
  <2>2. CASE q \in keep
    <3>1. slot[q] \in Buffer /\ content[slot[q]] = q
      BY <2>2 DEF Buffers, NobodySeesRecycling, TypeOK, Cached
    <3> QED BY <2>2, <3>1 DEF TypeOK
  <2> QED BY <2>1, <2>2
<1> QED BY <1>1, <1>2, <1>3 DEF Buffers, NobodySeesRecycling

\* Entries and buffers that only go away.
LEMMA ShrinkBuffers ==
  ASSUME TypeOK, Buffers, Cached' \subseteq Cached,
         \A q \in Cached' : slot'[q] = slot[q],
         content' = content, held' = held, asked' = asked
  PROVE  Buffers'
<1>1. OwnBuffers'
  BY DEF Buffers, OwnBuffers
<1>2. NobodySeesRecycling'
  BY DEF Buffers, NobodySeesRecycling
<1> QED BY <1>1, <1>2 DEF Buffers

-----------------------------------------------------------------------------

LEMMA MissRoomStep ==
  ASSUME Inv, NEW r \in Reader, NEW p \in Page, MissRoom(r, p)
  PROVE  Inv' /\ Lru!Insert(p)
<1> USE CacheConstants
<1>0. TypeOK /\ Order /\ Buffers /\ WithinCapacity
  BY DEF Inv
<1>1. p \notin Cached /\ tick + 1 < MaxTick /\ ~AtLimit
  BY DEF MissRoom
<1>2. PICK b \in Buffer \ InUse :
        Fill(r, p, b, entries, heap) /\ slot' = [slot EXCEPT ![p] = b]
  BY Zenon DEF MissRoom
<1>3. /\ tick' = tick + 2 /\ entries' = [entries EXCEPT ![p] = tick']
      /\ heap' = heap \cup {<<tick', p>>}
      /\ content' = [content EXCEPT ![b] = p]
      /\ held' = [held EXCEPT ![r] = b] /\ asked' = [asked EXCEPT ![r] = p]
  BY <1>2 DEF Fill
<1>4. entries \in [Page -> 0 .. MaxTick] /\ \A q \in Page : entries[q] # 0 => <<entries[q], q>> \in heap
  BY <1>0 DEF TypeOK, Order, EvictionFindsVictim, Cached
<1>5. /\ Order' /\ entries' \in [Page -> 0 .. MaxTick]
      /\ heap' \subseteq (1 .. MaxTick) \X Page
      /\ tick' \in 0 .. MaxTick /\ tick' > tick /\ Cached' = Cached \cup {p}
  BY <1>0, <1>1, <1>3, <1>4, FillOrder, Zenon DEF Cached
<1>6. /\ \A q \in Cached : slot[q] # b /\ slot'[q] = slot[q]
      /\ slot'[p] = b /\ \A s \in Reader : held[s] # b
  BY <1>0, <1>1, <1>2 DEF InUse, TypeOK, Cached
<1>7. Buffers'
  BY <1>0, <1>1, <1>2, <1>3, <1>5, <1>6, FillBuffers, Zenon
<1>8. TypeOK'
  <2>1. slot' \in [Page -> Buffer \cup {NoBuffer}]
    BY <1>0, <1>2 DEF TypeOK
  <2>2. \A q \in Page : slot'[q] = NoBuffer <=> q \notin Cached'
    BY <1>0, <1>2, <1>5 DEF TypeOK
  <2>3. /\ content' \in [Buffer -> Page] /\ asked' \in [Reader -> Page]
        /\ held' \in [Reader -> Buffer \cup {NoBuffer}]
    BY <1>0, <1>2, <1>3 DEF TypeOK
  <2> QED BY <1>5, <2>1, <2>2, <2>3 DEF TypeOK
<1>9. Cardinality(Cached) < Capacity
  <2>1. Cardinality(Cached) \in Nat
    BY <1>4, CachedFinite DEF Cached
  <2> QED BY <1>1, <2>1 DEF AtLimit
<1>10. WithinCapacity'
  <2>1. IsFiniteSet(Cached) /\ Cardinality(Cached) \in Nat
    BY <1>4, CachedFinite DEF Cached
  <2>2. Cardinality(Cached \cup {p}) = Cardinality(Cached) + 1
    BY <1>1, <2>1, FS_AddElement, Zenon
  <2> QED BY <1>5, <1>9, <2>1, <2>2 DEF WithinCapacity
<1>11. Lru!Insert(p)
  BY <1>1, <1>3, <1>5, <1>9 DEF Lru!Insert, Lru!In, Cached
<1> QED BY <1>5, <1>7, <1>8, <1>10, <1>11 DEF Inv

\* What is left after evict_one: every other page, with its record.
LEMMA EvictLeaves ==
  ASSUME Inv, NEW q \in Page, Victim(q), AtLimit
  PROVE  /\ q \in Cached
         /\ [entries EXCEPT ![q] = 0] \in [Page -> 0 .. MaxTick]
         /\ \A x \in Page : x # q /\ entries[x] # 0
                              => <<entries[x], x>> \in {h \in heap : h[1] > entries[q]}
         /\ Lru!Oldest(q) /\ Cardinality(Lru!In) = Capacity
         /\ IsFiniteSet(Cached) /\ Cardinality(Cached) = Capacity
<1> USE CacheConstants
<1>0. TypeOK /\ Order /\ WithinCapacity
  BY DEF Inv
<1>1. /\ q \in Cached
      /\ \A p \in Cached : entries[q] <= entries[p]
      /\ \A p \in Cached : p # q => entries[p] > entries[q]
  BY <1>0, VictimIsOldest DEF Order
<1>2. IsFiniteSet(Cached) /\ Cardinality(Cached) \in Nat
  BY <1>0, CachedFinite DEF Cached, TypeOK
<1>3. Cardinality(Cached) = Capacity
  BY <1>0, <1>2 DEF WithinCapacity, AtLimit
<1>4. Lru!In = Cached
  BY DEF Lru!In, Cached
<1>5. \A x \in Page : x # q /\ entries[x] # 0
                        => <<entries[x], x>> \in {h \in heap : h[1] > entries[q]}
  BY <1>0, <1>1 DEF Order, EvictionFindsVictim, Cached
<1>6. [entries EXCEPT ![q] = 0] \in [Page -> 0 .. MaxTick]
  BY <1>0 DEF TypeOK
<1> QED BY <1>1, <1>2, <1>3, <1>4, <1>5, <1>6 DEF Lru!Oldest

LEMMA MissEvictsStep ==
  ASSUME Inv, NEW r \in Reader, NEW p \in Page, MissEvicts(r, p)
  PROVE  Inv' /\ Lru!Replace(p)
<1> USE CacheConstants
<1>0. TypeOK /\ Order /\ Buffers /\ WithinCapacity
  BY DEF Inv
<1>1. p \notin Cached /\ tick + 1 < MaxTick /\ AtLimit
  BY DEF MissEvicts
<1>2. PICK q \in Page, b \in Buffer :
        /\ Victim(q)
        /\ IF Unshared(slot[q]) THEN b = slot[q] ELSE b \notin InUse
        /\ Fill(r, p, b, [entries EXCEPT ![q] = 0], {h \in heap : h[1] > entries[q]})
        /\ slot' = [slot EXCEPT ![q] = NoBuffer, ![p] = b]
  BY Zenon DEF MissEvicts
<1> DEFINE base == [entries EXCEPT ![q] = 0]
           left == {h \in heap : h[1] > entries[q]}
<1>3. /\ tick' = tick + 2 /\ entries' = [base EXCEPT ![p] = tick']
      /\ heap' = left \cup {<<tick', p>>}
      /\ content' = [content EXCEPT ![b] = p]
      /\ held' = [held EXCEPT ![r] = b] /\ asked' = [asked EXCEPT ![r] = p]
  BY <1>2 DEF Fill
<1>4. /\ q \in Cached
      /\ base \in [Page -> 0 .. MaxTick]
      /\ \A x \in Page : x # q /\ entries[x] # 0 => <<entries[x], x>> \in left
      /\ Lru!Oldest(q) /\ Cardinality(Lru!In) = Capacity
      /\ IsFiniteSet(Cached) /\ Cardinality(Cached) = Capacity
  BY <1>1, <1>2, EvictLeaves
<1>5. /\ \A x \in Page : base[x] = 0 \/ base[x] = entries[x]
      /\ \A x \in Page : base[x] # 0 => <<base[x], x>> \in left
      /\ {x \in Page : base[x] # 0} = Cached \ {q}
  BY <1>0, <1>4 DEF TypeOK, Cached
<1>6. left \in SUBSET heap
  OBVIOUS
<1>7. /\ Order' /\ entries' \in [Page -> 0 .. MaxTick]
      /\ heap' \subseteq (1 .. MaxTick) \X Page
      /\ tick' \in 0 .. MaxTick /\ tick' > tick
      /\ Cached' = (Cached \ {q}) \cup {p}
  <2> HIDE DEF base, left
  <2>1. base \in [Page -> 0 .. MaxTick]
    BY <1>4
  <2>2. tick + 1 < MaxTick /\ TypeOK /\ Order
    BY <1>0, <1>1
  <2>3. tick' = tick + 2 /\ entries' = [base EXCEPT ![p] = tick'] /\ heap' = left \cup {<<tick', p>>}
    BY <1>3
  <2>4. /\ \A x \in Page : base[x] = 0 \/ base[x] = entries[x]
        /\ \A x \in Page : base[x] # 0 => <<base[x], x>> \in left
    BY <1>5
  <2>5. /\ Order' /\ entries' \in [Page -> 0 .. MaxTick]
        /\ heap' \subseteq (1 .. MaxTick) \X Page
        /\ tick' \in 0 .. MaxTick /\ tick' > tick
        /\ Cached' = {x \in Page : base[x] # 0} \cup {p}
    BY <1>6, <2>1, <2>2, <2>3, <2>4, FillOrder, ZenonT(30)
  <2>6. {x \in Page : base[x] # 0} = Cached \ {q}
    BY <1>5
  <2> QED BY <2>5, <2>6, Zenon
<1>8. p # q
  BY <1>1, <1>4
<1>9. /\ \A x \in Cached \ {q} : slot[x] # b /\ slot'[x] = slot[x]
      /\ slot'[p] = b /\ \A s \in Reader : held[s] # b
  <2>1. \A x \in Cached \ {q} : slot'[x] = slot[x]
    BY <1>0, <1>1, <1>2 DEF TypeOK, Cached
  <2>2. slot'[p] = b
    BY <1>0, <1>2 DEF TypeOK
  <2>3. CASE Unshared(slot[q])
    <3>1. \A x \in Cached \ {q} : slot[x] # slot[q]
      BY <1>0, <1>4 DEF Buffers, OwnBuffers
    <3> QED BY <1>2, <2>1, <2>2, <2>3, <3>1, Zenon DEF Unshared
  <2>4. CASE ~Unshared(slot[q])
    BY <1>2, <2>1, <2>2, <2>4, Zenon DEF InUse, Cached
  <2> QED BY <2>3, <2>4
<1>10. Buffers'
  <2> DEFINE keep == Cached \ {q}
  <2>1. /\ keep \in SUBSET Cached /\ p \notin keep /\ Cached' = keep \cup {p}
        /\ \A x \in keep : slot[x] # b /\ slot'[x] = slot[x]
    BY <1>1, <1>7, <1>9
  <2>2. /\ slot'[p] = b /\ \A s \in Reader : held[s] # b
        /\ content' = [content EXCEPT ![b] = p]
        /\ held' = [held EXCEPT ![r] = b] /\ asked' = [asked EXCEPT ![r] = p]
    BY <1>3, <1>9
  <2> HIDE DEF keep
  <2> QED BY <1>0, <2>1, <2>2, FillBuffers, Zenon
<1>11. TypeOK'
  <2>1. slot' \in [Page -> Buffer \cup {NoBuffer}]
    BY <1>0, <1>2 DEF TypeOK
  <2>2. \A x \in Page : slot'[x] = NoBuffer <=> x \notin Cached'
    BY <1>0, <1>2, <1>7, <1>8 DEF TypeOK
  <2>3. /\ content' \in [Buffer -> Page] /\ asked' \in [Reader -> Page]
        /\ held' \in [Reader -> Buffer \cup {NoBuffer}]
    BY <1>0, <1>3 DEF TypeOK
  <2> QED BY <1>7, <2>1, <2>2, <2>3 DEF TypeOK
<1>12. WithinCapacity'
  <2>1. IsFiniteSet(Cached \ {q}) /\ Cardinality(Cached \ {q}) = Capacity - 1
    BY <1>4, FS_RemoveElement
  <2>2. Cardinality((Cached \ {q}) \cup {p}) = (Capacity - 1) + 1
    BY <1>1, <2>1, FS_AddElement, Zenon
  <2> QED BY <1>7, <2>2 DEF WithinCapacity
<1>13. Lru!Replace(p)
  <2>1. entries' = [entries EXCEPT ![q] = 0, ![p] = tick']
    BY <1>3
  <2>2. p \notin Lru!In
    BY <1>1 DEF Lru!In, Cached
  <2> QED BY <1>4, <1>7, <2>1, <2>2, Zenon DEF Lru!Replace
<1> QED BY <1>7, <1>10, <1>11, <1>12, <1>13 DEF Inv

LEMMA MissFailsStep ==
  ASSUME Inv, NEW p \in Page, MissFails(p)
  PROVE  Inv' /\ (Lru!Evict \/ Lru!Tick)
<1> USE CacheConstants
<1>0. TypeOK /\ Order /\ Buffers /\ WithinCapacity
  BY DEF Inv
<1>1. /\ tick' = tick + 1 /\ tick \in Nat /\ tick' \in 0 .. MaxTick /\ tick' >= tick
      /\ content' = content /\ held' = held /\ asked' = asked
  BY <1>0 DEF MissFails, TypeOK
<1>2. CASE entries' = entries /\ heap' = heap /\ slot' = slot
  <2>1. Cached' = Cached
    BY <1>2 DEF Cached
  <2>2. TypeOK'
    BY <1>0, <1>1, <1>2, <2>1 DEF TypeOK
  <2>3. Order'
    BY <1>0, <1>1, <1>2, ShrinkOrder DEF TypeOK, Order, EvictionFindsVictim, Cached
  <2>4. Buffers'
    BY <1>0, <1>1, <1>2, <2>1, ShrinkBuffers
  <2>5. WithinCapacity'
    BY <1>0, <2>1 DEF WithinCapacity
  <2>6. Lru!Tick
    BY <1>1, <1>2 DEF Lru!Tick
  <2> QED BY <2>2, <2>3, <2>4, <2>5, <2>6 DEF Inv
<1>3. ASSUME AtLimit, NEW q \in Page, Victim(q), entries' = [entries EXCEPT ![q] = 0],
             heap' = {h \in heap : h[1] > entries[q]},
             slot' = [slot EXCEPT ![q] = NoBuffer]
      PROVE  Inv' /\ Lru!Evict
  <2>1. /\ q \in Cached /\ entries' \in [Page -> 0 .. MaxTick]
        /\ \A x \in Page : x # q /\ entries[x] # 0 => <<entries[x], x>> \in heap'
        /\ Lru!Oldest(q) /\ Cardinality(Lru!In) = Capacity
        /\ IsFiniteSet(Cached) /\ Cardinality(Cached) = Capacity
    BY <1>3, EvictLeaves
  <2>2. Cached' = Cached \ {q}
    BY <1>0, <1>3 DEF Cached, TypeOK
  <2>3. heap' \in SUBSET heap
    BY <1>3
  <2>4. /\ \A x \in Page : entries'[x] = 0 \/ entries'[x] = entries[x]
        /\ \A x \in Page : entries'[x] # 0 => <<entries'[x], x>> \in heap'
    BY <1>0, <1>3, <2>1 DEF TypeOK
  <2>5. Order'
    BY <1>0, <1>1, <2>1, <2>3, <2>4, ShrinkOrder
  <2>6. \A x \in Cached' : slot'[x] = slot[x]
    BY <1>0, <1>3, <2>2 DEF TypeOK, Cached
  <2>7. Buffers'
    BY <1>0, <1>1, <2>2, <2>6, ShrinkBuffers
  <2>8. TypeOK'
    BY <1>0, <1>1, <1>3, <2>1, <2>2, <2>3 DEF TypeOK
  <2>9. WithinCapacity'
    <3>1. Cardinality(Cached \ {q}) = Capacity - 1
      <4>1. IsFiniteSet(Cached) /\ Cardinality(Cached) = Capacity /\ q \in Cached
        BY <2>1
      <4>2. Cardinality(Cached \ {q}) = Cardinality(Cached) - 1
        BY <4>1, FS_RemoveElement, Zenon
      <4> QED BY <4>1, <4>2
    <3> QED BY <2>2, <3>1 DEF WithinCapacity
  <2>10. Lru!Evict
    BY <1>1, <1>3, <2>1, Zenon DEF Lru!Evict
  <2> QED BY <2>5, <2>7, <2>8, <2>9, <2>10 DEF Inv
<1> QED BY <1>2, <1>3 DEF MissFails

LEMMA InvalidateStep ==
  ASSUME Inv, NEW p \in Page, invalidate(p)
  PROVE  Inv' /\ Lru!Forget(p)
<1> USE CacheConstants
<1>0. TypeOK /\ Order /\ Buffers /\ WithinCapacity
  BY DEF Inv
<1>1. /\ entries' = [entries EXCEPT ![p] = 0] /\ slot' = [slot EXCEPT ![p] = NoBuffer]
      /\ heap' = heap /\ tick' = tick
      /\ content' = content /\ held' = held /\ asked' = asked
  BY DEF invalidate
<1>2. entries' \in [Page -> 0 .. MaxTick] /\ Cached' = Cached \ {p}
  BY <1>0, <1>1 DEF TypeOK, Cached
<1>3. /\ \A x \in Page : entries'[x] = 0 \/ entries'[x] = entries[x]
      /\ \A x \in Page : entries'[x] # 0 => <<entries'[x], x>> \in heap
  BY <1>0, <1>1 DEF TypeOK, Order, EvictionFindsVictim, Cached
<1>4. Order'
  <2>1. tick' \in 0 .. MaxTick /\ tick' >= tick
    BY <1>0, <1>1 DEF TypeOK
  <2> QED BY <1>0, <1>1, <1>2, <1>3, <2>1, ShrinkOrder
<1>5. Buffers'
  <2>1. \A x \in Cached' : slot'[x] = slot[x]
    BY <1>0, <1>1, <1>2 DEF TypeOK, Cached
  <2> QED BY <1>0, <1>1, <1>2, <2>1, ShrinkBuffers
<1>6. TypeOK'
  BY <1>0, <1>1, <1>2 DEF TypeOK
<1>7. WithinCapacity'
  <2>1. IsFiniteSet(Cached)
    BY <1>0, CachedFinite DEF Cached, TypeOK
  <2>2. Cardinality(Cached') \in Nat /\ Cardinality(Cached') <= Cardinality(Cached)
    BY <1>2, <2>1, FS_Subset, FS_CardinalityType
  <2> QED BY <1>0, <2>1, <2>2, FS_CardinalityType DEF WithinCapacity
<1>8. Lru!Forget(p)
  BY <1>1 DEF Lru!Forget
<1> QED BY <1>4, <1>5, <1>6, <1>7, <1>8 DEF Inv

LEMMA DropStep ==
  ASSUME Inv, NEW r \in Reader, Drop(r)
  PROVE  Inv' /\ UNCHANGED <<entries, tick>>
<1>1. /\ held' = [held EXCEPT ![r] = NoBuffer]
      /\ entries' = entries /\ heap' = heap /\ tick' = tick /\ slot' = slot
      /\ content' = content /\ asked' = asked /\ Cached' = Cached
  BY DEF Drop, Cached
<1>2. TypeOK'
  BY <1>1 DEF Inv, TypeOK
<1>3. Order'
  BY <1>1 DEF Inv, Order, TicksPast, TicksDiffer, EvictionFindsVictim
<1>4. OwnBuffers'
  BY <1>1 DEF Inv, Buffers, OwnBuffers
<1>5. NobodySeesRecycling'
  BY <1>1 DEF Inv, Buffers, NobodySeesRecycling, TypeOK
<1>6. WithinCapacity'
  BY <1>1 DEF Inv, WithinCapacity
<1> QED BY <1>1, <1>2, <1>3, <1>4, <1>5, <1>6 DEF Inv, Buffers

LEMMA CacheStutters == Inv /\ UNCHANGED vars => Inv'
<1> SUFFICES ASSUME Inv, UNCHANGED vars PROVE Inv'
  OBVIOUS
<1>1. /\ entries' = entries /\ heap' = heap /\ tick' = tick /\ slot' = slot
      /\ content' = content /\ held' = held /\ asked' = asked /\ Cached' = Cached
  BY DEF vars, Cached
<1>2. TypeOK' /\ WithinCapacity'
  BY <1>1 DEF Inv, TypeOK, WithinCapacity
<1>3. Order'
  BY <1>1 DEF Inv, Order, TicksPast, TicksDiffer, EvictionFindsVictim
<1>4. Buffers'
  BY <1>1 DEF Inv, Buffers, OwnBuffers, NobodySeesRecycling
<1> QED BY <1>2, <1>3, <1>4 DEF Inv

LEMMA CacheStep == Inv /\ [Next]_vars => Inv' /\ [Lru!LruNext]_<<entries, tick>>
<1> SUFFICES ASSUME Inv, [Next]_vars PROVE Inv' /\ [Lru!LruNext]_<<entries, tick>>
  OBVIOUS
<1>1. ASSUME NEW r \in Reader, NEW p \in Page, get(r, p)
      PROVE  Inv' /\ Lru!LruNext
  BY <1>1, GetStep DEF Lru!LruNext
<1>2. ASSUME NEW r \in Reader, NEW p \in Page, MissRoom(r, p)
      PROVE  Inv' /\ Lru!LruNext
  BY <1>2, MissRoomStep DEF Lru!LruNext
<1>3. ASSUME NEW r \in Reader, NEW p \in Page, MissEvicts(r, p)
      PROVE  Inv' /\ Lru!LruNext
  BY <1>3, MissEvictsStep DEF Lru!LruNext
<1>4. ASSUME NEW p \in Page, MissFails(p)
      PROVE  Inv' /\ Lru!LruNext
  BY <1>4, MissFailsStep DEF Lru!LruNext
<1>5. ASSUME NEW p \in Page, invalidate(p)
      PROVE  Inv' /\ Lru!LruNext
  BY <1>5, InvalidateStep DEF Lru!LruNext
<1>6. ASSUME NEW r \in Reader, Drop(r)
      PROVE  Inv' /\ UNCHANGED <<entries, tick>>
  BY <1>6, DropStep
<1>7. CASE UNCHANGED vars
  BY <1>7, CacheStutters DEF vars
<1> QED BY <1>1, <1>2, <1>3, <1>4, <1>5, <1>6, <1>7 DEF Next

LEMMA CacheInvariant == Spec => []Inv
<1>1. Inv /\ [Next]_vars => Inv'
  BY CacheStep
<1> QED BY CacheInit, <1>1, PTL DEF Spec

-----------------------------------------------------------------------------

\* PageCache keeps its types, ticks and records (PageCache's fields).
THEOREM CacheTypeCorrect == Spec => []TypeOK
<1>1. Inv => TypeOK
  BY DEF Inv
<1> QED BY <1>1, CacheInvariant, PTL

\* However many pages miss, are invalidated or fail to be read, evict_one_if_full
\* keeps the cache within its capacity.
THEOREM CapacityIsKept == Spec => []WithinCapacity
<1>1. Inv => WithinCapacity
  BY DEF Inv
<1> QED BY <1>1, CacheInvariant, PTL

\* evict_one never comes back empty-handed: stale records, popping and compaction
\* never lose the record of a cached page's last use.
THEOREM VictimIsAlwaysFound == Spec => []EvictionFindsVictim
<1>1. Inv => EvictionFindsVictim
  BY DEF Inv, Order
<1> QED BY <1>1, CacheInvariant, PTL

\* A buffer that read_page recycles is no reader's and no other entry's.
THEOREM RecyclingIsInvisible == Spec => []NobodySeesRecycling
<1>1. Inv => NobodySeesRecycling
  BY DEF Inv, Buffers
<1> QED BY <1>1, CacheInvariant, PTL

\* With its heap of stale records, PageCache implements the LRU cache: what
\* evict_one removes is the least recently used page.
THEOREM CacheIsLru == Spec => EvictsLeastRecent
<1>1. Init => Lru!LruInit
  BY DEF Init, Lru!LruInit
<1>2. Inv /\ [Next]_vars => [Lru!LruNext]_<<entries, tick>>
  BY CacheStep
<1> QED BY <1>1, <1>2, CacheInvariant, PTL DEF Spec, EvictsLeastRecent, Lru!LruSpec
=============================================================================
