---------------------------- MODULE FreelistProofs ----------------------------
(***************************************************************************)
(* What allocate_page and deallocate_page keep true of the freelist, for   *)
(* every database size and every trunk capacity, when no page is freed     *)
(* twice: one record invariant, Sound, of the connection's pages and of    *)
(* the file.  And what check_freelist computes of a sound freelist.        *)
(***************************************************************************)
EXTENDS Freelist, FiniteSetTheorems, SequenceTheorems, WellFoundedInduction, TLAPS

USE ZenonT(30)

-----------------------------------------------------------------------------
(* The invariant.                                                          *)

Db == [head : 0 .. MaxPages, count : 0 .. MaxPages, pages : Page,
       buf : [Page -> TrunkPage], chain : Seq(Page), used : SUBSET Page]

Trunks(s)  == Range(s.chain)
Held(s, t) == Range(s.buf[t].leaves)

\* head and the next pointers spell the chain, from the newest trunk down.
Linked(s) ==
  /\ s.head = IF s.chain = << >> THEN 0 ELSE Top(s.chain)
  /\ \A i \in 1 .. Len(s.chain) :
       s.buf[s.chain[i]].next = IF i = 1 THEN 0 ELSE s.chain[i - 1]

\* No page is on the freelist twice.
Once(s) ==
  /\ IsInjective(s.chain)
  /\ \A t \in Trunks(s) : IsInjective(s.buf[t].leaves) /\ Held(s, t) \cap Trunks(s) = {}
  /\ \A t, u \in Trunks(s) : t # u => Held(s, t) \cap Held(s, u) = {}

\* Every page of the database has one owner, and page 1 counts the free ones.
Accounted(s) ==
  /\ 1 \in s.used /\ s.used \cap Free(s) = {} /\ s.used \cup Free(s) = 1 .. s.pages
  /\ s.count = Cardinality(Free(s))

Sound(s) ==
  /\ s \in Db /\ \A p \in Page : Len(s.buf[p].leaves) <= MaxLeaves
  /\ Linked(s) /\ Once(s) /\ Accounted(s)

-----------------------------------------------------------------------------
(* Sequences without repetition, and the set of free pages.                *)

LEMMA Bounds == MaxPages \in Nat /\ MaxPages > 0 /\ MaxLeaves \in Nat /\ MaxLeaves > 0
  BY FreelistConstants, SMTT(30)

LEMMA PopFacts ==
  ASSUME NEW S, NEW q \in Seq(S), q # << >>
  PROVE  /\ Pop(q) \in Seq(S) /\ Len(Pop(q)) = Len(q) - 1 /\ Len(q) \in Nat \ {0}
         /\ \A i \in 1 .. Len(q) - 1 : Pop(q)[i] = q[i]
         /\ Top(q) = q[Len(q)] /\ Top(q) \in S /\ Top(q) \in Range(q)
<1>1. Len(q) \in Nat /\ Len(q) # 0 /\ DOMAIN q = 1 .. Len(q)
  BY LenProperties, EmptySeq
<1>2. Len(q) \in 1 .. Len(q) /\ Len(q) - 1 \in Nat
  BY <1>1, SMTT(30)
<1>3. \A i \in 1 .. Len(q) - 1 : i \in 1 .. Len(q)
  BY <1>1, SMTT(30)
<1>4. \A i \in 1 .. Len(q) : q[i] \in S
  BY <1>1, ElementOfSeq
<1>5. Pop(q) \in Seq(S) /\ Len(Pop(q)) = Len(q) - 1
  BY <1>1, <1>2, <1>3, <1>4, SMTT(30) DEF Pop
<1> QED
  BY <1>1, <1>2, <1>3, <1>4, <1>5 DEF Pop, Top, Range

LEMMA PopRange ==
  ASSUME NEW S, NEW q \in Seq(S), q # << >>, IsInjective(q)
  PROVE  Range(Pop(q)) = Range(q) \ {Top(q)} /\ IsInjective(Pop(q))
<1>1. /\ Pop(q) \in Seq(S) /\ Len(Pop(q)) = Len(q) - 1 /\ Len(q) \in Nat \ {0}
      /\ \A i \in 1 .. Len(q) - 1 : Pop(q)[i] = q[i]
      /\ Top(q) = q[Len(q)] /\ DOMAIN q = 1 .. Len(q) /\ DOMAIN Pop(q) = 1 .. Len(q) - 1
  BY PopFacts, LenProperties
<1>2. \A i : i \in 1 .. Len(q) <=> i \in 1 .. Len(q) - 1 \/ i = Len(q)
  BY <1>1, SMTT(30)
<1>3. \A i \in 1 .. Len(q) - 1 : i # Len(q)
  BY <1>1, SMTT(30)
<1>4. \A x \in Range(Pop(q)) : x \in Range(q) \ {Top(q)}
  <2> SUFFICES ASSUME NEW i \in 1 .. Len(q) - 1 PROVE q[i] \in Range(q) /\ q[i] # q[Len(q)]
    BY <1>1 DEF Range
  <2> QED
    BY <1>1, <1>2, <1>3 DEF IsInjective, Range
<1>5. \A x \in Range(q) \ {Top(q)} : x \in Range(Pop(q))
  <2> SUFFICES ASSUME NEW i \in 1 .. Len(q), q[i] # q[Len(q)] PROVE q[i] \in Range(Pop(q))
    BY <1>1 DEF Range
  <2>1. i \in 1 .. Len(q) - 1
    BY <1>2
  <2> QED
    BY <1>1, <2>1 DEF Range
<1>6. IsInjective(Pop(q))
  BY <1>1, <1>2 DEF IsInjective
<1> QED
  BY <1>4, <1>5, <1>6

\* w is q with x at its end.
Appended(q, x, w) ==
  /\ w \in Seq(Page) /\ Len(w) = Len(q) + 1 /\ Len(q) \in Nat
  /\ (\A i \in 1 .. Len(q) : w[i] = q[i]) /\ w[Len(q) + 1] = x

LEMMA AppendIs ==
  ASSUME NEW q \in Seq(Page), NEW x \in Page PROVE Appended(q, x, Append(q, x))
  BY SMTT(30) DEF Appended

LEMMA AppendRange ==
  ASSUME NEW q \in Seq(Page), NEW x \in Page, NEW w, Appended(q, x, w)
  PROVE  /\ Range(w) = Range(q) \cup {x}
         /\ IsInjective(q) /\ x \notin Range(q) => IsInjective(w)
<1>2. DOMAIN q = 1 .. Len(q) /\ DOMAIN w = 1 .. Len(q) + 1
  BY LenProperties DEF Appended
<1>3. \A i : i \in 1 .. Len(q) + 1 <=> i \in 1 .. Len(q) \/ i = Len(q) + 1
  BY SMTT(30) DEF Appended
<1>4. \A y \in Range(w) : y \in Range(q) \cup {x}
  BY <1>2, <1>3 DEF Range, Appended
<1>5. \A y \in Range(q) \cup {x} : y \in Range(w)
  BY <1>2, <1>3 DEF Range, Appended
<1>6. IsInjective(q) /\ x \notin Range(q) => IsInjective(w)
  BY <1>2, <1>3 DEF Range, IsInjective, Appended
<1> QED
  BY <1>4, <1>5, <1>6

LEMMA FreeIs ==
  ASSUME NEW s, s.chain \in Seq(Page), NEW x
  PROVE  x \in Free(s) <=> x \in Trunks(s) \/ \E t \in Trunks(s) : x \in Held(s, t)
<1>1. DOMAIN s.chain = 1 .. Len(s.chain)
  BY LenProperties
<1>2. \A t : t \in Trunks(s) <=> \E i \in 1 .. Len(s.chain) : t = s.chain[i]
  BY <1>1 DEF Trunks, Range
<1>3. x \in Leaf(s) <=> \E i \in 1 .. Len(s.chain) : x \in Held(s, s.chain[i])
  BY DEF Leaf, Held
<1>4. x \in Leaf(s) <=> \E t \in Trunks(s) : x \in Held(s, t)
  BY <1>2, <1>3
<1> QED
  BY <1>4 DEF Free, Trunks

LEMMA DbFields ==
  ASSUME NEW s \in Db
  PROVE  /\ s.head \in 0 .. MaxPages /\ s.count \in 0 .. MaxPages /\ s.pages \in Page
         /\ s.buf \in [Page -> TrunkPage] /\ s.chain \in Seq(Page) /\ s.used \in SUBSET Page
         /\ \A p \in Page : /\ s.buf[p] \in TrunkPage /\ s.buf[p].leaves \in Seq(Page)
                            /\ s.buf[p].next \in 0 .. MaxPages
<1>1. /\ s.head \in 0 .. MaxPages /\ s.count \in 0 .. MaxPages /\ s.pages \in Page
      /\ s.buf \in [Page -> TrunkPage] /\ s.chain \in Seq(Page) /\ s.used \in SUBSET Page
  BY DEF Db
<1> QED
  BY <1>1 DEF TrunkPage

\* t has the six fields of Db and no others.
IsRecord(t) == t = [head |-> t.head, count |-> t.count, pages |-> t.pages, buf |-> t.buf,
                    chain |-> t.chain, used |-> t.used]

Record(h, n, g, b, c, u) ==
  [head |-> h, count |-> n, pages |-> g, buf |-> b, chain |-> c, used |-> u]

LEMMA Built ==
  ASSUME NEW h, NEW n, NEW g, NEW b, NEW c, NEW u
  PROVE  /\ Record(h, n, g, b, c, u).head = h /\ Record(h, n, g, b, c, u).count = n
         /\ Record(h, n, g, b, c, u).pages = g /\ Record(h, n, g, b, c, u).buf = b
         /\ Record(h, n, g, b, c, u).chain = c /\ Record(h, n, g, b, c, u).used = u
         /\ IsRecord(Record(h, n, g, b, c, u))
  BY DEF IsRecord, Record

\* g is f with page h written as a trunk with next n and the leaves l.
Wrote(f, h, n, l, g) ==
  /\ g \in [Page -> TrunkPage] /\ g[h].next = n /\ g[h].leaves = l
  /\ \A p \in Page : p # h => g[p] = f[p]

LEMMA TrunkWritten ==
  ASSUME NEW f \in [Page -> TrunkPage], NEW h \in Page, NEW n \in 0 .. MaxPages, NEW l \in Seq(Page),
         NEW g, g = [f EXCEPT ![h] = [next |-> n, leaves |-> l]]
  PROVE  Wrote(f, h, n, l, g)
<1> DEFINE r == [next |-> n, leaves |-> l]
<1>1. r \in TrunkPage /\ r.next = n /\ r.leaves = l
  BY DEF TrunkPage
<1> HIDE DEF r
<1>2. g = [f EXCEPT ![h] = r]
  BY DEF r
<1> QED
  BY <1>1, <1>2 DEF Wrote

LEMMA InDb ==
  ASSUME NEW t, IsRecord(t), t.head \in 0 .. MaxPages, t.count \in 0 .. MaxPages, t.pages \in Page,
         t.buf \in [Page -> TrunkPage], t.chain \in Seq(Page), t.used \in SUBSET Page
  PROVE  t \in Db
  BY DEF IsRecord, Db

LEMMA HeadIsTrunk ==
  ASSUME NEW s, Sound(s)
  PROVE  /\ Trunks(s) \subseteq Page
         /\ s.chain = << >> => s.head = 0 /\ Free(s) = {}
         /\ s.chain # << >> => s.head # 0 /\ s.head = Top(s.chain) /\ s.head \in Trunks(s)
         /\ Free(s) \subseteq Page /\ IsFiniteSet(Free(s))
<1>1. s.chain \in Seq(Page) /\ s.pages \in Page
  BY DbFields DEF Sound
<1>2. Trunks(s) \subseteq Page
  <2>1. DOMAIN s.chain = 1 .. Len(s.chain)
    BY <1>1, LenProperties
  <2>2. \A i \in DOMAIN s.chain : s.chain[i] \in Page
    BY <1>1, <2>1, ElementOfSeq
  <2> QED
    BY <2>2 DEF Trunks, Range
<1>3. ASSUME s.chain = << >> PROVE s.head = 0 /\ Free(s) = {}
  <2>1. Trunks(s) = {}
    BY <1>3, SMTT(30) DEF Trunks, Range
  <2>2. \A x : x \notin Free(s)
    BY <1>1, <2>1, FreeIs
  <2> QED
    BY <1>3, <2>2 DEF Sound, Linked
<1>4. ASSUME s.chain # << >> PROVE s.head # 0 /\ s.head = Top(s.chain) /\ s.head \in Trunks(s)
  <2>1. s.head = Top(s.chain) /\ Top(s.chain) \in Range(s.chain)
    BY <1>1, <1>4, PopFacts DEF Sound, Linked
  <2>2. s.head \in Trunks(s) /\ s.head \in Page
    BY <1>2, <2>1 DEF Trunks
  <2>3. s.head # 0
    BY <2>2, Bounds, SMTT(30) DEF Page
  <2> QED
    BY <2>1, <2>2, <2>3
<1>5. \A x \in 1 .. s.pages : x \in Page
  BY <1>1, Bounds, SMTT(30) DEF Page
<1>6. Free(s) \subseteq Page
  BY <1>5 DEF Sound, Accounted
<1>7. IsFiniteSet(Page)
  <2>1. 1 \in Int /\ MaxPages \in Int
    BY Bounds, SMTT(30)
  <2> QED
    BY <2>1, FS_Interval DEF Page
<1>8. IsFiniteSet(Free(s))
  BY <1>6, <1>7, FS_Subset
<1> QED
  BY <1>2, <1>3, <1>4, <1>6, <1>8

\* Handing out one free page x.
LEMMA OneLess ==
  ASSUME NEW s, Sound(s), NEW x \in Free(s), NEW t, t.pages = s.pages,
         t.used = s.used \cup {x}, t.count = s.count - 1, Free(t) = Free(s) \ {x}
  PROVE  Accounted(t) /\ t.count \in 0 .. MaxPages /\ t.used \in SUBSET Page
<1>1. IsFiniteSet(Free(s)) /\ x \in Page /\ s.used \in SUBSET Page /\ s.count \in 0 .. MaxPages
  BY HeadIsTrunk, DbFields DEF Sound
<1>2. Cardinality(Free(s)) = s.count /\ Cardinality(Free(s)) \in Nat /\ Cardinality(Free(s)) # 0
  BY <1>1, FS_CardinalityType, FS_EmptySet DEF Sound, Accounted
<1>3. Cardinality(Free(t)) = Cardinality(Free(s)) - 1
  BY <1>1, FS_RemoveElement
<1>4. s.count - 1 \in 0 .. MaxPages
  BY <1>1, <1>2, Bounds, SMTT(30)
<1>5. t.count = Cardinality(Free(t))
  BY <1>2, <1>3
<1>6. 1 \in t.used /\ t.used \cap Free(t) = {} /\ t.used \cup Free(t) = 1 .. t.pages
  BY DEF Sound, Accounted
<1> QED
  BY <1>1, <1>4, <1>5, <1>6 DEF Accounted

\* Taking the newest leaf x of the head trunk.
LEMMA LeafTaken ==
  ASSUME NEW s, Sound(s), NEW h, h = s.head, h # 0, NEW q, q = s.buf[h].leaves, q # << >>,
         NEW x, x = Top(q),
         NEW t, IsRecord(t), t.head = h, t.count = s.count - 1, t.pages = s.pages,
         Wrote(s.buf, h, s.buf[h].next, Pop(q), t.buf),
         t.chain = s.chain, t.used = s.used \cup {x}
  PROVE  Sound(t) /\ Free(t) = Free(s) \ {x} /\ x \in Free(s)
<1>1. /\ s \in Db /\ h \in Trunks(s) /\ h \in Page /\ Trunks(s) \subseteq Page
      /\ s.buf \in [Page -> TrunkPage] /\ s.chain \in Seq(Page) /\ q \in Seq(Page)
      /\ IsInjective(q) /\ s.head \in 0 .. MaxPages /\ s.pages \in Page
      /\ s.buf[h].next \in 0 .. MaxPages
  <2>1. s.chain # << >> /\ s \in Db
    BY HeadIsTrunk DEF Sound
  <2>2. h \in Trunks(s) /\ h \in Page
    BY <2>1, HeadIsTrunk
  <2> QED
    BY <2>1, <2>2, HeadIsTrunk, DbFields DEF Sound, Once
<1>2. /\ Pop(q) \in Seq(Page) /\ Len(Pop(q)) = Len(q) - 1 /\ Len(q) \in Nat /\ x \in Range(q)
      /\ Range(Pop(q)) = Range(q) \ {x} /\ IsInjective(Pop(q))
  BY <1>1, PopFacts, PopRange
<1>3. /\ t.buf \in [Page -> TrunkPage] /\ t.buf[h].next = s.buf[h].next /\ t.buf[h].leaves = Pop(q)
      /\ \A p \in Page : p # h => t.buf[p] = s.buf[p]
  BY DEF Wrote
<1>6. /\ Trunks(t) = Trunks(s) /\ Held(t, h) = Held(s, h) \ {x}
      /\ \A u \in Trunks(s) : u # h => Held(t, u) = Held(s, u)
  BY <1>1, <1>2, <1>3 DEF Trunks, Held
<1>7. /\ x \in Held(s, h) /\ x \notin Trunks(s)
      /\ \A u \in Trunks(s) : u # h => x \notin Held(s, u)
  BY <1>1, <1>2 DEF Held, Sound, Once
<1>8. Free(t) = Free(s) \ {x} /\ x \in Free(s)
  <2>1. \A y : y \in Free(t) <=> y \in Free(s) \ {x}
    <3> TAKE y
    <3>1. y \in Free(t) <=> y \in Trunks(s) \/ \E u \in Trunks(s) : y \in Held(t, u)
      BY <1>1, <1>6, FreeIs
    <3>2. y \in Free(s) <=> y \in Trunks(s) \/ \E u \in Trunks(s) : y \in Held(s, u)
      BY <1>1, FreeIs
    <3> QED
      BY <1>1, <1>6, <1>7, <3>1, <3>2
  <2> QED
    BY <1>1, <1>7, <2>1, FreeIs
<1>9. Accounted(t) /\ t.count \in 0 .. MaxPages /\ t.used \in SUBSET Page
  BY <1>8, OneLess
<1>10. t \in Db
  BY <1>1, <1>3, <1>9, InDb
<1>11. \A p \in Page : Len(t.buf[p].leaves) <= MaxLeaves
  <2>1. Len(q) <= MaxLeaves
    BY <1>1 DEF Sound
  <2>2. Len(Pop(q)) <= MaxLeaves
    <3>1. Len(Pop(q)) = Len(q) - 1 /\ Len(q) \in Nat
      BY <1>2
    <3>2. \A m \in Nat : m <= MaxLeaves => m - 1 <= MaxLeaves
      BY Bounds, SMTT(30)
    <3> QED
      BY <2>1, <3>1, <3>2
  <2> QED
    BY <1>3, <2>2 DEF Sound
<1>12. Linked(t)
  <2>1. \A p \in Page : t.buf[p].next = s.buf[p].next
    BY <1>3
  <2>2. \A i \in 1 .. Len(s.chain) : s.chain[i] \in Page
    BY <1>1, ElementOfSeq
  <2>3. Linked(s)
    BY DEF Sound
  <2>4. t.head = IF t.chain = << >> THEN 0 ELSE Top(t.chain)
    BY <2>3 DEF Linked
  <2>5. \A i \in 1 .. Len(s.chain) :
          t.buf[s.chain[i]].next = IF i = 1 THEN 0 ELSE s.chain[i - 1]
    BY <2>1, <2>2, <2>3 DEF Linked
  <2> QED
    BY <2>4, <2>5 DEF Linked
<1>13. Once(t)
  <2>1. \A u \in Trunks(s) : IsInjective(t.buf[u].leaves)
    BY <1>1, <1>2, <1>3 DEF Sound, Once
  <2>2. \A u \in Trunks(s) : Held(t, u) \subseteq Held(s, u)
    BY <1>6
  <2>3. Once(s)
    BY DEF Sound
  <2>4. \A u \in Trunks(s) : Held(t, u) \cap Trunks(s) = {}
    BY <2>2, <2>3 DEF Once
  <2>5. \A u, v \in Trunks(s) : u # v => Held(t, u) \cap Held(t, v) = {}
    BY <2>2, <2>3 DEF Once
  <2> QED
    BY <1>6, <2>1, <2>3, <2>4, <2>5 DEF Once
<1> QED
  BY <1>8, <1>9, <1>10, <1>11, <1>12, <1>13 DEF Sound

\* Handing out the head trunk h itself, when it has no leaf left.
LEMMA TrunkTaken ==
  ASSUME NEW s, Sound(s), NEW h, h = s.head, h # 0, s.buf[h].leaves = << >>,
         NEW t, IsRecord(t), t.head = s.buf[h].next, t.count = s.count - 1, t.pages = s.pages,
         Wrote(s.buf, h, 0, << >>, t.buf), t.chain = Pop(s.chain), t.used = s.used \cup {h}
  PROVE  Sound(t) /\ Free(t) = Free(s) \ {h} /\ h \in Free(s)
<1> DEFINE c == s.chain
<1>1. /\ s \in Db /\ c # << >> /\ h = Top(c) /\ h \in Trunks(s) /\ h \in Page
      /\ Trunks(s) \subseteq Page /\ c \in Seq(Page) /\ s.pages \in Page
      /\ s.buf[h].next \in 0 .. MaxPages /\ IsInjective(c) /\ Linked(s) /\ Once(s)
  <2>1. s.chain # << >> /\ s \in Db /\ Linked(s) /\ Once(s)
    BY HeadIsTrunk DEF Sound
  <2>2. h \in Trunks(s) /\ h \in Page
    BY <2>1, HeadIsTrunk
  <2> QED
    BY <2>1, <2>2, HeadIsTrunk, DbFields DEF Once
<1>2. /\ Pop(c) \in Seq(Page) /\ Len(Pop(c)) = Len(c) - 1 /\ Len(c) \in Nat \ {0}
      /\ \A i \in 1 .. Len(c) - 1 : Pop(c)[i] = c[i]
      /\ h = c[Len(c)] /\ Range(Pop(c)) = Range(c) \ {h} /\ IsInjective(Pop(c))
      /\ DOMAIN c = 1 .. Len(c)
  <2>1. /\ Pop(c) \in Seq(Page) /\ Len(Pop(c)) = Len(c) - 1 /\ Len(c) \in Nat \ {0}
        /\ \A i \in 1 .. Len(c) - 1 : Pop(c)[i] = c[i]
        /\ Top(c) = c[Len(c)]
    BY <1>1, PopFacts
  <2>2. Range(Pop(c)) = Range(c) \ {Top(c)} /\ IsInjective(Pop(c))
    BY <1>1, PopRange
  <2> QED
    BY <1>1, <2>1, <2>2, LenProperties
<1>3. /\ t.buf \in [Page -> TrunkPage] /\ t.buf[h].leaves = << >>
      /\ \A p \in Page : p # h => t.buf[p] = s.buf[p]
  BY DEF Wrote
<1>4. /\ Trunks(t) = Trunks(s) \ {h} /\ Held(s, h) = {}
      /\ \A u \in Trunks(t) : u \in Trunks(s) /\ u # h /\ Held(t, u) = Held(s, u)
  <2>1. Trunks(t) = Trunks(s) \ {h}
    BY <1>2 DEF Trunks
  <2>2. Held(s, h) = {}
    BY SMTT(30) DEF Held, Range
  <2>3. \A u \in Trunks(t) : u \in Page /\ u # h
    BY <1>1, <2>1
  <2> QED
    BY <1>3, <2>1, <2>2, <2>3 DEF Held
<1>5. Free(t) = Free(s) \ {h} /\ h \in Free(s)
  <2>1. \A y : y \in Free(t) <=> y \in Free(s) \ {h}
    <3> TAKE y
    <3>1. y \in Free(t) <=> y \in Trunks(t) \/ \E u \in Trunks(t) : y \in Held(t, u)
      BY <1>2, FreeIs
    <3>2. y \in Free(s) <=> y \in Trunks(s) \/ \E u \in Trunks(s) : y \in Held(s, u)
      BY <1>1, FreeIs
    <3>3. \A u \in Trunks(s) : h \notin Held(s, u)
      BY <1>1 DEF Once
    <3> QED
      BY <1>1, <1>4, <3>1, <3>2, <3>3
  <2> QED
    BY <1>1, <2>1, FreeIs
<1>6. Accounted(t) /\ t.count \in 0 .. MaxPages /\ t.used \in SUBSET Page
  BY <1>5, OneLess
<1>7. t \in Db
  BY <1>1, <1>2, <1>3, <1>6, InDb
<1>8. \A p \in Page : Len(t.buf[p].leaves) <= MaxLeaves
  <2>1. Len(<< >>) <= MaxLeaves
    BY Bounds, SMTT(30)
  <2> QED
    BY <1>3, <2>1 DEF Sound
<1>9. Linked(t)
  <2>0. Len(c) \in Nat \ {0} /\ Len(c) \in 1 .. Len(c)
    BY <1>2, SMTT(30)
  <2>1. \A i \in 1 .. Len(c) - 1 : i \in 1 .. Len(c) /\ i # Len(c) /\ (i # 1 => i - 1 \in 1 .. Len(c) - 1)
    BY <2>0, SMTT(30)
  <2>2. \A i \in 1 .. Len(c) - 1 : c[i] \in Page /\ c[i] # h
    <3> TAKE i \in 1 .. Len(c) - 1
    <3>1. i \in DOMAIN c /\ Len(c) \in DOMAIN c /\ i # Len(c)
      BY <1>2, <2>0, <2>1
    <3>2. c[i] # c[Len(c)]
      BY <1>1, <3>1 DEF IsInjective
    <3> QED
      BY <1>1, <1>2, <3>1, <3>2, ElementOfSeq
  <2>3. \A i \in 1 .. Len(c) - 1 : t.buf[c[i]].next = s.buf[c[i]].next
    BY <1>3, <2>2
  <2>4. \A i \in 1 .. Len(c) - 1 : s.buf[c[i]].next = IF i = 1 THEN 0 ELSE c[i - 1]
    BY <1>1, <2>1 DEF Linked
  <2>5. \A i \in 1 .. Len(c) - 1 : t.buf[Pop(c)[i]].next = IF i = 1 THEN 0 ELSE Pop(c)[i - 1]
    <3> TAKE i \in 1 .. Len(c) - 1
    <3>1. Pop(c)[i] = c[i] /\ (i # 1 => Pop(c)[i - 1] = c[i - 1])
      BY <1>2, <2>1
    <3>2. t.buf[c[i]].next = IF i = 1 THEN 0 ELSE c[i - 1]
      BY <2>3, <2>4
    <3> QED
      BY <3>1, <3>2
  <2>6. t.head = IF Len(c) = 1 THEN 0 ELSE c[Len(c) - 1]
    BY <1>1, <1>2, <2>0 DEF Linked
  <2>7. t.head = IF Pop(c) = << >> THEN 0 ELSE Top(Pop(c))
    <3>1. CASE Len(c) = 1
      <4>1. Len(Pop(c)) = 0
        BY <1>2, <3>1, SMTT(30)
      <4> QED
        BY <1>2, <2>6, <3>1, <4>1, EmptySeq
    <3>2. CASE Len(c) # 1
      <4>0. \A n \in Nat \ {0} : n # 1 => n - 1 \in 1 .. n - 1 /\ n - 1 # 0
        BY SMTT(30)
      <4>1. Len(c) - 1 \in 1 .. Len(c) - 1 /\ Len(c) - 1 # 0
        BY <2>0, <3>2, <4>0
      <4>2. Pop(c) # << >>
        BY <1>2, <4>1, EmptySeq
      <4> QED
        BY <1>2, <2>6, <3>2, <4>1, <4>2 DEF Top
    <3> QED
      BY <3>1, <3>2
  <2> QED
    BY <1>2, <2>5, <2>7 DEF Linked
<1>10. Once(t)
  <2>1. \A u \in Trunks(t) : t.buf[u] = s.buf[u]
    BY <1>1, <1>3, <1>4
  <2>2. \A u \in Trunks(t) : IsInjective(t.buf[u].leaves) /\ Held(t, u) \cap Trunks(t) = {}
    BY <1>1, <1>4, <2>1 DEF Once
  <2>3. \A u, v \in Trunks(t) : u # v => Held(t, u) \cap Held(t, v) = {}
    BY <1>1, <1>4 DEF Once
  <2> QED
    BY <1>2, <2>2, <2>3 DEF Once
<1> QED
  BY <1>5, <1>6, <1>7, <1>8, <1>9, <1>10 DEF Sound

\* Freeing one page p that was in use.
LEMMA OneMore ==
  ASSUME NEW s, Sound(s), NEW p \in s.used \ {1}, NEW t, t.pages = s.pages,
         t.used = s.used \ {p}, t.count = s.count + 1, Free(t) = Free(s) \cup {p}
  PROVE  Accounted(t) /\ t.count \in 0 .. MaxPages /\ t.used \in SUBSET Page
<1>1. /\ IsFiniteSet(Free(s)) /\ s.used \in SUBSET Page /\ s.count \in 0 .. MaxPages
      /\ Free(s) \subseteq Page /\ p \in Page /\ p \notin Free(s)
  BY HeadIsTrunk, DbFields DEF Sound, Accounted
<1>2. Cardinality(Free(t)) = s.count + 1
  <2>1. Cardinality(Free(s) \cup {p}) = Cardinality(Free(s)) + 1
    BY <1>1, FS_AddElement
  <2>2. s.count = Cardinality(Free(s))
    BY DEF Sound, Accounted
  <2> QED
    BY <2>1, <2>2
<1>3. s.count + 1 \in 0 .. MaxPages
  <2>1. 1 \in Int /\ MaxPages \in Int /\ ~ (1 > MaxPages)
    BY Bounds, SMTT(30)
  <2>2. IsFiniteSet(Page) /\ Cardinality(Page) = MaxPages - 1 + 1
    BY <2>1, FS_Interval DEF Page
  <2>3. Cardinality(Free(t)) <= Cardinality(Page)
    BY <1>1, <2>2, FS_Subset
  <2> QED
    BY <1>1, <1>2, <2>2, <2>3, Bounds, SMTT(30)
<1>4. 1 \in t.used /\ t.used \cap Free(t) = {} /\ t.used \cup Free(t) = 1 .. t.pages
  BY <1>1 DEF Sound, Accounted
<1> QED
  BY <1>1, <1>2, <1>3, <1>4 DEF Accounted

\* p becomes one more leaf of the head trunk h, whose leaves were q and are w.
AddsLeaf(s, h, q, p, w, t) ==
  /\ h = s.head /\ h # 0 /\ q = s.buf[h].leaves /\ Len(q) < MaxLeaves
  /\ p \in s.used \ {1} /\ Appended(q, p, w)
  /\ IsRecord(t) /\ t.head = h /\ t.count = s.count + 1 /\ t.pages = s.pages
  /\ Wrote(s.buf, h, s.buf[h].next, w, t.buf) /\ t.chain = s.chain /\ t.used = s.used \ {p}

LEMMA LeafAdded ==
  ASSUME NEW s, NEW h, NEW q, NEW p, NEW w, NEW t, Sound(s), AddsLeaf(s, h, q, p, w, t)
  PROVE  Sound(t) /\ Free(t) = Free(s) \cup {p}
<1>0. /\ h = s.head /\ h # 0 /\ q = s.buf[h].leaves /\ Len(q) < MaxLeaves
      /\ p \in s.used \ {1} /\ Appended(q, p, w)
      /\ IsRecord(t) /\ t.head = h /\ t.count = s.count + 1 /\ t.pages = s.pages
      /\ Wrote(s.buf, h, s.buf[h].next, w, t.buf) /\ t.chain = s.chain /\ t.used = s.used \ {p}
  BY DEF AddsLeaf
<1> USE <1>0
<1>1. /\ s \in Db /\ h \in Trunks(s) /\ h \in Page /\ Trunks(s) \subseteq Page
      /\ s.chain \in Seq(Page) /\ q \in Seq(Page) /\ p \in Page /\ p \notin Free(s)
      /\ IsInjective(q) /\ s.head \in 0 .. MaxPages /\ s.pages \in Page /\ Linked(s) /\ Once(s)
  <2>1. s.chain # << >> /\ s \in Db /\ Linked(s) /\ Once(s)
    BY HeadIsTrunk DEF Sound
  <2>2. h \in Trunks(s) /\ h \in Page
    BY <2>1, HeadIsTrunk
  <2>3. p \in Page /\ p \notin Free(s)
    BY <2>1, DbFields DEF Sound, Accounted
  <2> QED
    BY <2>1, <2>2, <2>3, HeadIsTrunk, DbFields DEF Once
<1>2. p \notin Trunks(s) /\ \A u \in Trunks(s) : p \notin Held(s, u)
  BY <1>1, FreeIs
<1>3. /\ Len(w) = Len(q) + 1 /\ Len(q) \in Nat
      /\ Range(w) = Range(q) \cup {p} /\ IsInjective(w)
  <2>1. p \notin Range(q)
    BY <1>1, <1>2 DEF Held
  <2>2. IsInjective(w)
    BY <1>1, <2>1, AppendRange
  <2>3. Range(w) = Range(q) \cup {p}
    BY <1>1, AppendRange
  <2> QED
    BY <2>2, <2>3 DEF Appended
<1>4. /\ t.buf \in [Page -> TrunkPage] /\ t.buf[h].next = s.buf[h].next
      /\ t.buf[h].leaves = w
      /\ \A k \in Page : k # h => t.buf[k] = s.buf[k]
  BY DEF Wrote
<1>5. /\ Trunks(t) = Trunks(s) /\ Held(t, h) = Held(s, h) \cup {p}
      /\ \A u \in Trunks(s) : u # h => Held(t, u) = Held(s, u)
  BY <1>1, <1>3, <1>4 DEF Trunks, Held
<1>6. Free(t) = Free(s) \cup {p}
  <2>1. \A y : y \in Free(t) <=> y \in Free(s) \cup {p}
    <3> TAKE y
    <3>1. y \in Free(t) <=> y \in Trunks(s) \/ \E u \in Trunks(s) : y \in Held(t, u)
      BY <1>1, <1>5, FreeIs
    <3>2. y \in Free(s) <=> y \in Trunks(s) \/ \E u \in Trunks(s) : y \in Held(s, u)
      BY <1>1, FreeIs
    <3> QED
      BY <1>1, <1>5, <3>1, <3>2
  <2> QED
    BY <2>1
<1>7. Accounted(t) /\ t.count \in 0 .. MaxPages /\ t.used \in SUBSET Page
  BY <1>6, OneMore
<1>8. t \in Db
  BY <1>1, <1>4, <1>7, InDb
<1>9. \A k \in Page : Len(t.buf[k].leaves) <= MaxLeaves
  <2>1. Len(w) <= MaxLeaves
    BY <1>3, Bounds, SMTT(30)
  <2> QED
    BY <1>4, <2>1 DEF Sound
<1>10. Linked(t)
  <2>1. \A k \in Page : t.buf[k].next = s.buf[k].next
    BY <1>4
  <2>2. \A i \in 1 .. Len(s.chain) : s.chain[i] \in Page
    BY <1>1, ElementOfSeq
  <2>3. t.head = IF t.chain = << >> THEN 0 ELSE Top(t.chain)
    BY <1>1 DEF Linked
  <2>4. \A i \in 1 .. Len(s.chain) :
          t.buf[s.chain[i]].next = IF i = 1 THEN 0 ELSE s.chain[i - 1]
    BY <1>1, <2>1, <2>2 DEF Linked
  <2> QED
    BY <2>3, <2>4 DEF Linked
<1>11. Once(t)
  <2>1. \A u \in Trunks(s) : IsInjective(t.buf[u].leaves)
    BY <1>1, <1>3, <1>4 DEF Once
  <2>2. \A u \in Trunks(s) : Held(t, u) \cap Trunks(s) = {}
    <3> TAKE u \in Trunks(s)
    <3>1. Held(s, u) \cap Trunks(s) = {}
      BY <1>1 DEF Once
    <3>2. Held(t, u) \subseteq Held(s, u) \cup {p}
      BY <1>5
    <3> QED
      BY <1>2, <3>1, <3>2
  <2>3. \A u, v \in Trunks(s) : u # v => Held(t, u) \cap Held(t, v) = {}
    <3> TAKE u, v \in Trunks(s)
    <3>1. u # v => Held(s, u) \cap Held(s, v) = {}
      BY <1>1 DEF Once
    <3>2. p \notin Held(s, u) /\ p \notin Held(s, v)
      BY <1>2
    <3>3. CASE u = h
      BY <1>5, <3>1, <3>2, <3>3
    <3>4. CASE v = h
      BY <1>5, <3>1, <3>2, <3>4
    <3>5. CASE u # h /\ v # h
      BY <1>5, <3>1, <3>5
    <3> QED
      BY <3>3, <3>4, <3>5
  <2> QED
    BY <1>1, <1>5, <2>1, <2>2, <2>3 DEF Once
<1> QED
  BY <1>6, <1>7, <1>8, <1>9, <1>10, <1>11 DEF Sound

\* p becomes the new head trunk.
LEMMA TrunkAdded ==
  ASSUME NEW s, Sound(s), NEW p \in s.used \ {1}, NEW w, Appended(s.chain, p, w),
         NEW t, IsRecord(t), t.head = p, t.count = s.count + 1, t.pages = s.pages,
         Wrote(s.buf, p, s.head, << >>, t.buf), t.chain = w, t.used = s.used \ {p}
  PROVE  Sound(t) /\ Free(t) = Free(s) \cup {p}
<1> DEFINE c == s.chain
<1>1. /\ s \in Db /\ Trunks(s) \subseteq Page /\ c \in Seq(Page) /\ p \in Page /\ p \notin Free(s)
      /\ s.pages \in Page /\ Linked(s) /\ Once(s)
  <2>1. s \in Db /\ Linked(s) /\ Once(s)
    BY DEF Sound
  <2>2. p \in Page /\ p \notin Free(s)
    BY <2>1, DbFields DEF Sound, Accounted
  <2> QED
    BY <2>1, <2>2, HeadIsTrunk, DbFields
<1>2. p \notin Trunks(s) /\ \A u \in Trunks(s) : p \notin Held(s, u)
  BY <1>1, FreeIs
<1>3. /\ w \in Seq(Page) /\ Len(w) = Len(c) + 1 /\ Len(c) \in Nat
      /\ Range(w) = Range(c) \cup {p} /\ IsInjective(w)
      /\ \A i \in 1 .. Len(c) : w[i] = c[i]
      /\ w[Len(c) + 1] = p
  <2>1. p \notin Range(c) /\ IsInjective(c)
    BY <1>1, <1>2 DEF Trunks, Once
  <2>2. IsInjective(w)
    BY <1>1, <2>1, AppendRange
  <2>3. Range(w) = Range(c) \cup {p}
    BY <1>1, AppendRange
  <2> QED
    BY <2>2, <2>3 DEF Appended
<1>4. /\ t.buf \in [Page -> TrunkPage] /\ t.buf[p].next = s.head /\ t.buf[p].leaves = << >>
      /\ \A k \in Page : k # p => t.buf[k] = s.buf[k]
  BY DEF Wrote
<1>5. /\ Trunks(t) = Trunks(s) \cup {p} /\ Held(t, p) = {}
      /\ \A u \in Trunks(s) : u # p /\ t.buf[u] = s.buf[u] /\ Held(t, u) = Held(s, u)
  <2>1. Trunks(t) = Trunks(s) \cup {p}
    BY <1>3 DEF Trunks
  <2>2. Held(t, p) = {}
    BY <1>4, SMTT(30) DEF Held, Range
  <2> QED
    BY <1>1, <1>2, <1>4, <2>1, <2>2 DEF Held
<1>6. Free(t) = Free(s) \cup {p}
  <2>1. \A y : y \in Free(t) <=> y \in Free(s) \cup {p}
    <3> TAKE y
    <3>1. y \in Free(t) <=> y \in Trunks(t) \/ \E u \in Trunks(t) : y \in Held(t, u)
      BY <1>3, FreeIs
    <3>2. y \in Free(s) <=> y \in Trunks(s) \/ \E u \in Trunks(s) : y \in Held(s, u)
      BY <1>1, FreeIs
    <3> QED
      BY <1>5, <3>1, <3>2
  <2> QED
    BY <2>1
<1>7. Accounted(t) /\ t.count \in 0 .. MaxPages /\ t.used \in SUBSET Page
  BY <1>6, OneMore
<1>8. t \in Db
  <2>1. p \in 0 .. MaxPages
    BY <1>1, Bounds, SMTT(30) DEF Page
  <2> QED
    BY <1>1, <1>3, <1>4, <1>7, <2>1, InDb
<1>9. \A k \in Page : Len(t.buf[k].leaves) <= MaxLeaves
  <2>1. Len(<< >>) <= MaxLeaves
    BY Bounds, SMTT(30)
  <2> QED
    BY <1>4, <2>1 DEF Sound
<1>10. Linked(t)
  <2>1. \A n \in Nat : \A i \in 1 .. n + 1 :
          /\ n + 1 # 0 /\ (i \in 1 .. n \/ i = n + 1) /\ (i \in 1 .. n /\ i # 1 => i - 1 \in 1 .. n)
          /\ (i = n + 1 => (i = 1 <=> n = 0) /\ i - 1 = n)
          /\ (n # 0 => n \in 1 .. n)
    BY SMTT(30)
  <2>2. \A i \in 1 .. Len(c) : c[i] \in Trunks(s)
    BY <1>1, LenProperties DEF Trunks, Range
  <2>3. w # << >> /\ Top(w) = p
    <3>1. Len(w) # 0
      <4>1. \A n \in Nat : n + 1 # 0
        BY SMTT(30)
      <4> QED
        BY <1>3, <4>1
    <3> QED
      BY <1>3, <3>1, EmptySeq DEF Top
  <2>4. s.head = IF Len(c) = 0 THEN 0 ELSE c[Len(c)]
    BY <1>1, EmptySeq DEF Linked, Top
  <2>5. ASSUME NEW i \in 1 .. Len(c) + 1
        PROVE  t.buf[w[i]].next = IF i = 1 THEN 0 ELSE w[i - 1]
    <3>1. CASE i \in 1 .. Len(c)
      <4>1. t.buf[c[i]].next = IF i = 1 THEN 0 ELSE c[i - 1]
        BY <1>1, <1>5, <2>2, <3>1 DEF Linked
      <4>2. i # 1 => i - 1 \in 1 .. Len(c)
        BY <1>3, <2>1, <3>1
      <4> QED
        BY <1>3, <3>1, <4>1, <4>2
    <3>2. CASE i = Len(c) + 1
      <4>1. (i = 1 <=> Len(c) = 0) /\ i - 1 = Len(c) /\ (Len(c) # 0 => Len(c) \in 1 .. Len(c))
        BY <1>3, <2>1, <3>2
      <4>2. t.buf[w[i]].next = s.head
        BY <1>3, <1>4, <3>2
      <4>3. Len(c) # 0 => w[i - 1] = c[Len(c)]
        BY <1>3, <4>1
      <4> QED
        BY <2>4, <4>1, <4>2, <4>3
    <3> QED
      BY <1>3, <2>1, <3>1, <3>2
  <2> QED
    BY <1>3, <2>3, <2>5 DEF Linked
<1>11. Once(t)
  <2>0. IsInjective(<< >>)
    BY SMTT(30) DEF IsInjective
  <2>1. \A u \in Trunks(t) : IsInjective(t.buf[u].leaves)
    BY <1>1, <1>4, <1>5, <2>0 DEF Once
  <2>2. \A u \in Trunks(t) : Held(t, u) \cap Trunks(t) = {}
    <3> TAKE u \in Trunks(t)
    <3>1. CASE u = p
      BY <1>5, <3>1
    <3>2. CASE u \in Trunks(s)
      <4>1. Held(s, u) \cap Trunks(s) = {} /\ p \notin Held(s, u)
        BY <1>1, <1>2, <3>2 DEF Once
      <4> QED
        BY <1>5, <3>2, <4>1
    <3> QED
      BY <1>5, <3>1, <3>2
  <2>3. ASSUME NEW u \in Trunks(t), NEW v \in Trunks(t), u # v PROVE Held(t, u) \cap Held(t, v) = {}
    <3>1. CASE u = p \/ v = p
      BY <1>5, <3>1
    <3>2. CASE u \in Trunks(s) /\ v \in Trunks(s)
      <4>1. Held(s, u) \cap Held(s, v) = {}
        BY <1>1, <2>3, <3>2 DEF Once
      <4> QED
        BY <1>5, <3>2, <4>1
    <3> QED
      BY <1>5, <3>1, <3>2
  <2> QED
    BY <1>3, <2>1, <2>2, <2>3 DEF Once
<1> QED
  BY <1>6, <1>7, <1>8, <1>9, <1>10, <1>11 DEF Sound

\* A new last page.
LEMMA PageAdded ==
  ASSUME NEW s, Sound(s), s.head = 0, s.pages < MaxPages,
         NEW t, IsRecord(t), t.head = s.head, t.count = s.count, t.pages = s.pages + 1,
         t.buf = s.buf, t.chain = s.chain, t.used = s.used \cup {s.pages + 1}
  PROVE  /\ Sound(t) /\ Free(t) = {} /\ Free(s) = {}
         /\ s.used = 1 .. s.pages /\ s.pages + 1 \in 1 .. MaxPages
<1>1. s \in Db /\ s.chain = << >> /\ Free(s) = {}
  BY HeadIsTrunk DEF Sound
<1>2. /\ s.head \in 0 .. MaxPages /\ s.count \in 0 .. MaxPages /\ s.pages \in Page
      /\ s.buf \in [Page -> TrunkPage] /\ s.chain \in Seq(Page) /\ s.used \in SUBSET Page
  BY <1>1, DbFields
<1>3. /\ Trunks(t) = Trunks(s) /\ (\A u : Held(t, u) = Held(s, u)) /\ Free(t) = Free(s)
  <2>1. Trunks(t) = Trunks(s) /\ \A u : Held(t, u) = Held(s, u)
    BY DEF Trunks, Held
  <2>2. \A y : y \in Free(t) <=> y \in Trunks(s) \/ \E u \in Trunks(s) : y \in Held(s, u)
    BY <1>2, <2>1, FreeIs
  <2>3. \A y : y \in Free(s) <=> y \in Trunks(s) \/ \E u \in Trunks(s) : y \in Held(s, u)
    BY <1>2, FreeIs
  <2> QED
    BY <2>1, <2>2, <2>3
<1>4. /\ s.pages + 1 \in Page /\ 1 .. s.pages + 1 = (1 .. s.pages) \cup {s.pages + 1}
  BY <1>2, Bounds, SMTT(30) DEF Page
<1>5. s.used = 1 .. s.pages
  BY <1>1 DEF Sound, Accounted
<1>6. Accounted(t)
  BY <1>1, <1>3, <1>4, <1>5 DEF Sound, Accounted
<1>7. t \in Db
  BY <1>2, <1>4, InDb
<1>8. Linked(t) /\ Once(t)
  BY <1>3 DEF Sound, Linked, Once
<1> QED
  BY <1>1, <1>3, <1>4, <1>5, <1>6, <1>7, <1>8 DEF Sound, Page

-----------------------------------------------------------------------------
(* The operations write those records.                                     *)

LEMMA LeavesWritten ==
  ASSUME NEW f \in [Page -> TrunkPage], NEW h \in Page, NEW l \in Seq(Page)
  PROVE  Wrote(f, h, f[h].next, l, [f EXCEPT ![h].leaves = l])
<1>1. f[h] \in TrunkPage /\ f[h].next \in 0 .. MaxPages
  BY DEF TrunkPage
<1>2. [f[h] EXCEPT !.leaves = l] = [next |-> f[h].next, leaves |-> l]
  <2>1. \A r \in TrunkPage : [r EXCEPT !.leaves = l] = [next |-> r.next, leaves |-> l]
    BY SMTT(30) DEF TrunkPage
  <2> QED
    BY <1>1, <2>1
<1>3. [f EXCEPT ![h].leaves = l] = [f EXCEPT ![h] = [next |-> f[h].next, leaves |-> l]]
  BY <1>2
<1> QED
  BY <1>1, <1>3, TrunkWritten

LEMMA TrunkCleared ==
  ASSUME NEW f \in [Page -> TrunkPage], NEW h \in Page, NEW n \in 0 .. MaxPages
  PROVE  Wrote(f, h, n, << >>, [f EXCEPT ![h] = NoLeaves(n)])
<1>1. << >> \in Seq(Page)
  BY EmptySeq
<1> QED
  BY <1>1, TrunkWritten DEF NoLeaves

LEMMA ExtendSound ==
  ASSUME Sound(db), Extend
  PROVE  /\ Sound(db') /\ saved' = saved /\ Free(db') = {} /\ Free(db) = {}
         /\ db.pages + 1 \in 1 .. MaxPages /\ db.used = 1 .. db.pages
         /\ db'.used = db.used \cup {db.pages + 1}
<1>1. db \in Db /\ db.head = 0 /\ db.pages < MaxPages /\ saved' = saved
  BY DEF Sound, Extend
<1>2. db' = Record(db.head, db.count, db.pages + 1, db.buf, db.chain, db.used \cup {db.pages + 1})
  BY <1>1 DEF Extend, Db, Record
<1>3. /\ IsRecord(db') /\ db'.head = db.head /\ db'.count = db.count /\ db'.pages = db.pages + 1
      /\ db'.buf = db.buf /\ db'.chain = db.chain /\ db'.used = db.used \cup {db.pages + 1}
  BY <1>2, Built, SMTT(30)
<1>4. /\ Sound(db') /\ Free(db') = {} /\ Free(db) = {} /\ db.used = 1 .. db.pages
      /\ db.pages + 1 \in 1 .. MaxPages
  BY <1>1, <1>3, PageAdded
<1> QED
  BY <1>1, <1>3, <1>4

LEMMA TakeLeafSound ==
  ASSUME Sound(db), TakeLeaf
  PROVE  /\ Sound(db') /\ saved' = saved
         /\ \E x \in Free(db) : Free(db') = Free(db) \ {x} /\ db'.used = db.used \cup {x}
<1> DEFINE h == db.head
           q == db.buf[h].leaves
           x == Top(q)
           b == [db.buf EXCEPT ![h].leaves = Pop(q)]
<1>1. db \in Db /\ h # 0 /\ q # << >> /\ saved' = saved
  BY DEF Sound, TakeLeaf, Trunk
<1>2. h \in Page /\ db.buf \in [Page -> TrunkPage] /\ q \in Seq(Page)
  <2>1. h \in Page
    BY <1>1, HeadIsTrunk
  <2> QED
    BY <1>1, <2>1, DbFields
<1>3. Pop(q) \in Seq(Page)
  BY <1>1, <1>2, PopFacts
<1>4. db' = Record(h, db.count - 1, db.pages, b, db.chain, db.used \cup {x})
  BY <1>1 DEF TakeLeaf, Trunk, Db, Record
<1>5. Wrote(db.buf, h, db.buf[h].next, Pop(q), b)
  BY <1>2, <1>3, LeavesWritten
<1> HIDE DEF b
<1>6. /\ IsRecord(db') /\ db'.head = h /\ db'.count = db.count - 1 /\ db'.pages = db.pages
      /\ db'.buf = b /\ db'.chain = db.chain /\ db'.used = db.used \cup {x}
  BY <1>4, Built, SMTT(30)
<1>7. Sound(db') /\ Free(db') = Free(db) \ {x} /\ x \in Free(db)
  BY <1>1, <1>5, <1>6, LeafTaken
<1> QED
  BY <1>1, <1>6, <1>7

LEMMA TakeTrunkSound ==
  ASSUME Sound(db), TakeTrunk
  PROVE  /\ Sound(db') /\ saved' = saved
         /\ \E x \in Free(db) : Free(db') = Free(db) \ {x} /\ db'.used = db.used \cup {x}
<1> DEFINE h == db.head
           b == [db.buf EXCEPT ![h] = NoLeaves(0)]
<1>1. db \in Db /\ h # 0 /\ db.buf[h].leaves = << >> /\ saved' = saved
  BY DEF Sound, TakeTrunk, Trunk
<1>2. h \in Page /\ db.buf \in [Page -> TrunkPage]
  <2>1. h \in Page
    BY <1>1, HeadIsTrunk
  <2> QED
    BY <1>1, <2>1, DbFields
<1>3. 0 \in 0 .. MaxPages
  BY Bounds, SMTT(30)
<1>4. db' = Record(db.buf[h].next, db.count - 1, db.pages, b, Pop(db.chain), db.used \cup {h})
  BY <1>1 DEF TakeTrunk, Trunk, Db, Record
<1>5. Wrote(db.buf, h, 0, << >>, b)
  BY <1>2, <1>3, TrunkCleared
<1> HIDE DEF b
<1>6. /\ IsRecord(db') /\ db'.head = db.buf[h].next /\ db'.count = db.count - 1
      /\ db'.pages = db.pages /\ db'.buf = b /\ db'.chain = Pop(db.chain)
      /\ db'.used = db.used \cup {h}
  BY <1>4, Built, SMTT(30)
<1>7. Sound(db') /\ Free(db') = Free(db) \ {h} /\ h \in Free(db)
  BY <1>1, <1>5, <1>6, TrunkTaken
<1> QED
  BY <1>1, <1>6, <1>7

LEMMA AddLeafSound ==
  ASSUME ~ DoubleFree, Sound(db), NEW p \in Page, AddLeaf(p)
  PROVE  /\ Sound(db') /\ saved' = saved /\ p \in db.used \ {1}
         /\ Free(db') = Free(db) \cup {p} /\ db'.used = db.used \ {p}
<1> DEFINE h == db.head
           q == db.buf[h].leaves
<1>1. db \in Db /\ h # 0 /\ ~ (Len(q) >= MaxLeaves) /\ saved' = saved /\ p \in db.used \ {1}
  BY DEF Sound, AddLeaf, Freed, Full, Trunk
<1>2. h \in Page /\ db.buf \in [Page -> TrunkPage] /\ q \in Seq(Page)
  <2>1. h \in Page
    BY <1>1, HeadIsTrunk
  <2> QED
    BY <1>1, <2>1, DbFields
<1>0. PICK w : w = Append(q, p)
  OBVIOUS
<1> DEFINE b == [db.buf EXCEPT ![h].leaves = w]
<1>3. Appended(q, p, w) /\ w \in Seq(Page) /\ Len(q) < MaxLeaves
  <2>1. Appended(q, p, w)
    BY <1>0, <1>2, AppendIs
  <2>2. Len(q) \in Nat /\ w \in Seq(Page)
    BY <2>1 DEF Appended
  <2>3. Len(q) < MaxLeaves
    BY <1>1, <2>2, Bounds, SMTT(30)
  <2> QED
    BY <2>1, <2>2, <2>3
<1>4. db' = Record(h, db.count + 1, db.pages, b, db.chain, db.used \ {p})
  BY <1>0, <1>1 DEF AddLeaf, Db, Record
<1>5. Wrote(db.buf, h, db.buf[h].next, w, b)
  BY <1>2, <1>3, LeavesWritten
<1> HIDE DEF b
<1>6. /\ IsRecord(db') /\ db'.head = h /\ db'.count = db.count + 1 /\ db'.pages = db.pages
      /\ db'.buf = b /\ db'.chain = db.chain /\ db'.used = db.used \ {p}
  BY <1>4, Built, SMTT(30)
<1>7. AddsLeaf(db, h, q, p, w, db')
  BY <1>1, <1>3, <1>5, <1>6 DEF AddsLeaf
<1>8. Sound(db') /\ Free(db') = Free(db) \cup {p}
  BY <1>7, LeafAdded, SMTT(30)
<1> QED
  BY <1>1, <1>6, <1>8

LEMMA AddTrunkSound ==
  ASSUME ~ DoubleFree, Sound(db), NEW p \in Page, AddTrunk(p)
  PROVE  /\ Sound(db') /\ saved' = saved /\ p \in db.used \ {1}
         /\ Free(db') = Free(db) \cup {p} /\ db'.used = db.used \ {p}
<1> DEFINE w == Append(db.chain, p)
           b == [db.buf EXCEPT ![p] = NoLeaves(db.head)]
<1>1. db \in Db /\ saved' = saved /\ p \in db.used \ {1}
  BY DEF Sound, AddTrunk, Freed
<1>2. db.buf \in [Page -> TrunkPage] /\ db.chain \in Seq(Page) /\ db.head \in 0 .. MaxPages
  BY <1>1, DbFields
<1>3. Appended(db.chain, p, w)
  BY <1>2, AppendIs
<1>4. db' = Record(p, db.count + 1, db.pages, b, w, db.used \ {p})
  BY <1>1 DEF AddTrunk, Db, Record
<1>5. Wrote(db.buf, p, db.head, << >>, b)
  BY <1>2, TrunkCleared
<1> HIDE DEF w, b
<1>6. /\ IsRecord(db') /\ db'.head = p /\ db'.count = db.count + 1 /\ db'.pages = db.pages
      /\ db'.buf = b /\ db'.chain = w /\ db'.used = db.used \ {p}
  BY <1>4, Built, SMTT(30)
<1>7. Sound(db') /\ Free(db') = Free(db) \cup {p}
  BY <1>1, <1>3, <1>5, <1>6, TrunkAdded
<1> QED
  BY <1>1, <1>6, <1>7

-----------------------------------------------------------------------------
(* The theorems.                                                           *)

SoundInv == Sound(db) /\ Sound(saved)

LEMMA SoundInit == ASSUME Init PROVE SoundInv /\ Free(db) = {} /\ db.used = {1}
<1> DEFINE b == [p \in Page |-> NoLeaves(0)]
<1>1. db = Record(0, 0, 1, b, << >>, {1}) /\ saved = db
  BY DEF Init, Empty, Record
<1>2. /\ 0 \in 0 .. MaxPages /\ 1 \in Page /\ 1 .. 1 = {1} /\ Len(<< >>) <= MaxLeaves
      /\ Len(<< >>) = 0 /\ 1 .. 0 = {} /\ Range(<< >>) = {} /\ IsInjective(<< >>)
  BY Bounds, SMTT(30) DEF Page, Range, IsInjective
<1>3. << >> \in Seq(Page)
  BY EmptySeq
<1>4. NoLeaves(0) \in TrunkPage /\ NoLeaves(0).leaves = << >>
  BY <1>2, <1>3 DEF NoLeaves, TrunkPage
<1>5. b \in [Page -> TrunkPage] /\ \A p \in Page : b[p].leaves = << >>
  BY <1>4
<1> HIDE DEF b
<1>6. /\ IsRecord(db) /\ db.head = 0 /\ db.count = 0 /\ db.pages = 1
      /\ db.buf = b /\ db.chain = << >> /\ db.used = {1}
  BY <1>1, Built, SMTT(30)
<1>7. db \in Db
  BY <1>2, <1>3, <1>5, <1>6, InDb
<1>8. Trunks(db) = {}
  BY <1>2, <1>6 DEF Trunks
<1>9. Free(db) = {}
  BY <1>3, <1>6, <1>8, FreeIs
<1>10. Linked(db) /\ Once(db)
  BY <1>2, <1>6, <1>8 DEF Linked, Once
<1>11. Accounted(db)
  BY <1>2, <1>6, <1>9, FS_EmptySet DEF Accounted
<1> QED
  BY <1>1, <1>2, <1>5, <1>6, <1>7, <1>9, <1>10, <1>11 DEF SoundInv, Sound

LEMMA SoundStep == ASSUME ~ DoubleFree, SoundInv, [Next]_vars PROVE SoundInv'
<1>1. CASE Extend
  BY <1>1, ExtendSound DEF SoundInv
<1>2. CASE TakeLeaf
  BY <1>2, TakeLeafSound DEF SoundInv
<1>3. CASE TakeTrunk
  BY <1>3, TakeTrunkSound DEF SoundInv
<1>4. ASSUME NEW p \in Page, AddLeaf(p) PROVE SoundInv'
  BY <1>4, AddLeafSound DEF SoundInv
<1>5. ASSUME NEW p \in Page, AddTrunk(p) PROVE SoundInv'
  BY <1>5, AddTrunkSound DEF SoundInv
<1>6. CASE flush \/ rollback \/ UNCHANGED vars
  BY <1>6 DEF SoundInv, flush, rollback, vars
<1> QED
  BY <1>1, <1>2, <1>3, <1>4, <1>5, <1>6 DEF Next

LEMMA SoundAlways == ASSUME ~ DoubleFree PROVE Spec => []SoundInv
<1>1. Init => SoundInv
  BY SoundInit
<1>2. SoundInv /\ [Next]_vars => SoundInv'
  BY SoundStep
<1> QED
  BY <1>1, <1>2, PTL DEF Spec

\* No trunk overflows its page and the fields of page 1 stay in range, whatever
\* the sequence of allocate_page, deallocate_page, COMMIT and ROLLBACK.
THEOREM FreelistTypes == ASSUME ~ DoubleFree PROVE Spec => []TypeOK
<1>1. SoundInv => TypeOK
  BY DEF SoundInv, Sound, Db, TypeOK
<1> QED
  BY <1>1, SoundAlways, PTL

\* deallocate_page and allocate_page keep freelist_page_count the number of pages
\* on the trunks, and leak no page: each is in use or free, of every database
\* whose callers free no page twice.
THEOREM NoPageLeaks == ASSUME ~ DoubleFree PROVE Spec => []NothingLeaks
<1>1. SoundInv => NothingLeaks
  BY DEF SoundInv, Sound, Accounted, NothingLeaks
<1> QED
  BY <1>1, SoundAlways, PTL

LEMMA AllocatorStep ==
  ASSUME ~ DoubleFree, SoundInv, [Next]_vars
  PROVE  [Allocator!AllocNext]_<<Free(db), db.used, <<Free(saved), saved.used>>>>
<1> DEFINE kept == <<Free(saved), saved.used>>
<1>0. ASSUME saved' = saved PROVE kept' = kept
  BY <1>0
<1>1. CASE Extend
  <2>1. /\ saved' = saved /\ Free(db') = {} /\ Free(db) = {}
        /\ db.pages + 1 \in 1 .. MaxPages /\ db.used = 1 .. db.pages
        /\ db'.used = db.used \cup {db.pages + 1}
    BY <1>1, ExtendSound DEF SoundInv
  <2>2. Allocator!Grow
    <3>0. db.pages \in Nat /\ (db.pages + 1) - 1 = db.pages
      <4>1. db.pages \in Page
        BY DbFields DEF SoundInv, Sound
      <4> QED
        BY <4>1, Bounds, SMTT(30) DEF Page
    <3>1. kept' = kept /\ Free(db)' = Free(db) /\ Free(db) = {}
      BY <1>0, <2>1
    <3>2. db.used = 1 .. (db.pages + 1) - 1
      BY <2>1, <3>0
    <3> QED
      BY <2>1, <3>1, <3>2 DEF Allocator!Grow
  <2> QED
    BY <2>2 DEF Allocator!AllocNext
<1>2. ASSUME saved' = saved, NEW x \in Free(db), Free(db') = Free(db) \ {x}, db'.used = db.used \cup {x}
      PROVE  Allocator!AllocNext
  <2>1. Allocator!Reuse
    BY <1>0, <1>2 DEF Allocator!Reuse
  <2> QED
    BY <2>1 DEF Allocator!AllocNext
<1>3. CASE TakeLeaf
  BY <1>2, <1>3, TakeLeafSound DEF SoundInv
<1>4. CASE TakeTrunk
  BY <1>2, <1>4, TakeTrunkSound DEF SoundInv
<1>5. ASSUME NEW p \in Page, AddLeaf(p) \/ AddTrunk(p) PROVE Allocator!AllocNext
  <2>1. /\ saved' = saved /\ p \in db.used \ {1}
        /\ Free(db') = Free(db) \cup {p} /\ db'.used = db.used \ {p}
    BY <1>5, AddLeafSound, AddTrunkSound DEF SoundInv
  <2>2. Allocator!Release
    BY <1>0, <2>1 DEF Allocator!Release
  <2> QED
    BY <2>2 DEF Allocator!AllocNext
<1>6. CASE flush
  <2>1. Allocator!Keep
    BY <1>6 DEF flush, Allocator!Keep
  <2> QED
    BY <2>1 DEF Allocator!AllocNext
<1>7. CASE rollback
  <2>1. Allocator!Undo
    BY <1>7 DEF rollback, Allocator!Undo
  <2> QED
    BY <2>1 DEF Allocator!AllocNext
<1>8. CASE UNCHANGED vars
  BY <1>8 DEF vars
<1> QED
  BY <1>1, <1>3, <1>4, <1>5, <1>6, <1>7, <1>8 DEF Next

\* The trunk chain implements the allocator: a page handed out by allocate_page
\* was free and is on no trunk afterwards, the file grows only when nothing is
\* free, and ROLLBACK gives back both sides as they were committed.
THEOREM FreelistAllocates == ASSUME ~ DoubleFree PROVE Spec => AllocatesPages
<1>1. Init => Allocator!AllocInit
  <2> SUFFICES ASSUME Init PROVE Allocator!AllocInit
    OBVIOUS
  <2>1. Free(db) = {} /\ db.used = {1} /\ saved = db
    BY SoundInit DEF Init
  <2> QED
    BY <2>1 DEF Allocator!AllocInit
<1>2. SoundInv /\ [Next]_vars => [Allocator!AllocNext]_<<Free(db), db.used, <<Free(saved), saved.used>>>>
  BY AllocatorStep
<1> QED
  BY <1>1, <1>2, SoundAlways, PTL DEF Spec, AllocatesPages, Allocator!AllocSpec

-----------------------------------------------------------------------------
(* Recursion.  tlapm cannot instantiate the induction theorems of its      *)
(* library, so both recursions of check_freelist, the walk along the next  *)
(* pointers and the sum of what it counts, are computed from a closed form *)
(* that satisfies the same equation and from a least counterexample.       *)

LEMMA Least ==
  ASSUME NEW S \in SUBSET Nat, S # {}
  PROVE  \E m \in S : \A i \in S : ~ (i < m)
<1>1. PICK m \in S : \A i \in S : ~ (<<i, m>> \in OpToRel(<, Nat))
  BY NatLessThanWellFounded, WFMin
<1> QED
  BY <1>1 DEF OpToRel

\* f and g begin alike, and go on alike from wherever they are alike.
InStep(f, g, N) ==
  f[0] = g[0] /\ \A n \in 1 .. N : f[n - 1] = g[n - 1] => f[n] = g[n]

LEMMA Stepwise ==
  ASSUME NEW N \in Nat, NEW f, NEW g, InStep(f, g, N)
  PROVE  \A n \in 0 .. N : f[n] = g[n]
<1>0. f[0] = g[0] /\ \A n \in 1 .. N : f[n - 1] = g[n - 1] => f[n] = g[n]
  BY DEF InStep
<1> DEFINE S == {n \in 0 .. N : f[n] # g[n]}
<1>1. S \in SUBSET Nat
  <2>1. \A n \in 0 .. N : n \in Nat
    BY SMTT(30)
  <2> QED
    BY <2>1
<1>2. ASSUME S # {} PROVE FALSE
  <2>1. PICK m \in S : \A i \in S : ~ (i < m)
    <3> HIDE DEF S
    <3> QED
      BY <1>1, <1>2, Least
  <2>2. m \in 0 .. N /\ f[m] # g[m] /\ m # 0
    BY <1>0, <2>1
  <2>3. m \in 1 .. N /\ m - 1 \in 0 .. N /\ m - 1 < m
    BY <2>2, SMTT(30)
  <2>4. f[m - 1] = g[m - 1]
    BY <2>1, <2>3
  <2> QED
    BY <1>0, <2>2, <2>3, <2>4
<1> QED
  BY <1>2

\* The sum of f, from a function c that satisfies the equation of the fold.
LEMMA SumIs ==
  ASSUME NEW f, NEW c, IsFiniteSet(DOMAIN f),
         c = [s \in SUBSET (DOMAIN f) |->
                IF s = {} THEN 0
                ELSE f[CHOOSE x \in s : TRUE] + c[s \ {CHOOSE x \in s : TRUE}]]
  PROVE  SumFunction(f) = c[DOMAIN f]
<1> DEFINE D == DOMAIN f
           Any(s) == CHOOSE x \in s : TRUE
<1>1. PICK iter : /\ iter = [s \in SUBSET D |-> IF s = {} THEN 0 ELSE f[Any(s)] + iter[s \ {Any(s)}]]
                  /\ SumFunction(f) = iter[D]
  BY DEF SumFunction, SumFunctionOnSet, FoldFunctionOnSet, MapThenFoldSet
<1>2. \A s \in SUBSET D : iter[s] = IF s = {} THEN 0 ELSE f[Any(s)] + iter[s \ {Any(s)}]
  BY <1>1
<1>3. \A s \in SUBSET D : c[s] = IF s = {} THEN 0 ELSE f[Any(s)] + c[s \ {Any(s)}]
  OBVIOUS
<1>4. \A s : s # {} => Any(s) \in s
  OBVIOUS
<1> HIDE DEF Any
<1> DEFINE Bad == {s \in SUBSET D : iter[s] # c[s]}
<1>5. ASSUME Bad # {} PROVE FALSE
  <2>1. IsWellFoundedOn(StrictSubsetOrdering(D), SUBSET D)
    BY FS_StrictSubsetOrderingWellFounded, FS_FiniteSubsetsOfFinite
  <2>2. Bad \subseteq SUBSET D
    OBVIOUS
  <2>3. PICK s \in Bad : \A r \in Bad : ~ (<<r, s>> \in StrictSubsetOrdering(D))
    <3> HIDE DEF Bad
    <3> QED
      BY <1>5, <2>1, <2>2, WFMin
  <2>4. s \in SUBSET D /\ iter[s] # c[s] /\ s # {}
    BY <1>2, <1>3, <2>3
  <2>5. Any(s) \in s /\ s \ {Any(s)} \in SUBSET D /\ s \ {Any(s)} # s
    BY <1>4, <2>4
  <2>6. <<s \ {Any(s)}, s>> \in StrictSubsetOrdering(D)
    BY <2>4, <2>5 DEF StrictSubsetOrdering
  <2>7. iter[s \ {Any(s)}] = c[s \ {Any(s)}]
    BY <2>3, <2>5, <2>6
  <2> QED
    BY <1>2, <1>3, <2>4, <2>7
<1>6. iter[D] = c[D]
  BY <1>5
<1> QED
  BY <1>1, <1>6

-----------------------------------------------------------------------------
(* The walk of check_freelist.                                             *)

LEMMA ChainLength ==
  ASSUME NEW s, Sound(s) PROVE Len(s.chain) \in 0 .. MaxPages /\ DOMAIN s.chain = 1 .. Len(s.chain)
<1> DEFINE n == Len(s.chain)
<1>1. s.chain \in Seq(Page) /\ IsInjective(s.chain)
  BY DbFields DEF Sound, Once
<1>2. n \in Nat /\ DOMAIN s.chain = 1 .. n /\ s.chain \in [1 .. n -> Page]
  BY <1>1, LenProperties
<1>3. s.chain \in Injection(1 .. n, Page)
  BY <1>1, <1>2 DEF Injection
<1>4. 1 \in Int /\ n \in Int /\ MaxPages \in Int
  BY <1>2, Bounds, SMTT(30)
<1>5. IsFiniteSet(Page) /\ Cardinality(Page) = (IF 1 > MaxPages THEN 0 ELSE MaxPages - 1 + 1)
  BY <1>4, FS_Interval DEF Page
<1>6. Cardinality(1 .. n) = (IF 1 > n THEN 0 ELSE n - 1 + 1)
  BY <1>4, FS_Interval
<1>7. Cardinality(1 .. n) <= Cardinality(Page)
  BY <1>3, <1>5, FS_Injection
<1>8. n \in 0 .. MaxPages
  BY <1>2, <1>5, <1>6, <1>7, Bounds, SMTT(30)
<1> QED
  BY <1>2, <1>8

\* The trunk after n hops, in closed form.
Walk == [n \in 0 .. MaxPages |-> IF n < Len(db.chain) THEN db.chain[Len(db.chain) - n] ELSE 0]

\* The equation that Hop is defined by.
Hops(g) == g = [n \in 0 .. MaxPages |->
                  IF n = 0 THEN db.head ELSE IF g[n - 1] = 0 THEN 0 ELSE db.buf[g[n - 1]].next]

LEMMA HopUnfolds == ASSUME NEW g, Hops(g) PROVE Hops(Hop)
  BY DEF Hop, Hops

LEMMA HopIsWalk == ASSUME Sound(db) PROVE Hop = Walk
<1> DEFINE L == Len(db.chain)
           Then(t) == IF t = 0 THEN 0 ELSE db.buf[t].next
<1>1. L \in 0 .. MaxPages /\ L \in Nat /\ db.chain \in Seq(Page) /\ Linked(db)
  <2>1. L \in 0 .. MaxPages /\ db.chain \in Seq(Page) /\ Linked(db)
    BY ChainLength, DbFields DEF Sound
  <2> QED
    BY <2>1, LenProperties
<1>2. \A i \in 1 .. L : db.chain[i] # 0
  <2>1. \A i \in 1 .. L : db.chain[i] \in Page
    BY <1>1, ElementOfSeq
  <2> QED
    BY <2>1, Bounds, SMTT(30) DEF Page
<1>3. \A n \in 0 .. MaxPages : Walk[n] = IF n < L THEN db.chain[L - n] ELSE 0
  BY DEF Walk
<1>4. 0 \in 0 .. MaxPages /\ Walk[0] = db.head
  <2>1. 0 \in 0 .. MaxPages /\ (0 < L <=> L # 0) /\ L - 0 = L
    BY <1>1, Bounds, SMTT(30)
  <2>2. db.head = IF L = 0 THEN 0 ELSE db.chain[L]
    BY <1>1, EmptySeq DEF Linked, Top
  <2> QED
    BY <1>3, <2>1, <2>2
<1>5. \A n \in 1 .. MaxPages : Walk[n] = Then(Walk[n - 1])
  <2> TAKE n \in 1 .. MaxPages
  <2>1. n \in 0 .. MaxPages /\ n - 1 \in 0 .. MaxPages
    BY Bounds, SMTT(30)
  <2>2. CASE n - 1 < L
    <3>1. L - (n - 1) \in 1 .. L /\ (L - (n - 1) = 1 <=> ~ (n < L)) /\ (L - (n - 1)) - 1 = L - n
      BY <1>1, <2>1, <2>2, Bounds, SMTT(30)
    <3>2. Walk[n - 1] = db.chain[L - (n - 1)] /\ Walk[n - 1] # 0
      BY <1>2, <1>3, <2>1, <2>2, <3>1
    <3>3. db.buf[db.chain[L - (n - 1)]].next = IF L - (n - 1) = 1 THEN 0 ELSE db.chain[(L - (n - 1)) - 1]
      BY <1>1, <3>1 DEF Linked
    <3>4. db.buf[Walk[n - 1]].next = IF n < L THEN db.chain[L - n] ELSE 0
      BY <3>1, <3>2, <3>3
    <3> QED
      BY <1>3, <2>1, <3>2, <3>4
  <2>3. CASE ~ (n - 1 < L)
    <3>1. ~ (n < L)
      BY <1>1, <2>1, <2>3, Bounds, SMTT(30)
    <3> QED
      BY <1>3, <2>1, <2>3, <3>1
  <2> QED
    BY <2>2, <2>3
<1>6. \A n \in 0 .. MaxPages : n # 0 => n \in 1 .. MaxPages
  BY Bounds, SMTT(30)
<1>7. Hops(Walk)
  <2>1. \A n \in 0 .. MaxPages :
          Walk[n] = IF n = 0 THEN db.head ELSE IF Walk[n - 1] = 0 THEN 0 ELSE db.buf[Walk[n - 1]].next
    BY <1>4, <1>5, <1>6
  <2>2. Walk = [n \in 0 .. MaxPages |-> Walk[n]]
    BY DEF Walk
  <2> HIDE DEF Then
  <2> QED
    BY <2>1, <2>2 DEF Hops
<1>8. Hop = [n \in 0 .. MaxPages |->
                  IF n = 0 THEN db.head ELSE IF Hop[n - 1] = 0 THEN 0 ELSE db.buf[Hop[n - 1]].next]
  <2>1. Hops(Hop)
    BY <1>7, HopUnfolds
  <2> QED
    BY <2>1 DEF Hops
<1>9. Hop[0] = Walk[0]
  BY <1>4, <1>8
<1>10. \A n \in 1 .. MaxPages : Hop[n - 1] = Walk[n - 1] => Hop[n] = Walk[n]
  <2> TAKE n \in 1 .. MaxPages
  <2>1. n \in 0 .. MaxPages /\ n # 0
    BY Bounds, SMTT(30)
  <2>2. Hop[n] = Then(Hop[n - 1])
    BY <1>8, <2>1
  <2> QED
    BY <1>5, <2>2
<1>11. \A n \in 0 .. MaxPages : Hop[n] = Walk[n]
  <2>1. MaxPages \in Nat
    BY Bounds
  <2>2. InStep(Hop, Walk, MaxPages)
    BY <1>9, <1>10 DEF InStep
  <2> QED
    BY <2>1, <2>2, Stepwise
<1>12. DOMAIN Hop = 0 .. MaxPages /\ Hop = [n \in 0 .. MaxPages |-> Hop[n]]
  BY <1>8
<1>13. Walk = [n \in 0 .. MaxPages |-> Walk[n]]
  BY DEF Walk
<1> QED
  BY <1>11, <1>12, <1>13

LEMMA Walks ==
  ASSUME Sound(db)
  PROVE  /\ Len(db.chain) \in 0 .. MaxPages /\ Len(db.chain) \in Nat
         /\ \A n \in 0 .. Len(db.chain) - 1 :
              /\ n \in 0 .. MaxPages /\ Hop[n] = db.chain[Len(db.chain) - n]
              /\ Len(db.chain) - n \in 1 .. Len(db.chain)
              /\ Hop[n] \in Trunks(db) /\ Hop[n] \in 1 .. db.pages
         /\ \A n \in 0 .. MaxPages : ~ (n < Len(db.chain)) => Hop[n] = 0
         /\ \A n, m \in 0 .. Len(db.chain) - 1 : Hop[n] = Hop[m] => n = m
         /\ \A t \in Trunks(db) : \E n \in 0 .. Len(db.chain) - 1 : Hop[n] = t
<1> DEFINE L == Len(db.chain)
<1>1. L \in 0 .. MaxPages /\ DOMAIN db.chain = 1 .. L
  BY ChainLength
<1>2. L \in Nat
  BY <1>1, Bounds, SMTT(30)
<1>3. \A n \in 0 .. MaxPages : Hop[n] = IF n < L THEN db.chain[L - n] ELSE 0
  BY HopIsWalk DEF Walk
<1>4. IsInjective(db.chain) /\ Trunks(db) = Range(db.chain) /\ db.used \cup Free(db) = 1 .. db.pages
      /\ Trunks(db) \subseteq Free(db)
  BY DEF Sound, Once, Accounted, Trunks, Free
<1> HIDE DEF L
<1>5. \A n \in 0 .. L - 1 : n \in 0 .. MaxPages /\ n < L /\ L - n \in 1 .. L
  BY <1>1, <1>2, Bounds, SMTT(30)
<1>6. \A n, m \in 0 .. L - 1 : L - n = L - m => n = m
  BY <1>2, SMTT(30)
<1>7. \A i \in 1 .. L : L - i \in 0 .. L - 1 /\ L - (L - i) = i
  BY <1>2, SMTT(30)
<1>8. \A n \in 0 .. L - 1 : Hop[n] = db.chain[L - n]
  BY <1>3, <1>5
<1>9. \A i \in 1 .. L : db.chain[i] \in Trunks(db) /\ db.chain[i] \in 1 .. db.pages
  BY <1>1, <1>4 DEF Range
<1>10. \A n, m \in 0 .. L - 1 : Hop[n] = Hop[m] => n = m
  <2> SUFFICES ASSUME NEW n \in 0 .. L - 1, NEW m \in 0 .. L - 1, Hop[n] = Hop[m] PROVE n = m
    OBVIOUS
  <2>1. db.chain[L - n] = db.chain[L - m] /\ L - n \in DOMAIN db.chain /\ L - m \in DOMAIN db.chain
    BY <1>1, <1>5, <1>8
  <2>2. L - n = L - m
    BY <1>4, <2>1 DEF IsInjective
  <2> QED
    BY <1>6, <2>2
<1>11. \A t \in Trunks(db) : \E n \in 0 .. L - 1 : Hop[n] = t
  <2> TAKE t \in Trunks(db)
  <2>1. PICK i \in 1 .. L : db.chain[i] = t
    BY <1>1, <1>4 DEF Range
  <2>2. L - i \in 0 .. L - 1 /\ Hop[L - i] = t
    BY <1>7, <1>8, <2>1
  <2> QED
    BY <2>2
<1> QED
  BY <1>1, <1>2, <1>3, <1>5, <1>8, <1>9, <1>10, <1>11 DEF L

\* check_freelist reads every trunk, and only those.
LEMMA WalkedIs == ASSUME Sound(db) PROVE Walked = 0 .. Len(db.chain) - 1 /\ ~ TrunkProblem
<1> DEFINE L == Len(db.chain)
<1>1. /\ L \in 0 .. MaxPages /\ L \in Nat
      /\ \A n \in 0 .. L - 1 : n \in 0 .. MaxPages /\ Hop[n] \in 1 .. db.pages
      /\ \A n \in 0 .. MaxPages : ~ (n < L) => Hop[n] = 0
      /\ \A n, m \in 0 .. L - 1 : Hop[n] = Hop[m] => n = m
  BY Walks
<1>2. db.pages \in Nat /\ MaxPages \in Nat
  <2>1. db.pages \in Page
    BY DbFields DEF Sound
  <2> QED
    BY <2>1, Bounds, SMTT(30) DEF Page
<1> HIDE DEF L
<1>3. \A n \in 0 .. L - 1 : /\ \A i \in 0 .. n : i \in 0 .. L - 1
                           /\ \A i \in 0 .. n - 1 : i \in 0 .. L - 1 /\ i # n
  BY <1>1, SMTT(30)
<1>4. \A n \in 0 .. L - 1 : Hop[n] # 0 /\ ~ (Hop[n] > db.pages)
  <2>1. \A x \in 1 .. db.pages : x # 0 /\ ~ (x > db.pages)
    BY <1>2, SMTT(30)
  <2> QED
    BY <1>1, <2>1
<1>5. \A n \in 0 .. L - 1 : ~ Stop(n)
  BY <1>1, <1>3, <1>4 DEF Stop
<1>6. \A n \in 0 .. MaxPages : n \notin 0 .. L - 1 => L \in 0 .. n /\ ~ (n < L) /\ ~ (L < L)
  BY <1>1, <1>2, SMTT(30)
<1>7. ASSUME NEW n \in 0 .. MaxPages, n \notin 0 .. L - 1 PROVE n \notin Walked /\ Hop[n] = 0
  <2>1. L \in 0 .. n /\ Hop[L] = 0 /\ Hop[n] = 0
    BY <1>1, <1>6, <1>7
  <2>2. Stop(L)
    BY <2>1 DEF Stop
  <2> QED
    BY <2>1, <2>2 DEF Walked
<1>8. \A n \in 0 .. L - 1 : n \in Walked
  BY <1>1, <1>3, <1>5 DEF Walked
<1>9. Walked \subseteq 0 .. MaxPages
  BY DEF Walked
<1>10. Walked = 0 .. L - 1
  BY <1>7, <1>8, <1>9
<1>11. ~ TrunkProblem
  BY <1>5, <1>7 DEF TrunkProblem
<1> QED
  BY <1>10, <1>11 DEF L

\* A trunk with its leaves: what check_freelist counts at one hop.
Block(n)  == {Hop[n]} \cup Held(db, Hop[n])
Blocks(T) == UNION {Block(n) : n \in T}

LEMMA RangeSize ==
  ASSUME NEW q \in Seq(Page), IsInjective(q)
  PROVE  IsFiniteSet(Range(q)) /\ Cardinality(Range(q)) = Len(q) /\ Len(q) \in Nat
<1> DEFINE n == Len(q)
<1>1. n \in Nat /\ DOMAIN q = 1 .. n /\ q \in [1 .. n -> Page]
  BY LenProperties
<1>2. q \in [1 .. n -> Range(q)] /\ \A x \in Range(q) : \E i \in 1 .. n : q[i] = x
  BY <1>1 DEF Range
<1> HIDE DEF n
<1>3. q \in Bijection(1 .. n, Range(q))
  BY <1>2 DEF Bijection, Injection, Surjection
<1>4. ExistsBijection(1 .. n, Range(q))
  BY <1>3 DEF ExistsBijection
<1>5. 1 \in Int /\ n \in Int
  BY <1>1, SMTT(30)
<1>6. IsFiniteSet(1 .. n)
  BY <1>5, FS_Interval
<1>7. IsFiniteSet(Range(q)) /\ Cardinality(Range(q)) = n
  BY <1>1, <1>4, <1>6, FS_Bijection, FS_CountingElements
<1> QED
  BY <1>1, <1>7 DEF n

LEMMA BlockSize ==
  ASSUME Sound(db), NEW n \in 0 .. Len(db.chain) - 1
  PROVE  IsFiniteSet(Block(n)) /\ Cardinality(Block(n)) = 1 + Len(Leaves(n)) /\ Len(Leaves(n)) \in Nat
<1> DEFINE q == db.buf[Hop[n]].leaves
<1>1. Hop[n] \in Trunks(db) /\ Hop[n] \in Page
  <2>1. Hop[n] \in Trunks(db)
    BY Walks
  <2> QED
    BY <2>1, HeadIsTrunk
<1>2. q \in Seq(Page) /\ IsInjective(q) /\ Hop[n] \notin Range(q)
  <2>1. q \in Seq(Page)
    BY <1>1, DbFields DEF Sound
  <2>2. IsInjective(q) /\ Range(q) \cap Trunks(db) = {}
    BY <1>1 DEF Sound, Once, Held
  <2> QED
    BY <1>1, <2>1, <2>2
<1>3. Block(n) = Range(q) \cup {Hop[n]} /\ Leaves(n) = q
  BY DEF Block, Held, Leaves
<1> HIDE DEF q
<1>4. IsFiniteSet(Range(q)) /\ Cardinality(Range(q)) = Len(q) /\ Len(q) \in Nat
  BY <1>2, RangeSize
<1>5. IsFiniteSet(Range(q) \cup {Hop[n]}) /\ Cardinality(Range(q) \cup {Hop[n]}) = Cardinality(Range(q)) + 1
  BY <1>2, <1>4, FS_AddElement
<1>6. Len(q) + 1 = 1 + Len(q)
  BY <1>4, SMTT(30)
<1> QED
  BY <1>3, <1>4, <1>5, <1>6

LEMMA BlocksApart ==
  ASSUME Sound(db), NEW n \in 0 .. Len(db.chain) - 1, NEW m \in 0 .. Len(db.chain) - 1, n # m
  PROVE  Block(n) \cap Block(m) = {}
<1>1. Hop[n] \in Trunks(db) /\ Hop[m] \in Trunks(db) /\ Hop[n] # Hop[m]
  BY Walks
<1>2. /\ Held(db, Hop[n]) \cap Trunks(db) = {} /\ Held(db, Hop[m]) \cap Trunks(db) = {}
      /\ Held(db, Hop[n]) \cap Held(db, Hop[m]) = {}
  BY <1>1 DEF Sound, Once
<1> QED
  BY <1>1, <1>2 DEF Block

LEMMA BlocksAreFree == ASSUME Sound(db) PROVE Blocks(0 .. Len(db.chain) - 1) = Free(db)
<1>1. db.chain \in Seq(Page)
  BY DbFields DEF Sound
<1>2. \A x : x \in Free(db) <=> x \in Trunks(db) \/ \E t \in Trunks(db) : x \in Held(db, t)
  BY <1>1, FreeIs
<1>3. /\ \A n \in 0 .. Len(db.chain) - 1 : Hop[n] \in Trunks(db)
      /\ \A t \in Trunks(db) : \E n \in 0 .. Len(db.chain) - 1 : Hop[n] = t
  BY Walks
<1>4. \A x : x \in Blocks(0 .. Len(db.chain) - 1) <=>
              \E n \in 0 .. Len(db.chain) - 1 : x = Hop[n] \/ x \in Held(db, Hop[n])
  <2>1. \A x, T : x \in Blocks(T) <=> \E n \in T : x \in Block(n)
    BY DEF Blocks
  <2>2. \A x, n : x \in Block(n) <=> x = Hop[n] \/ x \in Held(db, Hop[n])
    BY DEF Block
  <2> QED
    BY <2>1, <2>2
<1>5. \A x : x \in Blocks(0 .. Len(db.chain) - 1) <=> x \in Free(db)
  BY <1>2, <1>3, <1>4
<1> QED
  BY <1>5

\* What check_freelist counts is the number of free pages.
LEMMA CountIsFree ==
  ASSUME Sound(db)
  PROVE  SumFunction([n \in Walked |-> 1 + Len(Leaves(n))]) = Cardinality(Free(db))
<1> DEFINE N == 0 .. Len(db.chain) - 1
           f == [n \in N |-> 1 + Len(Leaves(n))]
           c == [s \in SUBSET N |-> Cardinality(Blocks(s))]
           Any(s) == CHOOSE x \in s : TRUE
<1>1. \A n \in N : /\ IsFiniteSet(Block(n)) /\ Cardinality(Block(n)) \in Nat
                  /\ Cardinality(Block(n)) = f[n]
  <2> TAKE n \in N
  <2>1. IsFiniteSet(Block(n)) /\ Cardinality(Block(n)) = 1 + Len(Leaves(n))
    BY BlockSize
  <2> QED
    BY <2>1, FS_CardinalityType
<1>2. Free(db) = Blocks(N) /\ IsFiniteSet(Blocks(N))
  BY BlocksAreFree, HeadIsTrunk
<1>3. \A s \in SUBSET N : /\ Blocks(s) \subseteq Blocks(N) /\ IsFiniteSet(Blocks(s))
                         /\ Cardinality(Blocks(s)) \in Nat
  <2> TAKE s \in SUBSET N
  <2>1. Blocks(s) \subseteq Blocks(N)
    BY DEF Blocks
  <2>2. IsFiniteSet(Blocks(s))
    BY <1>2, <2>1, FS_Subset
  <2> QED
    BY <2>1, <2>2, FS_CardinalityType
<1>4. IsFiniteSet(N)
  <2>1. 0 \in Int /\ Len(db.chain) - 1 \in Int
    BY Walks, SMTT(30)
  <2> QED
    BY <2>1, FS_Interval
<1>5. \A n, m \in N : n # m => Block(n) \cap Block(m) = {}
  BY BlocksApart
<1>6. Walked = N
  BY WalkedIs
<1>7. \A s : s # {} => Any(s) \in s
  OBVIOUS
<1>f. DOMAIN f = N
  OBVIOUS
<1>g. \A s \in SUBSET N : c[s] = Cardinality(Blocks(s))
  OBVIOUS
<1> HIDE DEF N, f, Any
<1>8. ASSUME NEW s \in SUBSET N, s # {}
      PROVE  Cardinality(Blocks(s)) = f[Any(s)] + Cardinality(Blocks(s \ {Any(s)}))
  <2> DEFINE x == Any(s)
             r == s \ {x}
  <2>1. x \in s /\ x \in N /\ r \in SUBSET N
    BY <1>7, <1>8
  <2> HIDE DEF x
  <2>2. Blocks(s) = Block(x) \cup Blocks(r)
    BY <2>1 DEF Blocks
  <2>3. Block(x) \cap Blocks(r) = {}
    BY <1>5, <2>1 DEF Blocks
  <2>4. IsFiniteSet(Block(x)) /\ Cardinality(Block(x)) = f[x] /\ Cardinality(Block(x)) \in Nat
    BY <1>1, <2>1
  <2>5. IsFiniteSet(Blocks(r)) /\ Cardinality(Blocks(r)) \in Nat
    BY <1>3, <2>1
  <2>6. Cardinality(Blocks(s)) = Cardinality(Block(x)) + Cardinality(Blocks(r)) - Cardinality({})
    <3> HIDE DEF r
    <3>1. IsFiniteSet(Block(x)) /\ IsFiniteSet(Blocks(r))
      BY <2>4, <2>5
    <3>2. Cardinality(Block(x) \cup Blocks(r))
            = Cardinality(Block(x)) + Cardinality(Blocks(r)) - Cardinality(Block(x) \cap Blocks(r))
      BY <3>1, FS_Union
    <3> QED
      BY <2>2, <2>3, <3>2
  <2>7. Cardinality({}) = 0
    BY FS_EmptySet
  <2>8. \A a, b \in Nat : a + b - 0 = a + b
    BY SMTT(30)
  <2> QED
    BY <2>4, <2>5, <2>6, <2>7, <2>8 DEF x
<1>9. Cardinality(Blocks({})) = 0
  <2>1. Blocks({}) = {}
    BY DEF Blocks
  <2> QED
    BY <2>1, FS_EmptySet
<1>10. \A s \in SUBSET N : c[s] = IF s = {} THEN 0 ELSE f[Any(s)] + c[s \ {Any(s)}]
  <2> TAKE s \in SUBSET N
  <2>1. s \ {Any(s)} \in SUBSET N
    OBVIOUS
  <2> HIDE DEF c
  <2> QED
    BY <1>g, <1>8, <1>9, <2>1
<1>11. c = [s \in SUBSET (DOMAIN f) |->
             IF s = {} THEN 0
             ELSE f[CHOOSE x \in s : TRUE] + c[s \ {CHOOSE x \in s : TRUE}]]
  <2>1. c = [s \in SUBSET N |-> c[s]]
    OBVIOUS
  <2> HIDE DEF c
  <2> QED
    BY <1>10, <1>f, <2>1 DEF Any
<1> HIDE DEF c
<1>12. SumFunction(f) = c[DOMAIN f]
  BY <1>4, <1>11, <1>f, SumIs
<1>13. c[N] = Cardinality(Blocks(N))
  BY <1>g
<1> QED
  BY <1>2, <1>6, <1>12, <1>13, <1>f DEF f

LEMMA SoundChecks == ASSUME Sound(db) PROVE ChecksOk
<1>1. ~ TrunkProblem /\ Walked = 0 .. Len(db.chain) - 1
  BY WalkedIs
<1>2. ~ LeafProblem
  <2> SUFFICES ASSUME NEW n \in Walked, NEW l \in Range(Leaves(n)) PROVE ~ (l = 0 \/ l > db.pages)
    BY DEF LeafProblem
  <2>1. Hop[n] \in Trunks(db) /\ l \in Held(db, Hop[n])
    BY <1>1, Walks DEF Leaves, Held
  <2>2. db.chain \in Seq(Page) /\ db.pages \in Page
    BY DbFields DEF Sound
  <2>3. l \in Free(db)
    BY <2>1, <2>2, FreeIs
  <2>4. l \in 1 .. db.pages
    BY <2>3 DEF Sound, Accounted
  <2> QED
    BY <2>2, <2>4, Bounds, SMTT(30) DEF Page
<1>3. ~ CountProblem
  BY CountIsFree DEF CountProblem, Sound, Accounted
<1>4. \A n \in 1 .. Len(db.chain) : Hop[n - 1] = db.chain[Len(db.chain) + 1 - n]
  <2> DEFINE L == Len(db.chain)
  <2>1. L \in Nat /\ \A n \in 0 .. L - 1 : Hop[n] = db.chain[L - n]
    BY Walks
  <2> HIDE DEF L
  <2>2. \A n \in 1 .. L : n - 1 \in 0 .. L - 1 /\ L - (n - 1) = L + 1 - n
    BY <2>1, SMTT(30)
  <2>3. \A n \in 1 .. L : Hop[n - 1] = db.chain[L + 1 - n]
    BY <2>1, <2>2
  <2> QED
    BY <2>3 DEF L
<1> QED
  BY <1>1, <1>2, <1>3, <1>4 DEF ChecksOk, check_freelist

\* check_freelist finds nothing to report, and its walk along the next pointers
\* visits exactly the trunks, whatever allocate_page, deallocate_page, COMMIT and
\* ROLLBACK did, as long as callers free no page twice.
THEOREM FreelistChecksOk == ASSUME ~ DoubleFree PROVE Spec => []ChecksOk
<1>1. SoundInv => ChecksOk
  BY SoundChecks DEF SoundInv
<1> QED
  BY <1>1, SoundAlways, PTL
=============================================================================
