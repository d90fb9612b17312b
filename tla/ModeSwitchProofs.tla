-------------------------- MODULE ModeSwitchProofs --------------------------
(***************************************************************************)
(* Proofs about ModeSwitch for any number of pages and transactions, with  *)
(* or without a reader and a stock connection, as long as no write of the  *)
(* mode into page 1 has failed.  For any number of other faults: page 1    *)
(* names the mode the pager is in.  For at most one: no switch loses a     *)
(* commit, and the pager reads what was committed.                         *)
(***************************************************************************)
EXTENDS ModeSwitch, FiniteSetTheorems, WellFoundedInduction, TLAPS

\* The four parts of ModeTypeOK: the main file and the log, -shm and who has it
\* open, the pager, and what has happened.
DiskOK ==
  /\ file \in [Page -> Content]
  /\ wal = << >> \/ (wal \in Seq(Seq(Frame)) /\ Len(wal) = 1)
ShmOK ==
  /\ path \in {0} \cup Inode /\ inode \in [Inode -> [mx : Nat, backfill : Nat]]
  /\ held \subseteq {"wal_lock", "wal_shm"} /\ fd \in {0} \cup Inode /\ (fd = 0) = (held = {})
  /\ \A i \in DOMAIN reader : i = 1 /\ reader[i].fd \in {0} \cup Inode /\ reader[i].mark \in Nat
PagerOK ==
  /\ step \in Steps /\ mode \in {"legacy", "wal"}
  /\ SomePages(wal_pages) /\ SomePages(cached) /\ SomePages(dirty)
  /\ safe \in Nat /\ todo \subseteq Page
CountOK ==
  /\ committed \in [Page -> Nat] /\ tx \in Nat
  /\ faults \in Nat /\ misnamed \in BOOLEAN

\* The mode bytes of page 1 on disk: a log with frames belongs to a database in
\* WAL mode, and its frames of page 1 say so.
DiskVersion ==
  /\ file[1].ver \in {"legacy", "wal"}
  /\ \A i \in DOMAIN Frames : Frames[i].page = 1 => Frames[i].content.ver = "wal"
  /\ Frames # << >> => file[1].ver = "wal"

\* A map of pages in which page 1, if it is there, names the mode v.
Says(f, v) == 1 \in DOMAIN f => f[1].ver = v

\* The mode bytes of page 1 in the pager: in the overlay, in the cache and in
\* the dirty map.
PagerVersion ==
  /\ step # "closed" => mode = file[1].ver
  /\ Says(wal_pages, "wal") /\ (mode # "wal" => DOMAIN wal_pages = {})
  /\ Says(cached, mode) /\ Says(dirty, mode)

\* What holds while a call is under way.
CallInv ==
  /\ step = "closed" => DOMAIN wal_pages = {} /\ DOMAIN cached = {} /\ DOMAIN dirty = {}
  /\ step \in ToWal => mode = "legacy" /\ Frames = << >>
  /\ step \in Logging => mode = "wal" /\ wal # << >>
  /\ step \in ToJournal => mode = "wal"
  /\ step \in ToWal \cup ToJournal => DOMAIN dirty = {}
  /\ step \in {"delete shm", "say legacy"} => wal = << >>
  /\ step = "say legacy" => DOMAIN wal_pages = {}
CopyInv == step = "copy" => todo \subseteq DOMAIN committed_pages(safe)

ModeInv ==
  /\ DiskOK /\ ShmOK /\ PagerOK /\ CountOK
  /\ DiskVersion /\ PagerVersion /\ CallInv /\ CopyInv

USE ZenonT(30)

-----------------------------------------------------------------------------
\* A non-empty set of positions in a sequence has a greatest one, so Max of it
\* is one of its elements.
LEMMA MaxIsIn ==
  ASSUME NEW n \in Nat, NEW S \in SUBSET (1 .. n), S # {}
  PROVE  Max(S) \in S /\ \A i \in S : Max(S) >= i
<1> DEFINE T == {n - i : i \in S}
<1>1. IsWellFoundedOn(OpToRel(<, Nat), Nat)  BY NatLessThanWellFounded
<1>2. T \subseteq Nat /\ T # {}
  <2>1. \A i \in S : n - i \in Nat  BY SMTT(30)
  <2> QED  BY <2>1
<1>3. PICK x \in T : \A y \in T : ~ (<<y, x>> \in OpToRel(<, Nat))
  <2> HIDE DEF T
  <2> QED  BY <1>1, <1>2, WFMin
<1>4. \A y \in T : ~ (y < x)
  <2> HIDE DEF T
  <2> QED  BY <1>2, <1>3 DEF OpToRel
<1>5. PICK m \in S : x = n - m  OBVIOUS
<1>6. \A i \in S : m >= i
  <2> TAKE i \in S
  <2>1. n - i \in T  OBVIOUS
  <2>2. ~ (n - i < n - m)  BY <2>1, <1>4, <1>5
  <2> QED  BY <2>2, SMTT(30)
<1> QED  BY <1>5, <1>6 DEF Max

\* committed_pages takes every page it has from a frame of that page.
FromFrame(n, p) ==
  \E i \in DOMAIN Frames : Frames[i].page = p /\ committed_pages(n)[p] = Frames[i].content

LEMMA PageFromFrame ==
  ASSUME DiskOK, NEW n, NEW p, p \in DOMAIN committed_pages(n)
  PROVE  FromFrame(n, p)
<1>1. Frames \in Seq(Frame)  BY SMTT(30) DEF DiskOK, Frames
<1>2. DOMAIN Frames = 1 .. Len(Frames) /\ Len(Frames) \in Nat  BY <1>1, SMTT(30)
<1>3. FramesOf(p, n) # {} /\ p \in Page  BY DEF committed_pages
<1>4. FramesOf(p, n) \in SUBSET (1 .. Len(Frames))  BY <1>2 DEF FramesOf
<1>5. Max(FramesOf(p, n)) \in FramesOf(p, n)  BY <1>2, <1>3, <1>4, MaxIsIn
<1>6. committed_pages(n)[p] = Frames[Max(FramesOf(p, n))].content  BY DEF committed_pages
<1> QED  BY <1>5, <1>6 DEF FramesOf, FromFrame

LEMMA PagesComeFromFrames ==
  ASSUME DiskOK, NEW n
  PROVE  SomePages(committed_pages(n))
<1>1. Frames \in Seq(Frame)  BY SMTT(30) DEF DiskOK, Frames
<1>2. DOMAIN Frames = 1 .. Len(Frames) /\ Len(Frames) \in Nat  BY <1>1, SMTT(30)
<1>3. ASSUME NEW p, p \in DOMAIN committed_pages(n)
      PROVE  \E i \in DOMAIN Frames : committed_pages(n)[p] = Frames[i].content
  <2>1. FromFrame(n, p)  BY <1>3, PageFromFrame
  <2> QED  BY <2>1 DEF FromFrame
<1>4. \A i \in DOMAIN Frames : Frames[i].content \in Content
  <2>1. \A i \in DOMAIN Frames : Frames[i] \in Frame  BY <1>1, <1>2, SMTT(30)
  <2>2. \A f \in Frame : f.content \in Content  BY SMTT(30) DEF Frame
  <2> QED  BY <2>1, <2>2
<1>5. DOMAIN committed_pages(n) \subseteq Page  BY DEF committed_pages
<1> QED  BY <1>3, <1>4, <1>5 DEF SomePages

\* The maps a pager keeps stay maps of pages to contents.
LEMMA MapsOfPages ==
  ASSUME NEW f, NEW g, SomePages(f), SomePages(g), NEW p
  PROVE  SomePages(None) /\ SomePages(Over(f, g)) /\ SomePages(NotIn(f, p))
<1>1. SomePages(None)  BY DEF SomePages, None
<1>2. SomePages(Over(f, g))
  <2>1. DOMAIN Over(f, g) = DOMAIN f \cup DOMAIN g  BY DEF Over
  <2>2. \A q \in DOMAIN Over(f, g) : Over(f, g)[q] = IF q \in DOMAIN f THEN f[q] ELSE g[q]
    BY DEF Over
  <2> QED  BY <2>1, <2>2 DEF SomePages
<1>3. SomePages(NotIn(f, p))
  <2>1. DOMAIN NotIn(f, p) \subseteq DOMAIN f /\ \A q \in DOMAIN NotIn(f, p) : NotIn(f, p)[q] = f[q]
    BY DEF NotIn
  <2> QED  BY <2>1 DEF SomePages
<1> QED  BY <1>1, <1>2, <1>3

\* A new -shm file gets an inode that nobody holds open.
LEMMA ShmIsAnInode ==
  ASSUME ShmOK
  PROVE  ShmToWrite \in Inode
<1> DEFINE users == {fd} \cup {reader[i].fd : i \in DOMAIN reader}
           free  == Inode \ users
<1>0. Inode = {1, 2, 3}  BY SMTT(30) DEF Inode
<1>1. CASE path # 0  BY <1>1 DEF ShmOK, ShmToWrite
<1>2. CASE path = 0
  <2>1. users \subseteq {fd, reader[1].fd}
    <3>1. \A i \in DOMAIN reader : i = 1  BY DEF ShmOK
    <3> QED  BY <3>1
  <2>2. 1 \in free \/ 2 \in free \/ 3 \in free
    <3> HIDE DEF users
    <3> SUFFICES ASSUME 1 \in users, 2 \in users, 3 \in users PROVE FALSE  BY <1>0
    <3>1. \A x \in users : x = fd \/ x = reader[1].fd  BY <2>1
    <3>2. 1 = fd \/ 1 = reader[1].fd  BY <3>1
    <3>3. 2 = fd \/ 2 = reader[1].fd  BY <3>1
    <3>4. 3 = fd \/ 3 = reader[1].fd  BY <3>1
    <3> QED  BY <3>2, <3>3, <3>4, SMTT(30)
  <2>3. \E x \in free : \A y \in free : x =< y
    <3>0. \A y \in free : y = 1 \/ y = 2 \/ y = 3  BY <1>0
    <3> HIDE DEF free
    <3>1. CASE 1 \in free  BY <3>0, <3>1, SMTT(30)
    <3>2. CASE 1 \notin free /\ 2 \in free  BY <3>0, <3>2, SMTT(30)
    <3>3. CASE 1 \notin free /\ 2 \notin free /\ 3 \in free  BY <3>0, <3>3, SMTT(30)
    <3> QED  BY <2>2, <3>1, <3>2, <3>3
  <2>4. ShmToWrite = Min(free)  BY <1>2 DEF ShmToWrite
  <2>5. Min(free) \in free
    <3> HIDE DEF free
    <3> QED  BY <2>3 DEF Min
  <2> QED  BY <2>4, <2>5
<1> QED  BY <1>1, <1>2

\* The lesser of two numbers.
LEMMA MinOfTwo ==
  ASSUME NEW a \in Nat, NEW b \in Nat, NEW S, S \subseteq {a, b}, S # {}
  PROVE  Min(S) \in S /\ Min(S) \in Nat /\ \A y \in S : Min(S) <= y
<1>0. \A y \in S : y = a \/ y = b  OBVIOUS
<1>1. a \in S \/ b \in S  OBVIOUS
<1>2. \E x \in S : \A y \in S : x =< y
  <2>1. CASE a \notin S  BY <1>0, <1>1, <2>1, SMTT(30)
  <2>2. CASE b \notin S  BY <1>0, <1>1, <2>2, SMTT(30)
  <2>3. CASE a \in S /\ b \in S /\ a =< b  BY <1>0, <2>3, SMTT(30)
  <2>4. CASE a \in S /\ b \in S /\ b =< a  BY <1>0, <2>4, SMTT(30)
  <2>5. a =< b \/ b =< a  BY SMTT(30)
  <2> QED  BY <2>1, <2>2, <2>3, <2>4, <2>5
<1>3. Min(S) \in S /\ \A y \in S : Min(S) <= y  BY <1>2 DEF Min
<1> QED  BY <1>0, <1>3

\* Writing a fresh -shm file leaves a reader with a mark, of 0 at least.
LEMMA MarksCleared ==
  ASSUME ShmOK, WriteFreshShm
  PROVE  \A i \in DOMAIN reader' :
           i = 1 /\ reader'[i].fd \in {0} \cup Inode /\ reader'[i].mark \in Nat
<1>1. reader' = [i \in DOMAIN reader |->
                   IF reader[i].fd = ShmToWrite THEN [reader[i] EXCEPT !.mark = 0] ELSE reader[i]]
  BY DEF WriteFreshShm
<1> TAKE i \in DOMAIN reader'
<1>2. i \in DOMAIN reader /\ i = 1 /\ reader[i].fd \in {0} \cup Inode /\ reader[i].mark \in Nat
  BY <1>1 DEF ShmOK
<1>3. CASE reader[i].fd = ShmToWrite
  <2>1. reader'[i] = [reader[i] EXCEPT !.mark = 0]  BY <1>1, <1>2, <1>3
  <2>2. reader'[i].fd = reader[i].fd  BY <2>1, SMTT(30)
  <2>3. reader'[i].mark = 0 \/ reader'[i].mark = reader[i].mark  BY <2>1, SMTT(30)
  <2>4. 0 \in Nat  BY SMTT(30)
  <2> QED  BY <1>2, <2>2, <2>3, <2>4
<1>4. CASE reader[i].fd # ShmToWrite  BY <1>1, <1>2, <1>4
<1> QED  BY <1>3, <1>4

\* A map of one page.
LEMMA MapOfOne ==
  ASSUME NEW p \in Page, NEW c \in Content, NEW v, p = 1 => c.ver = v
  PROVE  SomePages([q \in {p} |-> c]) /\ Says([q \in {p} |-> c], v)
BY DEF SomePages, Says

\* What the maps of a pager say of page 1.
LEMMA MapsSay ==
  ASSUME NEW f, NEW g, NEW v, Says(f, v), Says(g, v), NEW p
  PROVE  /\ Says(None, v) /\ DOMAIN None = {} /\ Says(Over(f, g), v) /\ Says(NotIn(f, p), v)
         /\ 1 \in DOMAIN Over(f, g) => 1 \in DOMAIN f \/ 1 \in DOMAIN g
<1>1. Says(None, v) /\ DOMAIN None = {}  BY DEF Says, None
<1>2. Says(Over(f, g), v)  BY DEF Says, Over
<1>3. Says(NotIn(f, p), v)  BY DEF Says, NotIn
<1>4. DOMAIN Over(f, g) = DOMAIN f \cup DOMAIN g  BY DEF Over
<1> QED  BY <1>1, <1>2, <1>3, <1>4

\* The empty map names no mode.
LEMMA EmptyMap == SomePages(None) /\ DOMAIN None = {} /\ \A v : Says(None, v)
BY DEF SomePages, Says, None

\* The empty sequence has no positions.
LEMMA EmptySeq == DOMAIN << >> = {}
BY SMTT(30)

\* Every database has a page 1.
LEMMA PageOne == 1 \in Page
BY ModeConstants, SMTT(30) DEF Page

\* The log is a sequence of frames, empty without a -wal file.
LEMMA LogFrames ==
  ASSUME DiskOK
  PROVE  Frames \in Seq(Frame) /\ Len(Frames) \in Nat /\ (wal = << >> => Frames = << >>)
BY SMTT(30) DEF DiskOK, Frames

\* Page 1 as the frames have it says WAL, and then so does the main file.
LEMMA LogSays ==
  ASSUME DiskOK, DiskVersion, NEW n
  PROVE  /\ Says(committed_pages(n), "wal")
         /\ 1 \in DOMAIN committed_pages(n) => file[1].ver = "wal"
<1> SUFFICES ASSUME 1 \in DOMAIN committed_pages(n)
             PROVE  committed_pages(n)[1].ver = "wal" /\ file[1].ver = "wal"
  BY DEF Says
<1>1. PICK i \in DOMAIN Frames : /\ Frames[i].page = 1
                                 /\ committed_pages(n)[1] = Frames[i].content
  <2>1. FromFrame(n, 1)  BY PageFromFrame
  <2> QED  BY <2>1 DEF FromFrame
<1>2. Frames # << >>
  BY <1>1, EmptySeq
<1> QED  BY <1>1, <1>2 DEF DiskVersion

\* A pass copies a number of frames.
LEMMA SafeIsANumber ==
  ASSUME DiskOK, ShmOK
  PROVE  SafeFrame \in Nat
<1> DEFINE S == {Len(Frames)} \cup ({reader[i].mark : i \in MarksSeen} \ {0})
<1>1. Len(Frames) \in Nat  BY LogFrames
<1>2. CASE MarksSeen = {}
  <2>1. S \subseteq {Len(Frames), Len(Frames)} /\ S # {}  BY <1>2
  <2> HIDE DEF S
  <2>2. Min(S) \in Nat  BY <1>1, <2>1, MinOfTwo
  <2> QED  BY <2>2 DEF SafeFrame, S
<1>3. CASE MarksSeen # {}
  <2>1. \A i \in MarksSeen : i = 1 /\ reader[1].mark \in Nat  BY DEF ShmOK, MarksSeen
  <2>2. reader[1].mark \in Nat  BY <1>3, <2>1
  <2>3. S \subseteq {Len(Frames), reader[1].mark} /\ S # {}  BY <2>1
  <2> HIDE DEF S
  <2>4. Min(S) \in Nat  BY <1>1, <2>2, <2>3, MinOfTwo
  <2> QED  BY <2>4 DEF SafeFrame, S
<1> QED  BY <1>2, <1>3

-----------------------------------------------------------------------------
\* Pager::open takes the overlay from frames that name WAL mode, and its mode from page 1.
LEMMA Keeps_Open ==
  ASSUME ModeInv, Open
  PROVE  ModeInv'
<1>0. UNCHANGED <<file, wal, path, inode, cached, dirty, safe, todo, reader, committed,
                  tx, faults, misnamed>>
  BY DEF Open, memory, pass, others
<1>u. DiskOK' /\ CountOK' /\ DiskVersion'
  BY <1>0 DEF ModeInv, DiskOK, CountOK, DiskVersion, Frames
<1>1. ShmOK'
  BY <1>0 DEF ModeInv, Open, ShmOK, Hold
<1>2. PagerOK'
  <2>1. SomePages(wal_pages')  BY PagesComeFromFrames DEF ModeInv, Open, read_wal_pages
  <2>2. mode' \in {"legacy", "wal"}  BY DEF ModeInv, Open, DiskVersion
  <2>3. step' \in Steps  BY DEF Open, Steps
  <2> QED  BY <1>0, <2>1, <2>2, <2>3 DEF ModeInv, PagerOK
<1>3. PagerVersion'
  <2>1. Says(wal_pages', "wal")
    BY LogSays DEF ModeInv, Open, read_wal_pages
  <2>d. mode' # "wal" => DOMAIN wal_pages' = {}
    <3>1. mode' # "wal" => Frames = << >>  BY DEF ModeInv, DiskVersion, Open
    <3> QED  BY <3>1, EmptySeq DEF Open, read_wal_pages, committed_pages, FramesOf
  <2>2. DOMAIN cached' = {} /\ DOMAIN dirty' = {}  BY <1>0 DEF ModeInv, CallInv, Open
  <2>3. mode' = file'[1].ver  BY <1>0 DEF Open
  <2> QED  BY <2>1, <2>d, <2>2, <2>3 DEF PagerVersion, Says
<1>4. CallInv'
  BY <1>0 DEF ModeInv, Open, CallInv, Frames, Steps, ToWal, ToJournal, Logging
<1>5. CopyInv'
  BY <1>0 DEF ModeInv, Open, CopyInv
<1> QED  BY <1>u, <1>1, <1>2, <1>3, <1>4, <1>5 DEF ModeInv

\* A page read into the cache comes from the main file.
LEMMA Keeps_Read ==
  ASSUME ModeInv, NEW p \in Page, Read(p)
  PROVE  ModeInv'
<1>0. UNCHANGED <<file, wal, path, inode, step, mode, held, fd, wal_pages, dirty, safe,
                  todo, reader, committed, tx, faults, misnamed>>
  BY DEF Read, memory, pass, others
<1>u. DiskOK' /\ ShmOK' /\ CountOK' /\ DiskVersion'
  BY <1>0 DEF ModeInv, DiskOK, ShmOK, CountOK, DiskVersion, Frames
<1>p. file[p] \in Content /\ (p = 1 => file[p].ver = mode)
  BY DEF ModeInv, DiskOK, PagerVersion, Read
<1> DEFINE one == [q \in {p} |-> file[p]]
<1>o. SomePages(one) /\ Says(one, mode)  BY <1>p, MapOfOne
<1>c. cached' = Over(one, cached)  BY DEF Read
<1> HIDE DEF one
<1>1. PagerOK'
  <2>1. SomePages(cached')  BY <1>o, <1>c, MapsOfPages DEF ModeInv, PagerOK
  <2> QED  BY <1>0, <2>1 DEF ModeInv, PagerOK
<1>2. PagerVersion'
  <2>1. Says(cached, mode)  BY DEF ModeInv, PagerVersion
  <2>2. Says(cached', mode)  BY <1>o, <1>c, <2>1, MapsSay
  <2> QED  BY <1>0, <2>2 DEF ModeInv, PagerVersion
<1>3. CallInv'
  BY <1>0 DEF ModeInv, Read, CallInv, Frames, Steps, ToWal, ToJournal, Logging
<1>4. CopyInv'
  <2>1. committed_pages(safe)' = committed_pages(safe)
    BY <1>0 DEF committed_pages, FramesOf, Frames
  <2> QED  BY <1>0, <2>1 DEF ModeInv, CopyInv
<1> QED  BY <1>u, <1>1, <1>2, <1>3, <1>4 DEF ModeInv

\* A dirty page starts from the overlay or from the main file.
LEMMA Keeps_get_page_mut ==
  ASSUME ModeInv, NEW p \in Page, get_page_mut(p)
  PROVE  ModeInv'
<1>0. UNCHANGED <<file, wal, path, inode, step, mode, held, fd, wal_pages, safe, todo,
                  reader, committed, tx, faults, misnamed>>
  BY DEF get_page_mut, memory, pass, others
<1>u. DiskOK' /\ ShmOK' /\ CountOK' /\ DiskVersion'
  BY <1>0 DEF ModeInv, DiskOK, ShmOK, CountOK, DiskVersion, Frames
<1> DEFINE old == IF p \in DOMAIN wal_pages THEN wal_pages[p] ELSE file[p]
<1>p. old \in Content /\ (p = 1 => old.ver = mode)
  <2>1. old \in Content  BY DEF ModeInv, DiskOK, PagerOK, SomePages
  <2>2. p = 1 => old.ver = mode  BY DEF ModeInv, PagerVersion, Says, get_page_mut
  <2> QED  BY <2>1, <2>2
<1>q. [old EXCEPT !.tx = tx + 1] \in Content /\ [old EXCEPT !.tx = tx + 1].ver = old.ver
  <2>1. tx + 1 \in Nat  BY SMTT(30) DEF ModeInv, CountOK
  <2> HIDE DEF old
  <2> QED  BY <1>p, <2>1, SMTT(30) DEF Content
<1>d. /\ cached' = NotIn(cached, p)
      /\ dirty' = Over([q \in {p} |-> [old EXCEPT !.tx = tx + 1]], dirty)
  BY DEF get_page_mut
<1> HIDE DEF old
<1>1. PagerOK'
  <2>1. SomePages([q \in {p} |-> [old EXCEPT !.tx = tx + 1]])  BY <1>p, <1>q, MapOfOne
  <2>2. SomePages(cached') /\ SomePages(dirty')
    BY <1>d, <2>1, MapsOfPages DEF ModeInv, PagerOK
  <2> QED  BY <1>0, <2>2 DEF ModeInv, PagerOK
<1>2. PagerVersion'
  <2>1. Says([q \in {p} |-> [old EXCEPT !.tx = tx + 1]], mode)  BY <1>p, <1>q, MapOfOne
  <2>2. Says(cached', mode) /\ Says(dirty', mode)
    BY <1>d, <2>1, MapsSay DEF ModeInv, PagerVersion
  <2> QED  BY <1>0, <2>2 DEF ModeInv, PagerVersion
<1>3. CallInv'
  BY <1>0 DEF ModeInv, get_page_mut, CallInv, Frames, Steps, ToWal, ToJournal, Logging
<1>4. CopyInv'
  <2>1. committed_pages(safe)' = committed_pages(safe)
    BY <1>0 DEF committed_pages, FramesOf, Frames
  <2> QED  BY <1>0, <2>1 DEF ModeInv, CopyInv
<1> QED  BY <1>u, <1>1, <1>2, <1>3, <1>4 DEF ModeInv

\* Pager::rollback empties the dirty map.
LEMMA Keeps_rollback ==
  ASSUME ModeInv, rollback
  PROVE  ModeInv'
<1>0. UNCHANGED <<file, wal, path, inode, step, mode, held, fd, wal_pages, cached, safe,
                  todo, reader, committed, tx, faults, misnamed>>
  BY DEF rollback, memory, pass, others
<1>u. DiskOK' /\ ShmOK' /\ CountOK' /\ DiskVersion'
  BY <1>0 DEF ModeInv, DiskOK, ShmOK, CountOK, DiskVersion, Frames
<1>1. PagerOK'
  BY <1>0, EmptyMap DEF ModeInv, rollback, PagerOK
<1>2. PagerVersion'
  BY <1>0, EmptyMap DEF ModeInv, rollback, PagerVersion
<1>3. CallInv'
  BY <1>0 DEF ModeInv, rollback, CallInv, Frames, Steps, ToWal, ToJournal, Logging
<1>4. CopyInv'
  <2>1. committed_pages(safe)' = committed_pages(safe)
    BY <1>0 DEF committed_pages, FramesOf, Frames
  <2> QED  BY <1>0, <2>1 DEF ModeInv, CopyInv
<1> QED  BY <1>u, <1>1, <1>2, <1>3, <1>4 DEF ModeInv

\* A rollback commit writes a page 1 that names the mode it found there.
LEMMA Keeps_flush_locked ==
  ASSUME ModeInv, flush_locked
  PROVE  ModeInv'
<1>0. UNCHANGED <<wal, path, inode, step, mode, held, fd, wal_pages, cached, safe, todo,
                  reader, faults, misnamed>>
  BY DEF flush_locked, memory, pass, others, Committing
<1>u. ShmOK'
  BY <1>0 DEF ModeInv, ShmOK
<1>f. /\ file' = [p \in Page |-> IF p \in DOMAIN dirty THEN dirty[p] ELSE file[p]]
      /\ dirty' = None /\ step = "idle" /\ mode = "legacy"
  BY DEF flush_locked
<1>v. file'[1].ver = file[1].ver
  <2>1. mode = file[1].ver /\ (1 \in DOMAIN dirty => dirty[1].ver = mode)
    BY <1>f DEF ModeInv, PagerVersion, Says
  <2> QED  BY <1>f, <2>1, PageOne
<1>1. DiskOK'
  BY <1>0, <1>f DEF ModeInv, DiskOK, PagerOK, SomePages
<1>2. PagerOK'
  BY <1>0, <1>f, EmptyMap DEF ModeInv, PagerOK
<1>3. CountOK'
  <2>1. /\ tx' = tx + 1
        /\ committed' = [p \in Page |-> IF p \in DOMAIN dirty THEN tx + 1 ELSE committed[p]]
    BY DEF flush_locked, Committing
  <2>2. tx + 1 \in Nat  BY SMTT(30) DEF ModeInv, CountOK
  <2> QED  BY <1>0, <2>1, <2>2 DEF ModeInv, CountOK
<1>4. DiskVersion'
  BY <1>0, <1>v DEF ModeInv, DiskVersion, Frames
<1>5. PagerVersion'
  BY <1>0, <1>f, <1>v, EmptyMap DEF ModeInv, PagerVersion
<1>6. CallInv'
    BY <1>0 DEF ModeInv, flush_locked, Committing, CallInv, Frames, Steps, ToWal,
              ToJournal, Logging
<1>7. CopyInv'
  <2>1. committed_pages(safe)' = committed_pages(safe)
    BY <1>0 DEF committed_pages, FramesOf, Frames
  <2> QED  BY <1>0, <2>1 DEF ModeInv, CopyInv
<1> QED  BY <1>u, <1>1, <1>2, <1>3, <1>4, <1>5, <1>6, <1>7 DEF ModeInv

\* A commit in WAL mode finds a log or creates an empty one.
LEMMA Keeps_flush_wal_locked ==
  ASSUME ModeInv, flush_wal_locked
  PROVE  ModeInv'
<1>0. UNCHANGED <<file, path, inode, mode, wal_pages, cached, dirty, safe, todo, reader,
                  committed, tx, faults, misnamed>>
  BY DEF flush_wal_locked, memory, pass, others
<1>u. CountOK'
  BY <1>0 DEF ModeInv, CountOK
<1>w. /\ step = "idle" /\ mode = "wal"
      /\ \/ wal # << >> /\ step' = "append" /\ wal' = wal
         \/ wal = << >> /\ step' = "recreate shm" /\ wal' = << << >> >>
  BY DEF flush_wal_locked
<1>e. wal = << >> => Frames' = << >> /\ Frames = << >>
  <2>1. wal' = << << >> >> => wal' # << >> /\ wal'[1] = << >>  BY SMTT(30)
  <2> QED  BY <1>w, <2>1 DEF Frames
<1>1. DiskOK'
  <2>1. << << >> >> \in Seq(Seq(Frame)) /\ Len(<< << >> >>) = 1  BY SMTT(30)
  <2> QED  BY <1>0, <1>w, <2>1 DEF ModeInv, DiskOK
<1>2. ShmOK'
  <2>1. CASE path = 0  BY <1>0, <2>1 DEF ModeInv, flush_wal_locked, ShmOK
  <2>2. CASE path # 0
    <3>1. held' = held \cup {"wal_shm"} /\ fd' = IF fd # 0 THEN fd ELSE path
      BY <2>2 DEF flush_wal_locked, Hold, open_shm_shared
    <3>2. fd' # 0 /\ fd' \in Inode  BY <2>2, <3>1 DEF ModeInv, ShmOK
    <3>3. held' # {} /\ held' \subseteq {"wal_lock", "wal_shm"}  BY <3>1 DEF ModeInv, ShmOK
    <3> QED  BY <1>0, <3>2, <3>3 DEF ModeInv, ShmOK
  <2> QED  BY <2>1, <2>2
<1>3. PagerOK'
  BY <1>0 DEF ModeInv, flush_wal_locked, PagerOK, Steps, ToWal, ToJournal, Logging
<1>4. DiskVersion'
  <2>1. CASE wal # << >>  BY <1>0, <1>w, <2>1 DEF ModeInv, DiskVersion, Frames
  <2>2. CASE wal = << >>
    <3>1. Frames' = << >> /\ DOMAIN Frames' = {}  BY <1>e, <2>2, SMTT(30)
    <3> QED  BY <1>0, <3>1 DEF ModeInv, DiskVersion
  <2> QED  BY <2>1, <2>2
<1>5. PagerVersion'
  BY <1>0 DEF ModeInv, flush_wal_locked, PagerVersion
<1>6. CallInv'
  <2>1. wal' # << >>
    <3>1. << << >> >> # << >>  BY SMTT(30)
    <3> QED  BY <1>w, <3>1
  <2>2. step' \in Logging /\ step' \notin ToWal \cup ToJournal /\ step' # "closed"
    BY <1>w DEF Logging, ToWal, ToJournal
  <2>3. step' \notin {"delete shm", "say legacy"}  BY <1>w
  <2> QED  BY <1>0, <1>w, <2>1, <2>2, <2>3 DEF CallInv
<1>7. CopyInv'
  BY <1>0 DEF ModeInv, flush_wal_locked, CopyInv
<1> QED  BY <1>u, <1>1, <1>2, <1>3, <1>4, <1>5, <1>6, <1>7 DEF ModeInv

\* A recreated log gets a -shm file.
LEMMA Keeps_recreate_wal_locked ==
  ASSUME ModeInv, recreate_wal_locked
  PROVE  ModeInv'
<1>0. UNCHANGED <<file, wal, mode, wal_pages, cached, dirty, safe, todo, committed, tx,
                  faults, misnamed>>
  BY DEF recreate_wal_locked, memory, pass, others, WriteFreshShm
<1>u. DiskOK' /\ CountOK' /\ DiskVersion'
  BY <1>0 DEF ModeInv, DiskOK, CountOK, DiskVersion, Frames
<1>1. ShmOK'
  <2>1. ShmToWrite \in Inode  BY ShmIsAnInode DEF ModeInv
  <2>2. path' = ShmToWrite /\ inode' = [inode EXCEPT ![ShmToWrite] = fresh_shm_bytes]
    BY DEF recreate_wal_locked, WriteFreshShm
  <2>3. held' = held \cup {"wal_shm"} /\ fd' = IF fd # 0 THEN fd ELSE ShmToWrite
    BY DEF recreate_wal_locked, Hold
  <2>4. fd' \in Inode /\ fd' # 0
    <3>1. 0 \notin Inode  BY SMTT(30) DEF Inode
    <3> QED  BY <2>1, <2>3, <3>1 DEF ModeInv, ShmOK
  <2>5. inode' \in [Inode -> [mx : Nat, backfill : Nat]]
    <3>1. fresh_shm_bytes \in [mx : Nat, backfill : Nat]  BY SMTT(30) DEF fresh_shm_bytes
    <3> QED  BY <2>2, <3>1 DEF ModeInv, ShmOK
  <2>6. held' # {} /\ held' \subseteq {"wal_lock", "wal_shm"}  BY <2>3 DEF ModeInv, ShmOK
  <2>r. \A i \in DOMAIN reader' :
          i = 1 /\ reader'[i].fd \in {0} \cup Inode /\ reader'[i].mark \in Nat
    BY MarksCleared DEF ModeInv, recreate_wal_locked
  <2> QED  BY <1>0, <2>r, <2>1, <2>2, <2>4, <2>5, <2>6 DEF ModeInv, ShmOK
<1>2. PagerOK'
    BY <1>0 DEF ModeInv, recreate_wal_locked, WriteFreshShm, PagerOK, Steps, ToWal,
              ToJournal, Logging
<1>3. PagerVersion'
  BY <1>0 DEF ModeInv, recreate_wal_locked, WriteFreshShm, PagerVersion
<1>4. CallInv'
    BY <1>0 DEF ModeInv, recreate_wal_locked, WriteFreshShm, CallInv, Frames, Steps,
              ToWal, ToJournal, Logging
<1>5. CopyInv'
  BY <1>0 DEF ModeInv, recreate_wal_locked, WriteFreshShm, CopyInv
<1> QED  BY <1>u, <1>1, <1>2, <1>3, <1>4, <1>5 DEF ModeInv

\* A commit in WAL mode appends frames of page 1 that name WAL mode.
LEMMA Keeps_append_frames ==
  ASSUME ModeInv, append_frames
  PROVE  ModeInv'
<1>0. UNCHANGED <<file, path, inode, mode, held, fd, wal_pages, cached, dirty, safe, todo,
                  reader, faults, misnamed>>
  BY DEF append_frames, memory, pass, others, Committing
<1>u. ShmOK'
  BY <1>0 DEF ModeInv, ShmOK
<1> DEFINE n == Cardinality(DOMAIN dirty)
<1>n. n \in Nat
  <2>1. IsFiniteSet(Page)
    <3>1. NPages \in Int /\ 1 \in Int  BY ModeConstants, SMTT(30)
    <3> QED  BY <3>1, FS_Interval DEF Page
  <2> QED  BY <2>1, FS_Subset, FS_CardinalityType DEF ModeInv, PagerOK, SomePages
<1>l. PICK pages \in [1 .. n -> DOMAIN dirty] :
        wal' = <<wal[1] \o [i \in 1 .. n |-> [page |-> pages[i], content |-> dirty[pages[i]]]]>>
  BY DEF append_frames
<1> DEFINE new == [i \in 1 .. n |-> [page |-> pages[i], content |-> dirty[pages[i]]]]
<1> HIDE DEF n
<1>m. step = "append" /\ step' = "publish" /\ mode = "wal" /\ wal # << >> /\ Frames = wal[1]
  BY DEF append_frames, ModeInv, CallInv, Logging, Frames
<1>s. \A i \in 1 .. n : /\ new[i] \in Frame /\ (new[i].page = 1 => new[i].content.ver = "wal")
  <2> TAKE i \in 1 .. n
  <2>1. new[i] = [page |-> pages[i], content |-> dirty[pages[i]]]  OBVIOUS
  <2>2. pages[i] \in DOMAIN dirty  OBVIOUS
  <2>3. pages[i] \in Page /\ dirty[pages[i]] \in Content
    BY <2>2 DEF ModeInv, PagerOK, SomePages
  <2>4. pages[i] = 1 => dirty[pages[i]].ver = "wal"
    BY <1>m, <2>2 DEF ModeInv, PagerVersion, Says
  <2> HIDE DEF new
  <2>5. new[i].page = pages[i] /\ new[i].content = dirty[pages[i]]  BY <2>1, SMTT(30)
  <2> QED  BY <2>1, <2>3, <2>4, <2>5, SMTT(30) DEF Frame
<1>t. new \in Seq(Frame) /\ Len(new) = n
  <2>1. DOMAIN new = 1 .. n  OBVIOUS
  <2>2. new = [i \in 1 .. n |-> new[i]]  OBVIOUS
  <2> HIDE DEF new
  <2> QED  BY <1>n, <1>s, <2>1, <2>2, SMTT(30)
<1> HIDE DEF new
<1>x. /\ wal' = <<Frames \o new>> /\ wal' # << >> /\ Frames' = Frames \o new
      /\ Frames' \in Seq(Frame)
  <2>1. wal' = <<Frames \o new>>  BY <1>l, <1>m DEF new
  <2>2. wal' # << >> /\ wal'[1] = Frames \o new  BY <2>1, SMTT(30)
  <2>3. Frames \o new \in Seq(Frame)  BY <1>t, LogFrames, SMTT(30) DEF ModeInv
  <2> QED  BY <2>1, <2>2, <2>3 DEF Frames
<1>1. DiskOK'
  <2>1. \A s \in Seq(Frame) : <<s>> \in Seq(Seq(Frame)) /\ Len(<<s>>) = 1  BY SMTT(30)
  <2> QED  BY <1>0, <1>x, <2>1 DEF ModeInv, DiskOK
<1>2. PagerOK'
  BY <1>0 DEF ModeInv, append_frames, Committing, PagerOK, Steps, ToWal, ToJournal, Logging
<1>3. CountOK'
  <2>1. /\ tx' = tx + 1
        /\ committed' = [p \in Page |-> IF p \in DOMAIN dirty THEN tx + 1 ELSE committed[p]]
    BY DEF append_frames, Committing
  <2>2. tx + 1 \in Nat  BY SMTT(30) DEF ModeInv, CountOK
  <2> QED  BY <1>0, <2>1, <2>2 DEF ModeInv, CountOK
<1>4. DiskVersion'
  <2>1. file[1].ver = "wal"  BY <1>m DEF ModeInv, PagerVersion
  <2>2. \A i \in DOMAIN Frames' :
          (i \in DOMAIN Frames /\ Frames'[i] = Frames[i])
          \/ \E j \in 1 .. n : Frames'[i] = new[j]
    <3>1. Frames \in Seq(Frame) /\ Len(Frames) \in Nat  BY LogFrames DEF ModeInv
    <3> TAKE i \in DOMAIN Frames'
    <3>2. DOMAIN Frames' = 1 .. Len(Frames) + n
      <4>1. DOMAIN (Frames \o new) = 1 .. Len(Frames) + Len(new)  BY <1>t, <3>1, SMTT(30)
      <4> QED  BY <1>t, <1>x, <4>1
    <3>3. CASE i \in 1 .. Len(Frames)  BY <1>t, <1>x, <1>n, <3>1, <3>3, SMTT(30)
    <3>4. CASE i \notin 1 .. Len(Frames)
      <4>1. i - Len(Frames) \in 1 .. n  BY <3>1, <3>2, <3>4, <1>n, SMTT(30)
      <4>2. Frames'[i] = new[i - Len(Frames)]
        BY <1>t, <1>x, <1>n, <3>1, <3>2, <3>4, SMTT(30)
      <4> QED  BY <4>1, <4>2
    <3> QED  BY <3>3, <3>4
  <2> QED  BY <1>0, <1>s, <2>1, <2>2 DEF ModeInv, DiskVersion
<1>5. PagerVersion'
  BY <1>0 DEF ModeInv, append_frames, Committing, PagerVersion
<1>6. CallInv'
  <2>1. step' \in Logging /\ step' \notin ToWal \cup ToJournal /\ step' # "closed"
    BY <1>m DEF Logging, ToWal, ToJournal
  <2>2. step' \notin {"delete shm", "say legacy"}  BY <1>m
  <2> QED  BY <1>0, <1>m, <1>x, <2>1, <2>2 DEF CallInv
<1>7. CopyInv'
  BY <1>0 DEF ModeInv, append_frames, Committing, CopyInv
<1> QED  BY <1>u, <1>1, <1>2, <1>3, <1>4, <1>5, <1>6, <1>7 DEF ModeInv

\* The end of a WAL commit moves the dirty pages to the overlay.
LEMMA Keeps_publish_mx_frame ==
  ASSUME ModeInv, publish_mx_frame
  PROVE  ModeInv'
<1>0. UNCHANGED <<file, wal, path, mode, held, fd, cached, safe, todo, reader, committed,
                  tx, faults, misnamed>>
  BY DEF publish_mx_frame, memory, pass, others
<1>u. DiskOK' /\ CountOK' /\ DiskVersion'
  BY <1>0 DEF ModeInv, DiskOK, CountOK, DiskVersion, Frames
<1>m. /\ mode = "wal" /\ step' = "idle"
      /\ wal_pages' = Over(dirty, wal_pages) /\ dirty' = None
  BY DEF publish_mx_frame, ModeInv, CallInv, Logging
<1>1. ShmOK'
  <2>1. CASE "wal_shm" \notin held  BY <1>0, <2>1 DEF ModeInv, publish_mx_frame, ShmOK
  <2>2. CASE "wal_shm" \in held
    <3>1. fd \in Inode  BY <2>2 DEF ModeInv, ShmOK
    <3>2. inode' = [inode EXCEPT ![fd].mx = Len(Frames)]  BY <2>2 DEF publish_mx_frame
    <3>3. inode' \in [Inode -> [mx : Nat, backfill : Nat]]
      BY <3>1, <3>2, LogFrames, SMTT(30) DEF ModeInv, ShmOK
    <3> QED  BY <1>0, <3>3 DEF ModeInv, ShmOK
  <2> QED  BY <2>1, <2>2
<1>2. PagerOK'
  <2>1. SomePages(wal_pages') /\ SomePages(dirty')
    BY <1>m, EmptyMap, MapsOfPages DEF ModeInv, PagerOK
  <2> QED  BY <1>0, <1>m, <2>1 DEF ModeInv, PagerOK, Steps
<1>3. PagerVersion'
  <2>1. Says(wal_pages', "wal") /\ Says(dirty', mode)
    BY <1>m, EmptyMap, MapsSay DEF ModeInv, PagerVersion
  <2>2. mode = file[1].ver  BY DEF ModeInv, PagerVersion, publish_mx_frame
  <2> QED  BY <1>0, <1>m, <2>1, <2>2 DEF ModeInv, PagerVersion
<1>4. CallInv'
  BY <1>0 DEF ModeInv, publish_mx_frame, CallInv, Frames, Steps, ToWal, ToJournal, Logging
<1>5. CopyInv'
  BY <1>0 DEF ModeInv, publish_mx_frame, CopyInv
<1> QED  BY <1>u, <1>1, <1>2, <1>3, <1>4, <1>5 DEF ModeInv

\* Switching to WAL mode starts with an empty log.
LEMMA Keeps_switch_journal_to_wal ==
  ASSUME ModeInv, switch_journal_to_wal
  PROVE  ModeInv'
<1>0. UNCHANGED <<file, path, inode, mode, held, fd, wal_pages, cached, dirty, safe, todo,
                  reader, committed, tx, faults, misnamed>>
  BY DEF switch_journal_to_wal, memory, pass, others, MaySwitch
<1>u. ShmOK' /\ CountOK'
  BY <1>0 DEF ModeInv, ShmOK, CountOK
<1>w. /\ step = "idle" /\ DOMAIN dirty = {} /\ mode = "legacy" /\ step' = "fresh shm"
      /\ wal' = << << >> >>
  BY DEF switch_journal_to_wal, MaySwitch, ModeInv, PagerOK
<1>e. Frames' = << >>
  <2>1. wal' = << << >> >> => wal' # << >> /\ wal'[1] = << >>  BY SMTT(30)
  <2> QED  BY <1>w, <2>1 DEF Frames
<1>1. DiskOK'
  <2>1. << << >> >> \in Seq(Seq(Frame)) /\ Len(<< << >> >>) = 1  BY SMTT(30)
  <2> QED  BY <1>0, <1>w, <2>1 DEF ModeInv, DiskOK
<1>2. PagerOK'
    BY <1>0 DEF ModeInv, switch_journal_to_wal, MaySwitch, PagerOK, Steps, ToWal,
              ToJournal, Logging
<1>3. DiskVersion'
  <2>1. DOMAIN Frames' = {}  BY <1>e, SMTT(30)
  <2> QED  BY <1>0, <1>e, <2>1 DEF ModeInv, DiskVersion
<1>4. PagerVersion'
  BY <1>0 DEF ModeInv, switch_journal_to_wal, MaySwitch, PagerVersion
<1>5. CallInv'
  <2>1. step' \in ToWal /\ step' \notin Logging \cup ToJournal /\ step' # "closed"
    BY <1>w DEF Logging, ToWal, ToJournal
  <2>2. step' \notin {"delete shm", "say legacy"}  BY <1>w
  <2> QED  BY <1>0, <1>e, <1>w, <2>1, <2>2 DEF CallInv
<1>6. CopyInv'
  BY <1>0 DEF ModeInv, switch_journal_to_wal, MaySwitch, CopyInv
<1> QED  BY <1>u, <1>1, <1>2, <1>3, <1>4, <1>5, <1>6 DEF ModeInv

\* Switching to WAL mode then writes a fresh -shm file.
LEMMA Keeps_write_fresh_shm ==
  ASSUME ModeInv, write_fresh_shm
  PROVE  ModeInv'
<1>0. UNCHANGED <<file, wal, mode, wal_pages, cached, dirty, safe, todo, committed, tx,
                  faults, misnamed>>
  BY DEF write_fresh_shm, memory, pass, others, WriteFreshShm
<1>u. DiskOK' /\ CountOK' /\ DiskVersion'
  BY <1>0 DEF ModeInv, DiskOK, CountOK, DiskVersion, Frames
<1>1. ShmOK'
  <2>1. ShmToWrite \in Inode  BY ShmIsAnInode DEF ModeInv
  <2>2. path' = ShmToWrite /\ inode' = [inode EXCEPT ![ShmToWrite] = fresh_shm_bytes]
    BY DEF write_fresh_shm, WriteFreshShm
  <2>3. held' = held \ {"wal_shm"} /\ fd' = IF held' = {} THEN 0 ELSE fd
    BY DEF write_fresh_shm, Hold
  <2>4. inode' \in [Inode -> [mx : Nat, backfill : Nat]]
    <3>1. fresh_shm_bytes \in [mx : Nat, backfill : Nat]  BY SMTT(30) DEF fresh_shm_bytes
    <3> QED  BY <2>2, <3>1 DEF ModeInv, ShmOK
  <2>5. /\ held' \subseteq {"wal_lock", "wal_shm"} /\ fd' \in {0} \cup Inode
        /\ (fd' = 0) = (held' = {})
    BY <2>3 DEF ModeInv, ShmOK
  <2>r. \A i \in DOMAIN reader' :
          i = 1 /\ reader'[i].fd \in {0} \cup Inode /\ reader'[i].mark \in Nat
    BY MarksCleared DEF ModeInv, write_fresh_shm
  <2> QED  BY <1>0, <2>r, <2>1, <2>2, <2>4, <2>5 DEF ModeInv, ShmOK
<1>2. PagerOK'
    BY <1>0 DEF ModeInv, write_fresh_shm, WriteFreshShm, PagerOK, Steps, ToWal, ToJournal,
              Logging
<1>3. PagerVersion'
  BY <1>0 DEF ModeInv, write_fresh_shm, WriteFreshShm, PagerVersion
<1>4. CallInv'
    BY <1>0 DEF ModeInv, write_fresh_shm, WriteFreshShm, CallInv, Frames, Steps, ToWal,
              ToJournal, Logging
<1>5. CopyInv'
  BY <1>0 DEF ModeInv, write_fresh_shm, WriteFreshShm, CopyInv
<1> QED  BY <1>u, <1>1, <1>2, <1>3, <1>4, <1>5 DEF ModeInv

\* Leaving WAL mode starts by giving up the reader mark.
LEMMA Keeps_switch_wal_to_journal ==
  ASSUME ModeInv, switch_wal_to_journal
  PROVE  ModeInv'
<1>0. UNCHANGED <<file, wal, path, inode, mode, wal_pages, cached, dirty, safe, todo,
                  reader, committed, tx, faults, misnamed>>
  BY DEF switch_wal_to_journal, memory, pass, others, MaySwitch
<1>u. DiskOK' /\ CountOK' /\ DiskVersion'
  BY <1>0 DEF ModeInv, DiskOK, CountOK, DiskVersion, Frames
<1>1. ShmOK'
  BY <1>0 DEF ModeInv, switch_wal_to_journal, MaySwitch, ShmOK, Hold
<1>2. PagerOK'
    BY <1>0 DEF ModeInv, switch_wal_to_journal, MaySwitch, PagerOK, Steps, ToWal,
              ToJournal, Logging
<1>3. PagerVersion'
  BY <1>0 DEF ModeInv, switch_wal_to_journal, MaySwitch, PagerVersion
<1>4. CallInv'
  <2>1. mode = "wal" /\ DOMAIN dirty = {} /\ step' = "pass"
    BY DEF switch_wal_to_journal, MaySwitch, ModeInv, PagerOK
  <2>2. step' \notin ToWal \cup Logging /\ step' # "closed"
    BY <2>1 DEF Logging, ToWal, ToJournal
  <2>3. step' \notin {"delete shm", "say legacy"}  BY <2>1
  <2> QED  BY <1>0, <2>1, <2>2, <2>3 DEF CallInv
<1>5. CopyInv'
  BY <1>0 DEF ModeInv, switch_wal_to_journal, MaySwitch, CopyInv
<1> QED  BY <1>u, <1>1, <1>2, <1>3, <1>4, <1>5 DEF ModeInv

\* A checkpoint pass copies pages that the log has.
LEMMA Keeps_begin_pass ==
  ASSUME ModeInv, begin_pass
  PROVE  ModeInv'
<1>0. UNCHANGED <<file, wal, path, inode, mode, held, fd, wal_pages, cached, dirty,
                  reader, committed, tx, faults, misnamed>>
  BY DEF begin_pass, memory, pass, others
<1>u. DiskOK' /\ ShmOK' /\ CountOK' /\ DiskVersion'
  BY <1>0 DEF ModeInv, DiskOK, ShmOK, CountOK, DiskVersion, Frames
<1>1. PagerOK'
  <2>1. safe' \in Nat  BY SafeIsANumber DEF ModeInv, begin_pass
  <2>2. todo' \subseteq Page
    BY PagesComeFromFrames DEF ModeInv, begin_pass, SomePages
  <2>3. step' \in Steps  BY DEF begin_pass, Steps, ToJournal
  <2> QED  BY <1>0, <2>1, <2>2, <2>3 DEF ModeInv, PagerOK
<1>2. PagerVersion'
  BY <1>0 DEF ModeInv, begin_pass, PagerVersion
<1>3. CallInv'
  BY <1>0 DEF ModeInv, begin_pass, CallInv, Frames, Steps, ToWal, ToJournal, Logging
<1>4. CopyInv'
  <2>1. safe' = SafeFrame /\ todo' = DOMAIN committed_pages(SafeFrame)  BY DEF begin_pass
  <2>2. \A k : committed_pages(k)' = committed_pages(k)
    BY <1>0 DEF committed_pages, FramesOf, Frames
  <2> QED  BY <2>1, <2>2 DEF CopyInv
<1> QED  BY <1>u, <1>1, <1>2, <1>3, <1>4 DEF ModeInv

\* Copying page 1 from the log leaves its mode as it is: both say WAL.
LEMMA Keeps_copy_page ==
  ASSUME ModeInv, copy_page
  PROVE  ModeInv'
<1>0. UNCHANGED <<wal, path, inode, step, mode, held, fd, wal_pages, cached, dirty, safe,
                  reader, committed, tx, faults, misnamed>>
  BY DEF copy_page, memory, pass, others
<1>u. ShmOK' /\ CountOK' /\ CallInv'
  BY <1>0 DEF ModeInv, ShmOK, CountOK, CallInv, Frames
<1>p. PICK p \in todo : /\ file' = [file EXCEPT ![p] = committed_pages(safe)[p]]
                        /\ todo' = todo \ {p}
  BY DEF copy_page
<1>c. p \in DOMAIN committed_pages(safe) /\ committed_pages(safe)[p] \in Content
  BY PagesComeFromFrames DEF ModeInv, CopyInv, copy_page, SomePages
<1>v. file'[1].ver = file[1].ver
  <2>1. p = 1 => committed_pages(safe)[p].ver = "wal" /\ file[1].ver = "wal"
    BY <1>c, LogSays DEF ModeInv, Says
  <2> QED  BY <1>p, <2>1, PageOne DEF ModeInv, DiskOK
<1>1. DiskOK'
  BY <1>0, <1>p, <1>c DEF ModeInv, DiskOK
<1>2. PagerOK'
  BY <1>0, <1>p DEF ModeInv, PagerOK
<1>3. DiskVersion'
  BY <1>0, <1>v DEF ModeInv, DiskVersion, Frames
<1>4. PagerVersion'
  BY <1>0, <1>v DEF ModeInv, PagerVersion
<1>5. CopyInv'
  <2>1. committed_pages(safe)' = committed_pages(safe)
    BY <1>0 DEF committed_pages, FramesOf, Frames
  <2> QED  BY <1>0, <1>p, <2>1 DEF ModeInv, CopyInv
<1> QED  BY <1>u, <1>1, <1>2, <1>3, <1>4, <1>5 DEF ModeInv

\* The end of a pass counts its frames in -shm.
LEMMA Keeps_publish_backfill ==
  ASSUME ModeInv, publish_backfill
  PROVE  ModeInv'
<1>0. UNCHANGED <<file, wal, path, mode, held, fd, wal_pages, cached, dirty, safe, todo,
                  reader, committed, tx, faults, misnamed>>
  BY DEF publish_backfill, memory, pass, others
<1>u. DiskOK' /\ CountOK' /\ DiskVersion'
  BY <1>0 DEF ModeInv, DiskOK, CountOK, DiskVersion, Frames
<1>1. ShmOK'
  <2>1. CASE path = 0  BY <1>0, <2>1 DEF ModeInv, publish_backfill, ShmOK
  <2>2. CASE path # 0
    <3>1. open_shm_shared \in Inode  BY <2>2 DEF ModeInv, ShmOK, open_shm_shared
    <3>2. inode' = [inode EXCEPT ![open_shm_shared].backfill = safe]
      BY <2>2 DEF publish_backfill
    <3>3. inode' \in [Inode -> [mx : Nat, backfill : Nat]]
      BY <3>1, <3>2, SMTT(30) DEF ModeInv, ShmOK, PagerOK
    <3> QED  BY <1>0, <3>3 DEF ModeInv, ShmOK
  <2> QED  BY <2>1, <2>2
<1>2. PagerOK'
  BY <1>0 DEF ModeInv, publish_backfill, PagerOK, Steps, ToWal, ToJournal, Logging
<1>3. PagerVersion'
  BY <1>0 DEF ModeInv, publish_backfill, PagerVersion
<1>4. CallInv'
  BY <1>0 DEF ModeInv, publish_backfill, CallInv, Frames, Steps, ToWal, ToJournal, Logging
<1>5. CopyInv'
  BY <1>0 DEF ModeInv, publish_backfill, CopyInv
<1> QED  BY <1>u, <1>1, <1>2, <1>3, <1>4, <1>5 DEF ModeInv

\* A pass with nothing to copy ends the checkpoint or the call.
LEMMA Keeps_end_pass ==
  ASSUME ModeInv, end_pass
  PROVE  ModeInv'
<1>0. UNCHANGED <<file, wal, path, inode, mode, held, fd, wal_pages, cached, dirty, safe,
                  todo, reader, committed, tx, faults, misnamed>>
  BY DEF end_pass, memory, pass, others
<1>u. DiskOK' /\ ShmOK' /\ CountOK' /\ DiskVersion'
  BY <1>0 DEF ModeInv, DiskOK, ShmOK, CountOK, DiskVersion, Frames
<1>1. PagerOK'
  BY <1>0 DEF ModeInv, end_pass, PagerOK, Steps, ToWal, ToJournal, Logging
<1>2. PagerVersion'
  BY <1>0 DEF ModeInv, end_pass, PagerVersion
<1>3. CallInv'
  BY <1>0 DEF ModeInv, end_pass, CallInv, Frames, Steps, ToWal, ToJournal, Logging
<1>4. CopyInv'
  BY <1>0 DEF ModeInv, end_pass, CopyInv
<1> QED  BY <1>u, <1>1, <1>2, <1>3, <1>4 DEF ModeInv

\* Leaving WAL mode deletes the log.
LEMMA Keeps_delete_wal ==
  ASSUME ModeInv, delete_wal
  PROVE  ModeInv'
<1>0. UNCHANGED <<file, path, inode, mode, held, fd, wal_pages, cached, dirty, safe, todo,
                  reader, committed, tx, faults, misnamed>>
  BY DEF delete_wal, memory, pass, others
<1>u. ShmOK' /\ CountOK'
  BY <1>0 DEF ModeInv, ShmOK, CountOK
<1>1. DiskOK'
  BY <1>0 DEF ModeInv, delete_wal, DiskOK
<1>2. PagerOK'
  BY <1>0 DEF ModeInv, delete_wal, PagerOK, Steps, ToWal, ToJournal, Logging
<1>3. DiskVersion'
  <2>1. Frames' = << >> /\ DOMAIN << >> = {}
    BY EmptySeq DEF delete_wal, Frames
  <2> QED  BY <1>0, <2>1 DEF ModeInv, DiskVersion
<1>4. PagerVersion'
  BY <1>0 DEF ModeInv, delete_wal, PagerVersion
<1>5. CallInv'
  BY <1>0 DEF ModeInv, delete_wal, CallInv, Frames, Steps, ToWal, ToJournal, Logging
<1>6. CopyInv'
  BY <1>0 DEF ModeInv, delete_wal, CopyInv
<1> QED  BY <1>u, <1>1, <1>2, <1>3, <1>4, <1>5, <1>6 DEF ModeInv

\* Leaving WAL mode drops the overlay together with -shm.
LEMMA Keeps_delete_shm ==
  ASSUME ModeInv, delete_shm
  PROVE  ModeInv'
<1>0. UNCHANGED <<file, wal, inode, mode, cached, dirty, safe, todo, reader, committed,
                  tx, faults, misnamed>>
  BY DEF delete_shm, memory, pass, others
<1>u. DiskOK' /\ CountOK' /\ DiskVersion'
  BY <1>0 DEF ModeInv, DiskOK, CountOK, DiskVersion, Frames
<1>m. /\ step = "delete shm" /\ step' = "say legacy" /\ wal_pages' = None
      /\ mode = "wal" /\ wal = << >> /\ DOMAIN dirty = {}
  BY DEF delete_shm, ModeInv, CallInv, ToJournal
<1>1. ShmOK'
  BY <1>0 DEF ModeInv, delete_shm, ShmOK, Hold
<1>2. PagerOK'
  BY <1>0, <1>m, EmptyMap DEF ModeInv, PagerOK, Steps, ToJournal
<1>3. PagerVersion'
  BY <1>0, <1>m, EmptyMap DEF ModeInv, PagerVersion
<1>4. CallInv'
  <2>1. step' \notin ToWal \cup Logging /\ step' # "closed"
    BY <1>m DEF Logging, ToWal
  <2> QED  BY <1>0, <1>m, <2>1, EmptyMap DEF CallInv
<1>5. CopyInv'
  BY <1>0 DEF ModeInv, delete_shm, CopyInv
<1> QED  BY <1>u, <1>1, <1>2, <1>3, <1>4, <1>5 DEF ModeInv

\* Page 1 gets its new mode when nothing else in the pager or in the log holds page 1.
LEMMA Keeps_patch_page1 ==
  ASSUME ModeInv, NEW m \in {"legacy", "wal"}, patch_page1(m)
  PROVE  ModeInv'
<1>0. UNCHANGED <<wal, path, inode, held, fd, wal_pages, dirty, safe, todo, reader,
                  committed, tx, faults, misnamed>>
  BY DEF patch_page1, memory, pass, others
<1>u. ShmOK' /\ CountOK'
  BY <1>0 DEF ModeInv, ShmOK, CountOK
<1>m. /\ step' = "idle" /\ file' = [file EXCEPT ![1].ver = m] /\ mode' = m
      /\ cached' = NotIn(cached, 1)
  BY DEF patch_page1
<1>c. Frames = << >> /\ DOMAIN dirty = {} /\ DOMAIN wal_pages = {}
  <2>1. CASE m = "wal"
    <3>1. step \in ToWal  BY <2>1 DEF patch_page1, ToWal
    <3>2. mode = "legacy"  BY <3>1 DEF ModeInv, CallInv
    <3> QED  BY <3>1, <3>2 DEF ModeInv, CallInv, PagerVersion
  <2>2. CASE m = "legacy"
    <3>1. step = "say legacy" /\ step \in ToJournal
      BY <2>2 DEF patch_page1, ToJournal
    <3>2. wal = << >> /\ DOMAIN wal_pages = {}  BY <3>1 DEF ModeInv, CallInv
    <3> QED  BY <3>1, <3>2, LogFrames DEF ModeInv, CallInv
  <2> QED  BY <2>1, <2>2
<1>v. file' \in [Page -> Content] /\ file'[1].ver = m
  <2>1. file[1] \in Content  BY PageOne DEF ModeInv, DiskOK
  <2>2. [file[1] EXCEPT !.ver = m] \in Content /\ [file[1] EXCEPT !.ver = m].ver = m
    BY <2>1, SMTT(30) DEF Content
  <2>3. file' = [file EXCEPT ![1] = [file[1] EXCEPT !.ver = m]]  BY <1>m
  <2> QED  BY <2>2, <2>3, PageOne DEF ModeInv, DiskOK
<1>1. DiskOK'
  BY <1>0, <1>v DEF ModeInv, DiskOK
<1>2. PagerOK'
  <2>1. SomePages(cached')  BY <1>m, MapsOfPages DEF ModeInv, PagerOK
  <2> QED  BY <1>0, <1>m, <2>1 DEF ModeInv, PagerOK, Steps
<1>3. DiskVersion'
  <2>1. Frames' = << >> /\ DOMAIN << >> = {}
    BY <1>0, <1>c, EmptySeq DEF Frames
  <2> QED  BY <1>v, <2>1 DEF DiskVersion
<1>4. PagerVersion'
  <2>1. 1 \notin DOMAIN cached'  BY <1>m DEF NotIn
  <2> QED  BY <1>0, <1>c, <1>m, <1>v, <2>1 DEF PagerVersion, Says
<1>5. CallInv'
  BY <1>0 DEF ModeInv, patch_page1, CallInv, Frames, Steps, ToWal, ToJournal, Logging
<1>6. CopyInv'
  BY <1>0 DEF ModeInv, patch_page1, CopyInv
<1> QED  BY <1>u, <1>1, <1>2, <1>3, <1>4, <1>5, <1>6 DEF ModeInv

\* A switch or a commit that fails leaves a fresh -shm file, or none.
LEMMA Keeps_switch_fails ==
  ASSUME ModeInv, switch_fails
  PROVE  ModeInv'
<1>0. UNCHANGED <<file, wal, mode, held, fd, wal_pages, cached, dirty, safe, todo, committed, tx,
                  misnamed>>
  BY DEF switch_fails, memory, pass
<1>u. DiskOK' /\ DiskVersion'
  BY <1>0 DEF ModeInv, DiskOK, DiskVersion, Frames
<1>m. step' = "idle" /\ step # "closed"  BY DEF switch_fails, Fallible
<1>1. ShmOK'
  <2>1. CASE UNCHANGED <<path, inode, reader>>
    BY <1>0, <2>1 DEF ModeInv, ShmOK
  <2>2. CASE WriteFreshShm
    <3>1. ShmToWrite \in Inode  BY ShmIsAnInode DEF ModeInv
    <3>2. path' = ShmToWrite /\ inode' = [inode EXCEPT ![ShmToWrite] = fresh_shm_bytes]
      BY <2>2 DEF WriteFreshShm
    <3>3. fresh_shm_bytes \in [mx : Nat, backfill : Nat]  BY SMTT(30) DEF fresh_shm_bytes
    <3>4. inode' \in [Inode -> [mx : Nat, backfill : Nat]]
      BY <3>2, <3>3 DEF ModeInv, ShmOK
    <3>5. \A i \in DOMAIN reader' :
            i = 1 /\ reader'[i].fd \in {0} \cup Inode /\ reader'[i].mark \in Nat
      BY <2>2, MarksCleared DEF ModeInv
    <3> QED  BY <1>0, <3>1, <3>2, <3>4, <3>5 DEF ModeInv, ShmOK
  <2> QED  BY <2>1, <2>2 DEF switch_fails
<1>2. PagerOK'
  BY <1>0, <1>m DEF ModeInv, PagerOK, Steps
<1>3. CountOK'
  <2>1. faults + 1 \in Nat  BY SMTT(30) DEF ModeInv, CountOK
  <2> QED  BY <1>0, <2>1 DEF ModeInv, CountOK, switch_fails, Fault
<1>4. PagerVersion'
  BY <1>0, <1>m DEF ModeInv, PagerVersion
<1>5. CallInv'
  <2>1. step' \notin ToWal \cup ToJournal \cup Logging \cup {"closed", "delete shm", "say legacy"}
    BY <1>m DEF ToWal, ToJournal, Logging
  <2> QED  BY <2>1 DEF CallInv
<1>6. CopyInv'
  BY <1>m DEF CopyInv
<1> QED  BY <1>u, <1>1, <1>2, <1>3, <1>4, <1>5, <1>6 DEF ModeInv

\* Dropping the pager forgets what it held in memory.
LEMMA Keeps_Close ==
  ASSUME ModeInv, Close
  PROVE  ModeInv'
<1>0. UNCHANGED <<file, wal, path, inode, reader, committed, tx, faults, misnamed>>
  BY DEF Close, memory, pass, others, Forget
<1>u. DiskOK' /\ CountOK' /\ DiskVersion'
  BY <1>0 DEF ModeInv, DiskOK, CountOK, DiskVersion, Frames
<1>f. /\ step' = "closed" /\ mode' = "legacy" /\ wal_pages' = None /\ cached' = None
      /\ dirty' = None /\ safe' = 0 /\ todo' = {}
  BY DEF Close, Forget
<1>1. ShmOK'
  BY <1>0 DEF ModeInv, Close, Forget, ShmOK, Hold
<1>2. PagerOK'
  <2>1. safe' \in Nat  BY <1>f, SMTT(30)
  <2> QED  BY <1>f, <2>1, EmptyMap DEF PagerOK, Steps
<1>3. PagerVersion'
  BY <1>f, EmptyMap DEF PagerVersion
<1>4. CallInv'
  <2>1. step' \notin ToWal \cup ToJournal \cup Logging \cup {"delete shm", "say legacy"}
    BY <1>f DEF ToWal, ToJournal, Logging
  <2> QED  BY <1>f, <2>1, EmptyMap DEF CallInv
<1>5. CopyInv'
  BY <1>f DEF CopyInv
<1> QED  BY <1>u, <1>1, <1>2, <1>3, <1>4, <1>5 DEF ModeInv

\* A death leaves the files as they are.
LEMMA Keeps_Die ==
  ASSUME ModeInv, Die
  PROVE  ModeInv'
<1>0. UNCHANGED <<file, wal, path, inode, reader, committed, tx, misnamed>>
  BY DEF Die, memory, pass, others, Forget
<1>u. DiskOK' /\ DiskVersion'
  BY <1>0 DEF ModeInv, DiskOK, DiskVersion, Frames
<1>f. /\ step' = "closed" /\ mode' = "legacy" /\ wal_pages' = None /\ cached' = None
      /\ dirty' = None /\ safe' = 0 /\ todo' = {}
  BY DEF Die, Forget
<1>1. ShmOK'
  BY <1>0 DEF ModeInv, Die, Forget, ShmOK, Hold
<1>2. PagerOK'
  <2>1. safe' \in Nat  BY <1>f, SMTT(30)
  <2> QED  BY <1>f, <2>1, EmptyMap DEF PagerOK, Steps
<1>3. CountOK'
  <2>1. faults + 1 \in Nat  BY SMTT(30) DEF ModeInv, CountOK
  <2> QED  BY <1>0, <2>1 DEF ModeInv, CountOK, Die, Fault
<1>4. PagerVersion'
  BY <1>f, EmptyMap DEF PagerVersion
<1>5. CallInv'
  <2>1. step' \notin ToWal \cup ToJournal \cup Logging \cup {"delete shm", "say legacy"}
    BY <1>f DEF ToWal, ToJournal, Logging
  <2> QED  BY <1>f, <2>1, EmptyMap DEF CallInv
<1>6. CopyInv'
  BY <1>f DEF CopyInv
<1> QED  BY <1>u, <1>1, <1>2, <1>3, <1>4, <1>5, <1>6 DEF ModeInv

\* A reader of another process takes a mark.
LEMMA Keeps_OpenReader ==
  ASSUME ModeInv, OpenReader
  PROVE  ModeInv'
<1>0. UNCHANGED <<file, wal, path, inode, step, mode, held, fd, wal_pages, cached, dirty,
                  safe, todo, committed, tx, faults, misnamed>>
  BY DEF OpenReader, memory, pass, others
<1>u. DiskOK' /\ PagerOK' /\ CountOK' /\ DiskVersion' /\ PagerVersion' /\ CallInv'
  BY <1>0 DEF ModeInv, DiskOK, PagerOK, CountOK, DiskVersion, PagerVersion, CallInv, Frames
<1>1. ShmOK'
  <2> DEFINE r == [fd |-> path, mark |-> IF path = 0 THEN 0 ELSE inode[path].mx,
                   wal_pages |-> read_wal_pages, snapshot |-> committed]
  <2>1. reader' = <<r>>  BY DEF OpenReader
  <2>2. r.fd = path /\ r.mark = IF path = 0 THEN 0 ELSE inode[path].mx  OBVIOUS
  <2>3. r.mark \in Nat  BY <2>2, SMTT(30) DEF ModeInv, ShmOK
  <2> HIDE DEF r
  <2>4. DOMAIN reader' = {1} /\ reader'[1] = r  BY <2>1, SMTT(30)
  <2>5. \A i \in DOMAIN reader' : i = 1  BY <2>4
  <2> QED  BY <1>0, <2>2, <2>3, <2>4, <2>5 DEF ModeInv, ShmOK
<1>2. CopyInv'
  <2>1. committed_pages(safe)' = committed_pages(safe)
    BY <1>0 DEF committed_pages, FramesOf, Frames
  <2> QED  BY <1>0, <2>1 DEF ModeInv, CopyInv
<1> QED  BY <1>u, <1>1, <1>2 DEF ModeInv

\* A reader of another process closes.
LEMMA Keeps_CloseReader ==
  ASSUME ModeInv, CloseReader
  PROVE  ModeInv'
<1>0. UNCHANGED <<file, wal, path, inode, step, mode, held, fd, wal_pages, cached, dirty,
                  safe, todo, committed, tx, faults, misnamed>>
  BY DEF CloseReader, memory, pass, others
<1>u. DiskOK' /\ PagerOK' /\ CountOK' /\ DiskVersion' /\ PagerVersion' /\ CallInv'
  BY <1>0 DEF ModeInv, DiskOK, PagerOK, CountOK, DiskVersion, PagerVersion, CallInv, Frames
<1>1. ShmOK'
  <2>1. DOMAIN reader' = {}  BY EmptySeq DEF CloseReader
  <2> QED  BY <1>0, <2>1 DEF ModeInv, ShmOK
<1>2. CopyInv'
  <2>1. committed_pages(safe)' = committed_pages(safe)
    BY <1>0 DEF committed_pages, FramesOf, Frames
  <2> QED  BY <1>0, <2>1 DEF ModeInv, CopyInv
<1> QED  BY <1>u, <1>1, <1>2 DEF ModeInv

\* A stock connection copies the whole log before deleting it.
LEMMA Keeps_StockClose ==
  ASSUME ModeInv, StockClose
  PROVE  ModeInv'
<1>0. UNCHANGED <<step, mode, held, fd, wal_pages, cached, dirty, safe, todo, reader,
                  committed, tx, faults, misnamed>>
  BY DEF StockClose, memory, pass, others
<1>u. PagerOK' /\ CountOK'
  BY <1>0 DEF ModeInv, PagerOK, CountOK
<1>f. /\ path # 0 /\ wal' = << >> /\ path' = 0
      /\ file' = [p \in Page |-> IF p \in DOMAIN read_wal_pages THEN read_wal_pages[p] ELSE file[p]]
      /\ inode' = [inode EXCEPT ![path].backfill = Len(Frames)]
  BY DEF StockClose
<1>v. file'[1].ver = file[1].ver
  <2>1. 1 \in DOMAIN read_wal_pages => read_wal_pages[1].ver = "wal" /\ file[1].ver = "wal"
    BY LogSays DEF ModeInv, Says, read_wal_pages
  <2> QED  BY <1>f, <2>1, PageOne
<1>e. step \in {"closed", "idle"}  BY DEF StockClose
<1>1. DiskOK'
  <2>1. SomePages(read_wal_pages)  BY PagesComeFromFrames DEF ModeInv, read_wal_pages
  <2> QED  BY <1>f, <2>1 DEF ModeInv, DiskOK, SomePages
<1>2. ShmOK'
  <2>1. path \in Inode  BY <1>f DEF ModeInv, ShmOK
  <2>2. inode' \in [Inode -> [mx : Nat, backfill : Nat]]
    <3>1. Len(Frames) \in Nat  BY LogFrames DEF ModeInv
    <3>2. inode \in [Inode -> [mx : Nat, backfill : Nat]]  BY DEF ModeInv, ShmOK
    <3> QED  BY <1>f, <2>1, <3>1, <3>2, SMTT(30)
  <2> QED  BY <1>0, <1>f, <2>2 DEF ModeInv, ShmOK
<1>3. DiskVersion'
  <2>1. Frames' = << >> /\ DOMAIN << >> = {}
    BY <1>f, EmptySeq DEF Frames
  <2> QED  BY <1>v, <2>1 DEF ModeInv, DiskVersion
<1>4. PagerVersion'
  BY <1>0, <1>v DEF ModeInv, PagerVersion
<1>5. CallInv'
  <2>1. step' \notin ToWal \cup ToJournal \cup Logging \cup {"delete shm", "say legacy"}
    BY <1>0, <1>e DEF ToWal, ToJournal, Logging
  <2> QED  BY <1>0, <2>1 DEF ModeInv, CallInv
<1>6. CopyInv'
  BY <1>0, <1>e DEF CopyInv
<1> QED  BY <1>u, <1>1, <1>2, <1>3, <1>4, <1>5, <1>6 DEF ModeInv

-----------------------------------------------------------------------------
\* Between calls the pager reads page 1 from a place that names its mode.
LEMMA PageOneSays == ModeInv => ModeIsOnPage1
<1> SUFFICES ASSUME ModeInv, step = "idle"
             PROVE  file[1].ver = mode /\ read_page(1).ver = mode
  BY DEF ModeIsOnPage1
<1>1. file[1].ver = mode  BY DEF ModeInv, PagerVersion
<1>2. CASE 1 \in DOMAIN dirty
  <2>1. read_page(1) = dirty[1]  BY <1>2 DEF read_page
  <2> QED  BY <1>1, <1>2, <2>1 DEF ModeInv, PagerVersion, Says
<1>3. CASE 1 \in DOMAIN wal_pages \ DOMAIN dirty
  <2>1. read_page(1) = wal_pages[1]  BY <1>3 DEF read_page
  <2> QED  BY <1>1, <1>3, <2>1 DEF ModeInv, PagerVersion, Says
<1>4. CASE 1 \in DOMAIN cached \ (DOMAIN wal_pages \cup DOMAIN dirty)
  <2>1. read_page(1) = cached[1]  BY <1>4 DEF read_page
  <2> QED  BY <1>1, <1>4, <2>1 DEF ModeInv, PagerVersion, Says
<1>5. CASE 1 \notin DOMAIN cached \cup DOMAIN wal_pages \cup DOMAIN dirty
  <2>1. read_page(1) = file[1]  BY <1>5 DEF read_page
  <2> QED  BY <1>1, <2>1
<1> QED  BY <1>2, <1>3, <1>4, <1>5

\* A new database satisfies the invariant.
LEMMA ModeInvInit == ModeInit => ModeInv
<1> SUFFICES ASSUME ModeInit PROVE ModeInv  OBVIOUS
<1>0. 0 \in Nat  BY SMTT(30)
<1>1. DiskOK
  <2>1. \A v \in {"legacy", "none"} : [tx |-> 0, ver |-> v] \in Content  BY SMTT(30) DEF Content
  <2> QED  BY <2>1 DEF ModeInit, DiskOK
<1>2. ShmOK
  <2>1. fresh_shm_bytes \in [mx : Nat, backfill : Nat]  BY SMTT(30) DEF fresh_shm_bytes
  <2>2. DOMAIN reader = {} /\ held = {} /\ fd = 0 /\ path = 0  BY EmptySeq DEF ModeInit
  <2>3. inode \in [Inode -> [mx : Nat, backfill : Nat]]  BY <2>1 DEF ModeInit
  <2> QED  BY <2>2, <2>3 DEF ShmOK
<1>3. PagerOK  BY <1>0, EmptyMap DEF ModeInit, PagerOK, Steps
<1>4. CountOK  BY <1>0 DEF ModeInit, CountOK
<1>5. DiskVersion
  <2>1. Frames = << >> /\ DOMAIN << >> = {}
    BY EmptySeq DEF ModeInit, Frames
  <2>2. file[1] = [tx |-> 0, ver |-> "legacy"]  BY PageOne DEF ModeInit
  <2>3. file[1].ver = "legacy"  BY <2>2, SMTT(30)
  <2> QED  BY <2>1, <2>3 DEF DiskVersion
<1>6. PagerVersion  BY EmptyMap DEF ModeInit, PagerVersion
<1>7. CallInv  BY EmptyMap DEF ModeInit, CallInv, ToWal, ToJournal, Logging
<1>8. CopyInv  BY DEF ModeInit, CopyInv
<1> QED  BY <1>1, <1>2, <1>3, <1>4, <1>5, <1>6, <1>7, <1>8 DEF ModeInv

\* No step of the pager, of the other process or of a stock connection breaks it,
\* but for a write of page 1 that fails.
LEMMA ModeInvNext ==
  ASSUME ModeInv, [ModeNext]_modes, ~ misnamed'
  PROVE  ModeInv'
<1>1. CASE UNCHANGED modes
    <2>1. UNCHANGED <<file, wal, path, inode, step, mode, held, fd, wal_pages, cached,
                    dirty, safe, todo, reader, committed, tx, faults, misnamed>>
    BY <1>1 DEF modes, memory, pass, others
  <2>2. DiskOK' /\ ShmOK' /\ PagerOK' /\ CountOK'
    BY <2>1 DEF ModeInv, DiskOK, ShmOK, PagerOK, CountOK
  <2>3. DiskVersion' /\ PagerVersion' /\ CallInv'
    BY <2>1 DEF ModeInv, DiskVersion, PagerVersion, CallInv, Frames
  <2>4. committed_pages(safe)' = committed_pages(safe)
    BY <2>1 DEF committed_pages, FramesOf, Frames
  <2>5. CopyInv'  BY <2>1, <2>4 DEF ModeInv, CopyInv
  <2> QED  BY <2>2, <2>3, <2>5 DEF ModeInv
<1>2. ASSUME NEW p \in Page, Read(p) \/ get_page_mut(p) PROVE ModeInv'
  BY <1>2, Keeps_Read, Keeps_get_page_mut
<1>3. ASSUME NEW m \in {"legacy", "wal"}, patch_page1(m) PROVE ModeInv'
  BY <1>3, Keeps_patch_page1
<1>4. \A m : ~ patch_page1_fails(m)  BY DEF patch_page1_fails
<1> QED
    BY <1>1, <1>2, <1>3, <1>4, Keeps_switch_fails, Keeps_Open, Keeps_rollback, Keeps_flush_locked,
     Keeps_flush_wal_locked, Keeps_recreate_wal_locked, Keeps_append_frames,
     Keeps_publish_mx_frame, Keeps_switch_journal_to_wal, Keeps_write_fresh_shm,
     Keeps_switch_wal_to_journal, Keeps_begin_pass, Keeps_copy_page,
     Keeps_publish_backfill, Keeps_end_pass, Keeps_delete_wal, Keeps_delete_shm,
     Keeps_Close, Keeps_Die, Keeps_OpenReader, Keeps_CloseReader, Keeps_StockClose
  DEF ModeNext

\* A write of page 1 that failed has failed for good.
LEMMA StaysMisnamed ==
  ASSUME misnamed, [ModeNext]_modes
  PROVE  misnamed'
<1>1. CASE UNCHANGED modes  BY <1>1 DEF modes, others
<1>2. CASE Open \/ rollback \/ flush_locked \/ flush_wal_locked \/ recreate_wal_locked
           \/ append_frames \/ publish_mx_frame
  BY <1>2 DEF Open, rollback, flush_locked, flush_wal_locked, recreate_wal_locked, append_frames,
    publish_mx_frame, Committing, others
<1>3. CASE switch_journal_to_wal \/ write_fresh_shm \/ switch_wal_to_journal \/ begin_pass
           \/ copy_page \/ publish_backfill \/ end_pass
  BY <1>3 DEF switch_journal_to_wal, write_fresh_shm, switch_wal_to_journal, begin_pass,
    copy_page, publish_backfill, end_pass, others
<1>4. CASE delete_wal \/ delete_shm \/ switch_fails \/ Close \/ Die \/ OpenReader
           \/ CloseReader \/ StockClose
  BY <1>4 DEF delete_wal, delete_shm, switch_fails, Close, Die, Forget, OpenReader, CloseReader,
    StockClose, others
<1>5. ASSUME NEW p \in Page, Read(p) \/ get_page_mut(p) PROVE misnamed'
  BY <1>5 DEF Read, get_page_mut, others
<1>6. ASSUME NEW m \in {"legacy", "wal"}, patch_page1(m) \/ patch_page1_fails(m) PROVE misnamed'
  BY <1>6 DEF patch_page1, patch_page1_fails, others
<1> QED  BY <1>1, <1>2, <1>3, <1>4, <1>5, <1>6 DEF ModeNext

\* What holds until a write of page 1 fails.
NamedInv == misnamed \/ ModeInv

\* Whatever the number of pages, transactions and faults, with or without a reader
\* and a stock connection, and until the write of page 1 itself fails: between calls
\* page 1 on disk, and page 1 as the pager reads it, name the journal mode the pager
\* is in.  A set_journal_mode that returns an error before it assigns journal_mode,
\* one that ends, a commit in either mode, a checkpoint pass and a crash between any
\* two of their steps cannot set the two apart.
THEOREM Page1NamesTheMode == ModeSpec => []ModeIsOnPage1
<1>1. ModeInit => NamedInv  BY ModeInvInit DEF NamedInv
<1>2. NamedInv /\ [ModeNext]_modes => NamedInv'
  BY ModeInvNext, StaysMisnamed DEF NamedInv
<1>3. NamedInv => ModeIsOnPage1  BY PageOneSays DEF NamedInv, ModeIsOnPage1
<1> QED  BY <1>1, <1>2, <1>3, PTL DEF ModeSpec

-----------------------------------------------------------------------------
(* What was committed is kept and read, when at most one process dies or one *)
(* file operation fails, other than the write of page 1, and no stock        *)
(* connection deletes the log under an open pager.                           *)

\* CommittedKept, with the two places a page may come from told apart.
Kept ==
  \A p \in Page : /\ p \in DOMAIN read_wal_pages => read_wal_pages[p].tx = committed[p]
                  /\ p \notin DOMAIN read_wal_pages => file[p].tx = committed[p]

\* The dirty pages belong to the next transaction, or to the one that is in the
\* log already and not yet in the overlay.
Written ==
  /\ \A p \in DOMAIN dirty : dirty[p].tx = IF step = "publish" THEN tx ELSE tx + 1
  /\ step \in {"recreate shm", "append"} => DOMAIN dirty # {}

\* The page cache says what the main file says, of pages that are neither in the
\* overlay nor dirty.
CacheInv ==
  \A p \in DOMAIN cached :
    cached[p] = file[p] /\ p \notin DOMAIN wal_pages /\ p \notin DOMAIN dirty

\* A map of pages that says what the log says, and of other pages what the main
\* file says.
Fits(f) ==
  /\ \A p \in DOMAIN read_wal_pages : p \in DOMAIN f /\ f[p] = read_wal_pages[p]
  /\ \A p \in DOMAIN f : p \notin DOMAIN read_wal_pages => f[p] = file[p]

\* The overlay hides nothing: it has what the log says, less the dirty pages between
\* the append and the end of a commit, and once the log is deleted, what was copied.
Overlay ==
  /\ step = "publish" => Fits(Over(dirty, wal_pages))
  /\ step \notin {"closed", "publish"} => Fits(wal_pages)

\* The pager has the -shm file open that the path names.
Descriptor == fd # 0 => fd = path /\ step # "closed"

\* On its way out of WAL mode the pager holds no mark.
NoMark == step \in ToJournal => "wal_lock" \notin held

\* Every page of the log is in the main file.
LogCopied == \A p \in DOMAIN read_wal_pages : file[p] = read_wal_pages[p]

\* nBackfill counts frames of the log, and when it counts all of them they have
\* been copied.
Counted(i) ==
  inode[i].backfill <= Len(Frames) /\ (inode[i].backfill = Len(Frames) => LogCopied)

\* The log that nBackfill counted is gone: between the deletions of -wal and -shm,
\* after a fault there, and until the next -shm is written.
Stale ==
  /\ Frames = << >>
  /\ \/ wal = << >> /\ (step = "delete shm" \/ faults # 0)
     \/ step \in {"recreate shm", "fresh shm"} /\ faults # 0

Backfill == path # 0 => Stale \/ Counted(path)

\* A pass copies frames that have not been counted, and has copied what it no
\* longer has to do.
Copying ==
  step = "copy" =>
    /\ Frames # << >> /\ safe <= Len(Frames) /\ (path # 0 => inode[path].backfill < safe)
    /\ \A p \in DOMAIN committed_pages(safe) \ todo : file[p] = committed_pages(safe)[p]

KeptInv ==
  /\ Kept /\ Written /\ CacheInv /\ Overlay
  /\ Descriptor /\ NoMark /\ Backfill /\ Copying /\ LogCopiedFirst

\* A step that leaves the log alone leaves alone what is read from it.
LEMMA LogSame ==
  ASSUME wal' = wal
  PROVE  /\ Frames' = Frames /\ read_wal_pages' = read_wal_pages
         /\ \A n : committed_pages(n)' = committed_pages(n)
<1>1. Frames' = Frames  BY DEF Frames
<1> QED  BY <1>1 DEF read_wal_pages, committed_pages, FramesOf

\* A log without frames has no pages, and is copied.
LEMMA NoFrames ==
  ASSUME Frames = << >>
  PROVE  DOMAIN read_wal_pages = {} /\ LogCopied /\ Len(Frames) = 0
<1>1. DOMAIN Frames = {}  BY EmptySeq
<1>2. DOMAIN read_wal_pages = {}  BY <1>1 DEF read_wal_pages, committed_pages, FramesOf
<1>3. Len(<< >>) = 0  BY SMTT(30)
<1> QED  BY <1>2, <1>3 DEF LogCopied

LEMMA NoFramesNext ==
  ASSUME Frames' = << >>
  PROVE  DOMAIN read_wal_pages' = {} /\ LogCopied' /\ Len(Frames') = 0
<1>1. DOMAIN Frames' = {}  BY EmptySeq
<1>2. DOMAIN read_wal_pages' = {}  BY <1>1 DEF read_wal_pages, committed_pages, FramesOf
<1>3. Len(<< >>) = 0  BY SMTT(30)
<1> QED  BY <1>2, <1>3 DEF LogCopied

\* Whoever opens a database whose log has no frames reads the main file.
LEMMA OnlyTheFile ==
  ASSUME Frames = << >>, Frames' = << >>, Kept, UNCHANGED committed,
         \A p \in Page : file'[p].tx = file[p].tx
  PROVE  Kept'
<1>1. DOMAIN read_wal_pages = {} /\ DOMAIN read_wal_pages' = {}  BY NoFrames, NoFramesNext
<1> QED  BY <1>1 DEF Kept

\* A step that changes neither the main file nor the log changes neither what is
\* committed nor how much of the log is copied.
LEMMA FilesSame ==
  ASSUME UNCHANGED <<file, wal>>
  PROVE  /\ LogCopied' = LogCopied
         /\ Kept /\ committed' = committed => Kept'
BY LogSame DEF LogCopied, Kept

\* A step that leaves the files and -shm alone, and is not of a switch.
LEMMA BackfillSame ==
  ASSUME UNCHANGED <<file, wal, path, inode, faults>>, Backfill,
         step' = step \/ step \notin {"delete shm", "recreate shm", "fresh shm"}
  PROVE  Backfill'
<1>1. Frames' = Frames  BY LogSame
<1>2. LogCopied' = LogCopied  BY FilesSame
<1>3. ASSUME path # 0 PROVE Stale' \/ Counted(path)'
  <2>1. CASE Stale  BY <1>1, <2>1 DEF Stale
  <2>2. CASE Counted(path)  BY <1>1, <1>2, <2>2 DEF Counted
  <2> QED  BY <1>3, <2>1, <2>2 DEF Backfill
<1> QED  BY <1>3 DEF Backfill

-----------------------------------------------------------------------------
\* Pager::open reads the overlay from the log, and -shm at its path.
LEMMA Kept_Open ==
  ASSUME ModeInv, KeptInv, Open
  PROVE  KeptInv'
<1>0. UNCHANGED <<file, wal, path, inode, cached, dirty, committed, tx, faults, misnamed>>
  BY DEF Open, pass, others
<1>1. /\ step = "closed" /\ step' = "idle" /\ wal_pages' = read_wal_pages
      /\ DOMAIN cached = {} /\ DOMAIN dirty = {} /\ fd' \in {0, path}
  BY DEF Open, Hold, ModeInv, CallInv
<1>2. read_wal_pages' = read_wal_pages  BY <1>0, LogSame
<1>3. Kept'  BY <1>0, FilesSame DEF KeptInv
<1>4. Written' /\ CacheInv'  BY <1>0, <1>1 DEF Written, CacheInv
<1>5. Overlay'  BY <1>1, <1>2 DEF Overlay, Fits
<1>6. Descriptor'  BY <1>0, <1>1 DEF Descriptor
<1>7. Backfill'  BY <1>0, <1>1, BackfillSame DEF KeptInv
<1>8. Copying' /\ LogCopiedFirst' /\ NoMark'  BY <1>1 DEF Copying, LogCopiedFirst, NoMark, ToJournal
<1> QED  BY <1>3, <1>4, <1>5, <1>6, <1>7, <1>8 DEF KeptInv

\* Reading a page puts what the main file says into the cache.
LEMMA Kept_Read ==
  ASSUME ModeInv, KeptInv, NEW p \in Page, Read(p)
  PROVE  KeptInv'
<1>0. UNCHANGED <<file, wal, path, inode, step, fd, wal_pages, dirty, safe, todo, committed,
                  tx, faults, misnamed>>
  BY DEF Read, pass, others
<1>1. /\ step = "idle" /\ cached' = Over([q \in {p} |-> file[p]], cached)
      /\ p \notin DOMAIN dirty /\ p \notin DOMAIN wal_pages
  BY DEF Read
<1>2. read_wal_pages' = read_wal_pages  BY <1>0, LogSame
<1>3. Kept'  BY <1>0, FilesSame DEF KeptInv
<1>4. Written' /\ Overlay' /\ Descriptor'
  BY <1>0, <1>2 DEF KeptInv, Written, Overlay, Descriptor, Fits
<1>5. CacheInv'
  <2> DEFINE one == [q \in {p} |-> file[p]]
  <2>1. DOMAIN one = {p} /\ one[p] = file[p]  OBVIOUS
  <2> HIDE DEF one
  <2>2. cached' = Over(one, cached)  BY <1>1 DEF one
  <2>3. DOMAIN cached' = {p} \cup DOMAIN cached
    BY <2>1, <2>2 DEF Over
  <2>4. cached'[p] = file[p] /\ \A q \in DOMAIN cached : q # p => cached'[q] = cached[q]
    BY <2>1, <2>2 DEF Over
  <2> QED  BY <1>0, <1>1, <2>3, <2>4 DEF KeptInv, CacheInv
<1>6. Backfill'  BY <1>0, BackfillSame DEF KeptInv
<1>7. Copying' /\ LogCopiedFirst' /\ NoMark'
  BY <1>0, <1>1 DEF Copying, LogCopiedFirst, NoMark, ToJournal
<1> QED  BY <1>3, <1>4, <1>5, <1>6, <1>7 DEF KeptInv

\* A page that is written leaves the cache and belongs to the next transaction.
LEMMA Kept_get_page_mut ==
  ASSUME ModeInv, KeptInv, NEW p \in Page, get_page_mut(p)
  PROVE  KeptInv'
<1>0. UNCHANGED <<file, wal, path, inode, step, fd, wal_pages, safe, todo, committed,
                  tx, faults, misnamed>>
  BY DEF get_page_mut, pass, others
<1> DEFINE old == IF p \in DOMAIN wal_pages THEN wal_pages[p] ELSE file[p]
           one == [q \in {p} |-> [old EXCEPT !.tx = tx + 1]]
<1>1. step = "idle" /\ cached' = NotIn(cached, p) /\ dirty' = Over(one, dirty)
  BY DEF get_page_mut
<1>o. DOMAIN one = {p} /\ one[p].tx = tx + 1
  <2>1. old \in Content  BY DEF ModeInv, DiskOK, PagerOK, SomePages
  <2>2. one[p] = [old EXCEPT !.tx = tx + 1] /\ DOMAIN one = {p}  OBVIOUS
  <2> HIDE DEF old, one
  <2> QED  BY <2>1, <2>2, SMTT(30) DEF Content
<1> HIDE DEF old, one
<1>d. DOMAIN dirty' = {p} \cup DOMAIN dirty /\ dirty'[p].tx = tx + 1
      /\ \A q \in DOMAIN dirty : q # p => dirty'[q] = dirty[q]
  BY <1>1, <1>o DEF Over
<1>c. DOMAIN cached' = DOMAIN cached \ {p} /\ \A q \in DOMAIN cached' : cached'[q] = cached[q]
  BY <1>1 DEF NotIn
<1>2. read_wal_pages' = read_wal_pages  BY <1>0, LogSame
<1>3. Kept'  BY <1>0, FilesSame DEF KeptInv
<1>4. Written'
  <2>1. step # "publish" /\ step' # "publish"  BY <1>0, <1>1
  <2> QED  BY <1>0, <1>1, <1>d, <2>1 DEF KeptInv, Written
<1>5. CacheInv'  BY <1>0, <1>c, <1>d DEF KeptInv, CacheInv
<1>6. Overlay' /\ Descriptor'
  BY <1>0, <1>1, <1>2 DEF KeptInv, Overlay, Descriptor, Fits
<1>7. Backfill'  BY <1>0, BackfillSame DEF KeptInv
<1>8. Copying' /\ LogCopiedFirst' /\ NoMark'
  BY <1>0, <1>1 DEF Copying, LogCopiedFirst, NoMark, ToJournal
<1> QED  BY <1>3, <1>4, <1>5, <1>6, <1>7, <1>8 DEF KeptInv

\* Rolling back only forgets the dirty pages.
LEMMA Kept_rollback ==
  ASSUME ModeInv, KeptInv, rollback
  PROVE  KeptInv'
<1>0. UNCHANGED <<file, wal, path, inode, step, fd, wal_pages, cached, safe, todo, committed,
                  tx, faults, misnamed>>
  BY DEF rollback, pass, others
<1>1. step = "idle" /\ DOMAIN dirty' = {}  BY EmptyMap DEF rollback
<1>2. read_wal_pages' = read_wal_pages  BY <1>0, LogSame
<1>3. Kept'  BY <1>0, FilesSame DEF KeptInv
<1>4. Written' /\ CacheInv'  BY <1>0, <1>1 DEF KeptInv, Written, CacheInv
<1>5. Overlay' /\ Descriptor'
  BY <1>0, <1>1, <1>2 DEF KeptInv, Overlay, Descriptor, Fits
<1>6. Backfill'  BY <1>0, BackfillSame DEF KeptInv
<1>7. Copying' /\ LogCopiedFirst' /\ NoMark'
  BY <1>0, <1>1 DEF Copying, LogCopiedFirst, NoMark, ToJournal
<1> QED  BY <1>3, <1>4, <1>5, <1>6, <1>7 DEF KeptInv

\* A commit in rollback-journal mode writes the main file, and no log hides it.
LEMMA Kept_flush_locked ==
  ASSUME ModeInv, KeptInv, flush_locked
  PROVE  KeptInv'
<1>0. UNCHANGED <<wal, path, inode, step, fd, wal_pages, cached, safe, todo, faults>>
  BY DEF flush_locked, Committing, pass
<1>1. /\ step = "idle" /\ mode = "legacy" /\ DOMAIN dirty' = {}
      /\ file' = [p \in Page |-> IF p \in DOMAIN dirty THEN dirty[p] ELSE file[p]]
      /\ committed' = [p \in Page |-> IF p \in DOMAIN dirty THEN tx + 1 ELSE committed[p]]
  BY EmptyMap DEF flush_locked, Committing
<1>2. Frames = << >> /\ Frames' = << >> /\ read_wal_pages' = read_wal_pages
  BY <1>0, <1>1, LogSame DEF ModeInv, PagerVersion, DiskVersion
<1>e. DOMAIN read_wal_pages = {} /\ LogCopied' /\ Len(Frames) = 0
  BY <1>2, NoFrames, NoFramesNext
<1>3. Kept'
  <2> SUFFICES ASSUME NEW p \in Page PROVE file'[p].tx = committed'[p]
    BY <1>2, <1>e DEF Kept
  <2>1. CASE p \in DOMAIN dirty
    BY <1>1, <2>1 DEF KeptInv, Written
  <2>2. CASE p \notin DOMAIN dirty
    BY <1>1, <1>e, <2>2 DEF KeptInv, Kept
  <2> QED  BY <2>1, <2>2
<1>4. Written'  BY <1>0, <1>1 DEF Written
<1>5. CacheInv'
  <2>1. DOMAIN cached \subseteq Page  BY DEF ModeInv, PagerOK, SomePages
  <2> QED  BY <1>0, <1>1, <2>1 DEF KeptInv, CacheInv
<1>6. Overlay' /\ Descriptor'
  <2>1. DOMAIN wal_pages = {}  BY <1>1 DEF ModeInv, PagerVersion
  <2> QED  BY <1>0, <1>1, <1>2, <1>e, <2>1 DEF KeptInv, Overlay, Descriptor, Fits
<1>7. Backfill'
  BY <1>0, <1>2, <1>e DEF KeptInv, Backfill, Stale, Counted
<1>8. Copying' /\ LogCopiedFirst' /\ NoMark'
  BY <1>0, <1>1 DEF Copying, LogCopiedFirst, NoMark, ToJournal
<1> QED  BY <1>3, <1>4, <1>5, <1>6, <1>7, <1>8 DEF KeptInv

\* A commit in WAL mode opens -shm at its path, and creates a log that has vanished.
LEMMA Kept_flush_wal_locked ==
  ASSUME ModeInv, KeptInv, flush_wal_locked
  PROVE  KeptInv'
<1>0. UNCHANGED <<file, path, inode, wal_pages, cached, dirty, safe, todo, committed, tx, faults, misnamed>>
  BY DEF flush_wal_locked, memory, pass, others
<1>1. /\ step = "idle" /\ DOMAIN dirty # {}
      /\ \/ wal # << >> /\ step' = "append" /\ UNCHANGED wal
         \/ wal = << >> /\ step' = "recreate shm" /\ wal' = << << >> >>
  BY DEF flush_wal_locked
<1>2. Frames' = Frames
  <2>1. CASE wal' = wal  BY <2>1 DEF Frames
  <2>2. CASE wal = << >> /\ wal' = << << >> >>
    <3>1. << << >> >> # << >> /\ << << >> >>[1] = << >>  BY SMTT(30)
    <3> QED  BY <2>2, <3>1 DEF Frames
  <2> QED  BY <1>1, <2>1, <2>2
<1>r. read_wal_pages' = read_wal_pages
  BY <1>2 DEF read_wal_pages, committed_pages, FramesOf
<1>3. Kept' /\ Written' /\ CacheInv'
  BY <1>0, <1>1, <1>r DEF KeptInv, Kept, Written, CacheInv
<1>4. Overlay'  BY <1>0, <1>1, <1>r DEF KeptInv, Overlay, Fits
<1>5. Descriptor'
  <2>1. fd' \in {fd, 0, open_shm_shared} /\ (path = 0 => fd' = fd)
    BY DEF flush_wal_locked, Hold
  <2> QED  BY <1>0, <1>1, <2>1 DEF KeptInv, Descriptor, open_shm_shared
<1>6. Backfill'
  <2> SUFFICES ASSUME path # 0 PROVE Stale' \/ Counted(path)'
    BY <1>0 DEF Backfill
  <2>1. LogCopied' = LogCopied  BY <1>0, <1>r DEF LogCopied
  <2>2. CASE Stale
    <3>1. wal = << >> /\ faults # 0  BY <1>1, <2>2 DEF Stale
    <3> QED  BY <1>0, <1>1, <1>2, <2>2, <3>1 DEF Stale
  <2>3. CASE Counted(path)  BY <1>0, <1>2, <2>1, <2>3 DEF Counted
  <2> QED  BY <2>2, <2>3 DEF KeptInv, Backfill
<1>7. Copying' /\ LogCopiedFirst' /\ NoMark'  BY <1>1 DEF Copying, LogCopiedFirst, NoMark, ToJournal
<1> QED  BY <1>3, <1>4, <1>5, <1>6, <1>7 DEF KeptInv

\* A fresh -shm file, at the path as before if there was one, counts no frames.
LEMMA FreshShm ==
  ASSUME ModeInv, KeptInv, WriteFreshShm, UNCHANGED <<file, wal>>
  PROVE  path' = ShmToWrite /\ (path # 0 => path' = path) /\ Counted(path)'
<1>1. /\ path' = ShmToWrite /\ (path # 0 => path' = path)
      /\ inode' = [inode EXCEPT ![ShmToWrite] = fresh_shm_bytes]
  BY DEF WriteFreshShm, ShmToWrite
<1>2. ShmToWrite \in Inode  BY ShmIsAnInode DEF ModeInv
<1>3. inode'[path'].backfill = 0
  <2>1. inode'[path'] = fresh_shm_bytes
    BY <1>1, <1>2 DEF ModeInv, ShmOK
  <2>2. fresh_shm_bytes.backfill = 0  BY SMTT(30) DEF fresh_shm_bytes
  <2> QED  BY <2>1, <2>2
<1>4. Frames' = Frames /\ LogCopied' = LogCopied  BY LogSame, FilesSame
<1>5. Frames \in Seq(Frame)  BY LogFrames DEF ModeInv
<1>6. 0 <= Len(Frames) /\ (0 = Len(Frames) => Frames = << >>)  BY <1>5, SMTT(30)
<1> QED  BY <1>1, <1>3, <1>4, <1>6, NoFrames DEF Counted

\* A log that vanished gets a fresh -shm file.
LEMMA Kept_recreate_wal_locked ==
  ASSUME ModeInv, KeptInv, recreate_wal_locked
  PROVE  KeptInv'
<1>0. UNCHANGED <<file, wal, wal_pages, cached, dirty, safe, todo, committed, tx, faults, misnamed>>
  BY DEF recreate_wal_locked, memory, pass
<1>1. step = "recreate shm" /\ step' = "append" /\ WriteFreshShm
  BY DEF recreate_wal_locked
<1>2. read_wal_pages' = read_wal_pages  BY <1>0, LogSame
<1>3. Kept'  BY <1>0, FilesSame DEF KeptInv
<1>4. Written' /\ CacheInv' /\ Overlay'
  BY <1>0, <1>1, <1>2 DEF KeptInv, Written, CacheInv, Overlay, Fits
<1>5. path' = ShmToWrite /\ (path # 0 => path' = path) /\ Counted(path)'
  BY <1>0, <1>1, FreshShm
<1>6. Descriptor'
  <2>1. fd' \in {0, IF fd # 0 THEN fd ELSE ShmToWrite}  BY DEF recreate_wal_locked, Hold
  <2> QED  BY <1>1, <1>5, <2>1 DEF KeptInv, Descriptor
<1>7. Backfill'  BY <1>5 DEF Backfill
<1>8. Copying' /\ LogCopiedFirst' /\ NoMark'  BY <1>1 DEF Copying, LogCopiedFirst, NoMark, ToJournal
<1> QED  BY <1>3, <1>4, <1>6, <1>7, <1>8 DEF KeptInv

\* The end of a commit in WAL mode brings the overlay up to the log.
LEMMA Kept_publish_mx_frame ==
  ASSUME ModeInv, KeptInv, publish_mx_frame
  PROVE  KeptInv'
<1>0. UNCHANGED <<file, wal, path, fd, cached, safe, todo, committed, tx, faults, misnamed>>
  BY DEF publish_mx_frame, pass, others
<1>1. /\ step = "publish" /\ step' = "idle" /\ wal_pages' = Over(dirty, wal_pages)
      /\ DOMAIN dirty' = {}
  BY EmptyMap DEF publish_mx_frame
<1>2. read_wal_pages' = read_wal_pages  BY <1>0, LogSame
<1>3. Kept'  BY <1>0, FilesSame DEF KeptInv
<1>4. Written'  BY <1>1 DEF Written
<1>5. CacheInv'
  <2>1. DOMAIN wal_pages' = DOMAIN dirty \cup DOMAIN wal_pages  BY <1>1 DEF Over
  <2> QED  BY <1>0, <1>1, <2>1 DEF KeptInv, CacheInv
<1>6. Overlay'  BY <1>0, <1>1, <1>2 DEF KeptInv, Overlay, Fits
<1>7. Descriptor'  BY <1>0, <1>1 DEF KeptInv, Descriptor
<1>8. Backfill'
  <2> SUFFICES ASSUME path # 0 PROVE Counted(path)'
    BY <1>0 DEF Backfill
  <2>1. Frames' = Frames /\ LogCopied' = LogCopied  BY <1>0, LogSame, FilesSame
  <2>2. inode'[path].backfill = inode[path].backfill
    <3>1. CASE "wal_shm" \notin held  BY <3>1 DEF publish_mx_frame
    <3>2. CASE "wal_shm" \in held
      <4>1. inode' = [inode EXCEPT ![fd].mx = Len(Frames)]  BY <3>2 DEF publish_mx_frame
      <4>2. fd \in Inode /\ path \in Inode /\ inode \in [Inode -> [mx : Nat, backfill : Nat]]
        BY <3>2 DEF ModeInv, ShmOK
      <4> QED  BY <4>1, <4>2, SMTT(30)
    <3> QED  BY <3>1, <3>2
  <2>3. ~ Stale
    <3>1. wal # << >>  BY <1>1 DEF ModeInv, CallInv, Logging
    <3> QED  BY <1>1, <3>1 DEF Stale
  <2> QED  BY <1>0, <2>1, <2>2, <2>3 DEF KeptInv, Backfill, Counted
<1>9. Copying' /\ LogCopiedFirst' /\ NoMark'  BY <1>1 DEF Copying, LogCopiedFirst, NoMark, ToJournal
<1> QED  BY <1>3, <1>4, <1>5, <1>6, <1>7, <1>8, <1>9 DEF KeptInv

\* Switching to WAL mode finds no frames and writes none.
LEMMA Kept_switch_journal_to_wal ==
  ASSUME ModeInv, KeptInv, switch_journal_to_wal
  PROVE  KeptInv'
<1>0. UNCHANGED <<file, path, inode, fd, wal_pages, cached, dirty, safe, todo, committed, tx,
                  faults, misnamed>>
  BY DEF switch_journal_to_wal, memory, pass, others
<1>1. /\ step = "idle" /\ step' = "fresh shm" /\ mode # "wal" /\ wal' = << << >> >>
      /\ DOMAIN dirty = {}
  BY DEF switch_journal_to_wal, MaySwitch
<1>2. Frames = << >> /\ Frames' = << >>
  <2>1. << << >> >> # << >> /\ << << >> >>[1] = << >>  BY SMTT(30)
  <2>2. Frames' = << >>  BY <1>1, <2>1 DEF Frames
  <2> QED  BY <1>1, <2>2 DEF ModeInv, PagerVersion, DiskVersion
<1>e. DOMAIN read_wal_pages = {} /\ DOMAIN read_wal_pages' = {} /\ LogCopied'
  BY <1>2, NoFrames, NoFramesNext
<1>3. Kept'  BY <1>0, <1>2, OnlyTheFile DEF KeptInv
<1>4. Written' /\ CacheInv'  BY <1>0, <1>1 DEF KeptInv, Written, CacheInv
<1>5. Overlay' /\ Descriptor'
  BY <1>0, <1>1, <1>e DEF KeptInv, Overlay, Descriptor, Fits
<1>6. Backfill'
  <2> SUFFICES ASSUME path # 0 PROVE Stale' \/ Counted(path)'
    BY <1>0 DEF Backfill
  <2>1. CASE Stale  BY <1>0, <1>1, <1>2, <2>1 DEF Stale
  <2>2. CASE Counted(path)  BY <1>0, <1>2, <1>e, <2>2 DEF Counted
  <2> QED  BY <2>1, <2>2 DEF KeptInv, Backfill
<1>7. Copying' /\ LogCopiedFirst' /\ NoMark'  BY <1>1 DEF Copying, LogCopiedFirst, NoMark, ToJournal
<1> QED  BY <1>3, <1>4, <1>5, <1>6, <1>7 DEF KeptInv

\* Switching to WAL mode writes a fresh -shm file.
LEMMA Kept_write_fresh_shm ==
  ASSUME ModeInv, KeptInv, write_fresh_shm
  PROVE  KeptInv'
<1>0. UNCHANGED <<file, wal, wal_pages, cached, dirty, safe, todo, committed, tx, faults, misnamed>>
  BY DEF write_fresh_shm, memory, pass
<1>1. step = "fresh shm" /\ step' = "say wal" /\ WriteFreshShm /\ fd' \in {0, fd}
  BY DEF write_fresh_shm, Hold
<1>2. read_wal_pages' = read_wal_pages  BY <1>0, LogSame
<1>3. Kept'  BY <1>0, FilesSame DEF KeptInv
<1>4. Written' /\ CacheInv' /\ Overlay'
  BY <1>0, <1>1, <1>2 DEF KeptInv, Written, CacheInv, Overlay, Fits
<1>5. (path # 0 => path' = path) /\ Counted(path)'
  BY <1>0, <1>1, FreshShm
<1>6. Descriptor' /\ Backfill'  BY <1>1, <1>5 DEF KeptInv, Descriptor, Backfill
<1>7. Copying' /\ LogCopiedFirst' /\ NoMark'  BY <1>1 DEF Copying, LogCopiedFirst, NoMark, ToJournal
<1> QED  BY <1>3, <1>4, <1>6, <1>7 DEF KeptInv

\* Leaving WAL mode begins by giving up the mark.
LEMMA Kept_switch_wal_to_journal ==
  ASSUME ModeInv, KeptInv, switch_wal_to_journal
  PROVE  KeptInv'
<1>0. UNCHANGED <<file, wal, path, inode, wal_pages, cached, dirty, safe, todo, committed, tx,
                  faults, misnamed>>
  BY DEF switch_wal_to_journal, memory, pass, others
<1>1. step = "idle" /\ step' = "pass" /\ fd' \in {0, fd}
  BY DEF switch_wal_to_journal, MaySwitch, Hold
<1>2. read_wal_pages' = read_wal_pages  BY <1>0, LogSame
<1>3. Kept'  BY <1>0, FilesSame DEF KeptInv
<1>4. Written' /\ CacheInv' /\ Overlay' /\ Descriptor'
  BY <1>0, <1>1, <1>2 DEF KeptInv, Written, CacheInv, Overlay, Descriptor, Fits
<1>5. Backfill'  BY <1>0, <1>1, BackfillSame DEF KeptInv
<1>6. Copying' /\ LogCopiedFirst'  BY <1>1 DEF Copying, LogCopiedFirst
<1>7. NoMark'
  <2>1. held' = held \ {"wal_lock"}  BY DEF switch_wal_to_journal, Hold
  <2> QED  BY <2>1 DEF NoMark
<1> QED  BY <1>3, <1>4, <1>5, <1>6, <1>7 DEF KeptInv

\* -shm as a pass reads it is the file at the path.
LEMMA CountIsOnPath ==
  ASSUME KeptInv, ModeInv
  PROVE  /\ path # 0 => open_shm_shared = path /\ AlreadyBackfilled = inode[path].backfill
         /\ path = 0 => AlreadyBackfilled = 0
BY DEF KeptInv, Descriptor, ModeInv, ShmOK, open_shm_shared, AlreadyBackfilled

\* No pass copies more frames than there are.
LEMMA SafeIsInTheLog ==
  ASSUME ModeInv
  PROVE  SafeFrame <= Len(Frames)
<1> DEFINE S == {Len(Frames)} \cup ({reader[i].mark : i \in MarksSeen} \ {0})
<1>1. Len(Frames) \in Nat  BY LogFrames DEF ModeInv
<1>2. \A i \in MarksSeen : i = 1 /\ reader[1].mark \in Nat  BY DEF ModeInv, ShmOK, MarksSeen
<1>3. PICK b \in Nat : S \subseteq {Len(Frames), b}
  <2>1. CASE MarksSeen = {}
    <3>1. S \subseteq {Len(Frames), Len(Frames)}  BY <2>1
    <3> QED  BY <1>1, <3>1
  <2>2. CASE MarksSeen # {}
    <3>1. reader[1].mark \in Nat  BY <1>2, <2>2
    <3>2. S \subseteq {Len(Frames), reader[1].mark}  BY <1>2
    <3> QED  BY <3>1, <3>2
  <2> QED  BY <2>1, <2>2
<1>4. Len(Frames) \in S  OBVIOUS
<1>5. SafeFrame = Min(S)  BY DEF SafeFrame
<1> HIDE DEF S
<1>6. \A x \in S : Min(S) <= x
  BY <1>1, <1>3, <1>4, MinOfTwo
<1> QED  BY <1>4, <1>5, <1>6

\* A pass has frames to copy beyond those counted.
LEMMA Kept_begin_pass ==
  ASSUME ModeInv, KeptInv, begin_pass
  PROVE  KeptInv'
<1>0. UNCHANGED <<file, wal, path, inode, held, fd, wal_pages, cached, dirty, committed, tx, faults, misnamed>>
  BY DEF begin_pass, memory, others
<1>1. /\ step = "pass" /\ step' = "copy" /\ Frames # << >> /\ SafeFrame > AlreadyBackfilled
      /\ safe' = SafeFrame /\ todo' = DOMAIN committed_pages(SafeFrame)
  BY DEF begin_pass
<1>2. /\ read_wal_pages' = read_wal_pages /\ Frames' = Frames
      /\ committed_pages(safe)' = committed_pages(SafeFrame)
  <2>1. Frames' = Frames /\ read_wal_pages' = read_wal_pages  BY <1>0, LogSame
  <2> QED  BY <1>1, <2>1 DEF committed_pages, FramesOf
<1>3. Kept'  BY <1>0, FilesSame DEF KeptInv
<1>4. Written' /\ CacheInv' /\ Overlay' /\ Descriptor' /\ NoMark'
  BY <1>0, <1>1, <1>2 DEF KeptInv, Written, CacheInv, Overlay, Descriptor, NoMark, ToJournal,
    Fits
<1>5. Backfill'  BY <1>0, <1>1, BackfillSame DEF KeptInv
<1>6. LogCopiedFirst'  BY <1>1 DEF LogCopiedFirst
<1>7. Copying'
  <2>1. SafeFrame <= Len(Frames)  BY SafeIsInTheLog
  <2>2. path # 0 => inode[path].backfill < SafeFrame
    <3> SUFFICES ASSUME path # 0 PROVE inode[path].backfill < SafeFrame  OBVIOUS
    <3>1. SafeFrame > inode[path].backfill  BY <1>1, CountIsOnPath
    <3>2. SafeFrame \in Nat  BY SafeIsANumber DEF ModeInv
    <3>3. inode[path].backfill \in Nat
      <4>1. inode[path] \in [mx : Nat, backfill : Nat]  BY DEF ModeInv, ShmOK
      <4> QED  BY <4>1, SMTT(30)
    <3> QED  BY <3>1, <3>2, <3>3, SMTT(30)
  <2>3. DOMAIN committed_pages(safe)' \ todo' = {}  BY <1>1, <1>2
  <2> QED  BY <1>0, <1>1, <1>2, <2>1, <2>2, <2>3 DEF Copying
<1> QED  BY <1>3, <1>4, <1>5, <1>6, <1>7 DEF KeptInv

\* The pages of some frames of the log are pages of the log.
LEMMA PagesOfSome ==
  ASSUME DiskOK, NEW n
  PROVE  DOMAIN committed_pages(n) \subseteq DOMAIN read_wal_pages
<1>1. Frames \in Seq(Frame)  BY LogFrames
<1>2. \A i \in DOMAIN Frames : i <= Len(Frames)  BY <1>1, SMTT(30)
<1>3. \A q : FramesOf(q, n) \subseteq FramesOf(q, Len(Frames))  BY <1>2 DEF FramesOf
<1> QED  BY <1>3 DEF read_wal_pages, committed_pages

\* Copying a page writes what the overlay hides anyway.
LEMMA Kept_copy_page ==
  ASSUME ModeInv, KeptInv, copy_page
  PROVE  KeptInv'
<1>0. UNCHANGED <<wal, path, inode, step, held, fd, wal_pages, cached, dirty, safe, committed, tx,
                  faults, misnamed>>
  BY DEF copy_page, memory, others
<1>1. PICK p \in todo : /\ file' = [file EXCEPT ![p] = committed_pages(safe)[p]]
                        /\ todo' = todo \ {p}
  BY DEF copy_page
<1>2. step = "copy"  BY DEF copy_page
<1>3. /\ read_wal_pages' = read_wal_pages /\ Frames' = Frames
      /\ committed_pages(safe)' = committed_pages(safe)
  <2>1. Frames' = Frames /\ read_wal_pages' = read_wal_pages  BY <1>0, LogSame
  <2> QED  BY <1>0, <2>1 DEF committed_pages, FramesOf
<1>4. p \in DOMAIN read_wal_pages /\ p \in Page
  BY <1>2, PagesOfSome DEF ModeInv, CopyInv, PagerOK
<1>f. file'[p] = committed_pages(safe)[p] /\ \A q \in Page : q # p => file'[q] = file[q]
  BY <1>1, <1>4 DEF ModeInv, DiskOK
<1>5. Kept'  BY <1>0, <1>3, <1>4, <1>f DEF KeptInv, Kept
<1>6. Written' /\ Descriptor' /\ NoMark'
  BY <1>0, <1>3 DEF KeptInv, Written, Descriptor, NoMark, ToJournal
<1>o. Overlay'
  <2>1. Fits(wal_pages)  BY <1>2 DEF KeptInv, Overlay
  <2>2. DOMAIN wal_pages \subseteq Page  BY DEF ModeInv, PagerOK, SomePages
  <2>3. Fits(wal_pages)'  BY <1>0, <1>3, <1>4, <1>f, <2>1, <2>2 DEF Fits
  <2> QED  BY <1>0, <1>2, <2>3 DEF Overlay
<1>7. CacheInv'
  <2>1. DOMAIN cached \subseteq Page  BY DEF ModeInv, PagerOK, SomePages
  <2>2. p \in DOMAIN wal_pages  BY <1>2, <1>4 DEF KeptInv, Overlay, Fits
  <2> QED  BY <1>0, <1>f, <2>1, <2>2 DEF KeptInv, CacheInv
<1>8. Copying'
  <2>1. DOMAIN committed_pages(safe) \subseteq Page
    BY PagesComeFromFrames DEF ModeInv, SomePages
  <2> QED  BY <1>0, <1>1, <1>2, <1>3, <1>f, <2>1 DEF KeptInv, Copying
<1>9. Backfill'
  <2> SUFFICES ASSUME path # 0 PROVE Counted(path)'
    BY <1>0 DEF Backfill
  <2>1. inode[path].backfill < safe /\ safe <= Len(Frames)
    BY <1>2 DEF KeptInv, Copying
  <2>2. inode[path].backfill \in Nat /\ safe \in Nat /\ Len(Frames) \in Nat
    <3>1. inode[path] \in [mx : Nat, backfill : Nat]  BY DEF ModeInv, ShmOK
    <3>2. inode[path].backfill \in Nat  BY <3>1, SMTT(30)
    <3> QED  BY <3>2, LogFrames DEF ModeInv, PagerOK
  <2>3. inode[path].backfill <= Len(Frames) /\ inode[path].backfill # Len(Frames)
    BY <2>1, <2>2, SMTT(30)
  <2> QED  BY <1>0, <1>3, <2>3 DEF Counted
<1>10. LogCopiedFirst'  BY <1>0, <1>2 DEF LogCopiedFirst
<1> QED  BY <1>5, <1>6, <1>o, <1>7, <1>8, <1>9, <1>10 DEF KeptInv

\* The end of a pass counts frames that have been copied.
LEMMA Kept_publish_backfill ==
  ASSUME ModeInv, KeptInv, publish_backfill
  PROVE  KeptInv'
<1>0. UNCHANGED <<file, wal, path, held, fd, wal_pages, cached, dirty, safe, todo, committed, tx,
                  faults, misnamed>>
  BY DEF publish_backfill, memory, pass, others
<1>1. /\ step = "copy" /\ todo = {}
      /\ step' = IF safe = Len(Frames) THEN "delete wal" ELSE "pass"
      /\ path # 0 => inode' = [inode EXCEPT ![open_shm_shared].backfill = safe]
  BY DEF publish_backfill
<1>2. Frames' = Frames /\ read_wal_pages' = read_wal_pages /\ LogCopied' = LogCopied
  BY <1>0, LogSame, FilesSame
<1>c. safe = Len(Frames) => LogCopied
  BY <1>1 DEF KeptInv, Copying, LogCopied, read_wal_pages
<1>3. Kept'  BY <1>0, FilesSame DEF KeptInv
<1>4. Written' /\ CacheInv' /\ Overlay' /\ Descriptor' /\ NoMark'
  BY <1>0, <1>1, <1>2 DEF KeptInv, Written, CacheInv, Overlay, Descriptor, NoMark, ToJournal,
    Fits
<1>5. Backfill'
  <2> SUFFICES ASSUME path # 0 PROVE Counted(path)'
    BY <1>0 DEF Backfill
  <2>1. inode' = [inode EXCEPT ![path].backfill = safe]  BY <1>1, CountIsOnPath
  <2>2. path \in Inode /\ inode \in [Inode -> [mx : Nat, backfill : Nat]]
    BY DEF ModeInv, ShmOK
  <2>3. inode'[path].backfill = safe  BY <2>1, <2>2, SMTT(30)
  <2>4. safe <= Len(Frames)  BY <1>1 DEF KeptInv, Copying
  <2> QED  BY <1>0, <1>2, <1>c, <2>3, <2>4 DEF Counted
<1>6. Copying'  BY <1>1 DEF Copying
<1>7. LogCopiedFirst'  BY <1>1, <1>2, <1>c DEF LogCopiedFirst, LogCopied
<1> QED  BY <1>3, <1>4, <1>5, <1>6, <1>7 DEF KeptInv

\* A pass that finds nothing to copy and every frame counted finds the log copied.
LEMMA Kept_end_pass ==
  ASSUME ModeInv, KeptInv, end_pass
  PROVE  KeptInv'
<1>0. UNCHANGED <<file, wal, path, inode, held, fd, wal_pages, cached, dirty, safe, todo, committed,
                  tx, faults, misnamed>>
  BY DEF end_pass, memory, pass, others
<1>1. /\ step = "pass"
      /\ step' = IF Frames = << >> \/ AlreadyBackfilled = Len(Frames) THEN "delete wal" ELSE "idle"
  BY DEF end_pass
<1>2. Frames' = Frames /\ read_wal_pages' = read_wal_pages /\ LogCopied' = LogCopied
  BY <1>0, LogSame, FilesSame
<1>c. step' = "delete wal" => LogCopied
  <2> SUFFICES ASSUME Frames # << >>, AlreadyBackfilled = Len(Frames) PROVE LogCopied
    BY <1>1, NoFrames
  <2>1. Len(Frames) # 0
    <3>1. Frames \in Seq(Frame)  BY LogFrames DEF ModeInv
    <3> QED  BY <3>1, SMTT(30)
  <2>2. path # 0 /\ inode[path].backfill = Len(Frames)  BY <2>1, CountIsOnPath
  <2>3. ~ Stale  BY DEF Stale
  <2> QED  BY <2>2, <2>3 DEF KeptInv, Backfill, Counted
<1>3. Kept'  BY <1>0, FilesSame DEF KeptInv
<1>4. Written' /\ CacheInv' /\ Overlay' /\ Descriptor' /\ NoMark'
  BY <1>0, <1>1, <1>2 DEF KeptInv, Written, CacheInv, Overlay, Descriptor, NoMark, ToJournal,
    Fits
<1>5. Backfill'  BY <1>0, <1>1, BackfillSame DEF KeptInv
<1>6. Copying'  BY <1>1 DEF Copying
<1>7. LogCopiedFirst'  BY <1>2, <1>c DEF LogCopiedFirst, LogCopied
<1> QED  BY <1>3, <1>4, <1>5, <1>6, <1>7 DEF KeptInv

\* The log is deleted when the main file has all of its pages.
LEMMA Kept_delete_wal ==
  ASSUME ModeInv, KeptInv, delete_wal
  PROVE  KeptInv'
<1>0. UNCHANGED <<file, path, inode, held, fd, wal_pages, cached, dirty, safe, todo, committed, tx,
                  faults, misnamed>>
  BY DEF delete_wal, memory, pass, others
<1>1. step = "delete wal" /\ step' = "delete shm" /\ wal' = << >>
  BY DEF delete_wal
<1>2. Frames' = << >>  BY <1>1 DEF Frames
<1>3. DOMAIN read_wal_pages' = {}  BY <1>2, NoFramesNext
<1>4. Kept'
  <2>1. \A p \in DOMAIN read_wal_pages : file[p] = read_wal_pages[p]
    BY <1>1 DEF KeptInv, LogCopiedFirst
  <2> QED  BY <1>0, <1>3, <2>1 DEF KeptInv, Kept
<1>5. Written' /\ CacheInv' /\ Descriptor' /\ NoMark'
  BY <1>0, <1>1 DEF KeptInv, Written, CacheInv, Descriptor, NoMark, ToJournal
<1>o. Overlay'
  <2>1. Fits(wal_pages) /\ LogCopiedFirst  BY <1>1 DEF KeptInv, Overlay
  <2>2. Fits(wal_pages)'  BY <1>0, <1>1, <1>3, <2>1 DEF Fits, LogCopiedFirst
  <2> QED  BY <1>0, <1>1, <2>2 DEF Overlay
<1>6. Backfill'  BY <1>1, <1>2 DEF Backfill, Stale
<1>7. Copying' /\ LogCopiedFirst'  BY <1>1 DEF Copying, LogCopiedFirst
<1> QED  BY <1>4, <1>5, <1>o, <1>6, <1>7 DEF KeptInv

\* The overlay goes when -shm does.
LEMMA Kept_delete_shm ==
  ASSUME ModeInv, KeptInv, delete_shm
  PROVE  KeptInv'
<1>0. UNCHANGED <<file, wal, inode, cached, dirty, safe, todo, committed, tx, faults, misnamed>>
  BY DEF delete_shm, pass, others
<1>1. /\ step = "delete shm" /\ step' = "say legacy" /\ path' = 0 /\ DOMAIN wal_pages' = {}
  BY EmptyMap DEF delete_shm
<1>2. Frames' = << >>
  BY <1>0, <1>1 DEF ModeInv, CallInv, Frames
<1>3. DOMAIN read_wal_pages' = {}  BY <1>2, NoFramesNext
<1>4. Kept'  BY <1>0, FilesSame DEF KeptInv
<1>5. Written' /\ CacheInv' /\ Overlay'
  BY <1>0, <1>1, <1>3 DEF KeptInv, Written, CacheInv, Overlay, Fits
<1>m. "wal_lock" \notin held  BY <1>1 DEF KeptInv, NoMark, ToJournal
<1>n. NoMark'  BY <1>m DEF NoMark, delete_shm, Hold
<1>6. Descriptor'
  <2>1. held \ {"wal_shm"} = {}  BY <1>1, <1>m DEF ModeInv, ShmOK
  <2> QED  BY <2>1 DEF delete_shm, Hold, Descriptor
<1>7. Backfill'  BY <1>1 DEF Backfill
<1>8. Copying' /\ LogCopiedFirst'  BY <1>1 DEF Copying, LogCopiedFirst
<1> QED  BY <1>n, <1>4, <1>5, <1>6, <1>7, <1>8 DEF KeptInv

\* The end of set_journal_mode changes the mode bytes of page 1, and nothing else.
LEMMA Kept_patch_page1 ==
  ASSUME ModeInv, KeptInv, NEW m \in {"legacy", "wal"}, patch_page1(m)
  PROVE  KeptInv'
<1>0. UNCHANGED <<wal, path, inode, held, fd, wal_pages, dirty, safe, todo, committed, tx, faults, misnamed>>
  BY DEF patch_page1, pass, others
<1>1. /\ step \in {"say wal", "say legacy"} /\ step' = "idle"
      /\ file' = [file EXCEPT ![1].ver = m] /\ cached' = NotIn(cached, 1)
  BY DEF patch_page1
<1>2. Frames = << >> /\ Frames' = << >> /\ read_wal_pages' = read_wal_pages
  BY <1>0, <1>1, LogSame DEF ModeInv, CallInv, ToWal, Frames
<1>e. LogCopied' /\ Len(Frames) = 0  BY <1>2, NoFrames, NoFramesNext
<1>f. \A p \in Page : file'[p].tx = file[p].tx /\ (p # 1 => file'[p] = file[p])
  <2>1. file \in [Page -> Content]  BY DEF ModeInv, DiskOK
  <2>2. \A p \in Page : p # 1 => file'[p] = file[p]  BY <1>1, <2>1
  <2>3. file'[1].tx = file[1].tx
    <3>1. file[1] \in Content /\ file'[1] = [file[1] EXCEPT !.ver = m]
      BY <1>1, <2>1, PageOne
    <3> QED  BY <3>1, SMTT(30) DEF Content
  <2> QED  BY <2>2, <2>3
<1>3. Kept'  BY <1>0, <1>2, <1>f, OnlyTheFile DEF KeptInv
<1>4. Written'  BY <1>0, <1>1 DEF KeptInv, Written
<1>5. CacheInv'
  <2>1. DOMAIN cached' = DOMAIN cached \ {1} /\ \A q \in DOMAIN cached' : cached'[q] = cached[q]
    BY <1>1 DEF NotIn
  <2>2. DOMAIN cached \subseteq Page  BY DEF ModeInv, PagerOK, SomePages
  <2> QED  BY <1>0, <1>f, <2>1, <2>2 DEF KeptInv, CacheInv
<1>6. Overlay' /\ Descriptor'
  <2>1. DOMAIN wal_pages = {}
    <3>1. CASE step = "say wal"
      <4>1. mode = "legacy"  BY <3>1 DEF ModeInv, CallInv, ToWal
      <4> QED  BY <4>1 DEF ModeInv, PagerVersion
    <3>2. CASE step = "say legacy"  BY <3>2 DEF ModeInv, CallInv
    <3> QED  BY <1>1, <3>1, <3>2
  <2>2. DOMAIN read_wal_pages' = {}  BY <1>2, NoFramesNext
  <2> QED  BY <1>0, <1>1, <2>1, <2>2 DEF KeptInv, Overlay, Descriptor, Fits
<1>7. Backfill'
  <2> SUFFICES ASSUME path # 0 PROVE Stale' \/ Counted(path)'
    BY <1>0 DEF Backfill
  <2>1. CASE Stale  BY <1>0, <1>1, <1>2, <2>1 DEF Stale
  <2>2. CASE Counted(path)  BY <1>0, <1>2, <1>e, <2>2 DEF Counted
  <2> QED  BY <2>1, <2>2 DEF KeptInv, Backfill
<1>8. Copying' /\ LogCopiedFirst' /\ NoMark'
  BY <1>1 DEF Copying, LogCopiedFirst, NoMark, ToJournal
<1> QED  BY <1>3, <1>4, <1>5, <1>6, <1>7, <1>8 DEF KeptInv

\* What is left when the pager is dropped, or its process dies at a moment that
\* leaves no log without its -shm.
LEMMA Kept_Forget ==
  ASSUME ModeInv, KeptInv, Forget, Stale => Stale'
  PROVE  KeptInv'
<1>0. UNCHANGED <<file, wal, path, inode, committed, tx>>  BY DEF Forget
<1>1. /\ step' = "closed" /\ fd' = 0
      /\ DOMAIN wal_pages' = {} /\ DOMAIN cached' = {} /\ DOMAIN dirty' = {}
  BY EmptyMap DEF Forget, Hold
<1>2. Kept'  BY <1>0, FilesSame DEF KeptInv
<1>3. Written' /\ CacheInv' /\ Overlay' /\ Descriptor'
  BY <1>1 DEF Written, CacheInv, Overlay, Descriptor
<1>4. Backfill'
  <2>1. Frames' = Frames /\ LogCopied' = LogCopied  BY <1>0, LogSame, FilesSame
  <2> QED  BY <1>0, <2>1 DEF KeptInv, Backfill, Counted
<1>5. Copying' /\ LogCopiedFirst' /\ NoMark'
  BY <1>1 DEF Copying, LogCopiedFirst, NoMark, ToJournal
<1> QED  BY <1>2, <1>3, <1>4, <1>5 DEF KeptInv

LEMMA Kept_Close ==
  ASSUME ModeInv, KeptInv, Close
  PROVE  KeptInv'
<1>1. Forget /\ UNCHANGED <<wal, faults>> /\ step = "idle"  BY DEF Close, Forget
<1>2. Frames' = Frames  BY <1>1, LogSame
<1>3. Stale => Stale'  BY <1>1, <1>2 DEF Stale
<1> QED  BY <1>1, <1>3, Kept_Forget

\* The first fault may leave an -shm without its log; there is no second one that
\* could leave a log with that -shm.
LEMMA Kept_Die ==
  ASSUME ModeInv, KeptInv, Die, MaxFaults <= 1
  PROVE  KeptInv'
<1>1. Forget /\ wal' = wal /\ faults < MaxFaults /\ faults' = faults + 1
  BY DEF Die, Forget, Fault
<1>2. Frames' = Frames  BY <1>1, LogSame
<1>3. faults = 0 /\ faults' # 0
  BY <1>1, ModeConstants, SMTT(30) DEF ModeInv, CountOK
<1>4. Stale => Stale'  BY <1>1, <1>2, <1>3 DEF Stale
<1> QED  BY <1>1, <1>3, <1>4, Kept_Forget

\* So does a switch or a commit that fails between its steps.
LEMMA Kept_switch_fails ==
  ASSUME ModeInv, KeptInv, switch_fails, MaxFaults <= 1
  PROVE  KeptInv'
<1>0. UNCHANGED <<file, wal, fd, wal_pages, cached, dirty, safe, todo, committed, tx>>
  BY DEF switch_fails, memory, pass
<1>1. step' = "idle" /\ step \in Fallible /\ faults < MaxFaults /\ faults' = faults + 1
  BY DEF switch_fails, Fault
<1>n. faults = 0 /\ faults' # 0
  BY <1>1, ModeConstants, SMTT(30) DEF ModeInv, CountOK
<1>s. step \notin {"closed", "publish"}  BY <1>1 DEF Fallible
<1>2. read_wal_pages' = read_wal_pages  BY <1>0, LogSame
<1>3. Kept'  BY <1>0, FilesSame DEF KeptInv
<1>4. Written' /\ CacheInv'
  BY <1>0, <1>1, <1>s DEF KeptInv, Written, CacheInv
<1>o. Overlay'
  <2>1. Fits(wal_pages)  BY <1>s DEF KeptInv, Overlay
  <2>2. Fits(wal_pages)'  BY <1>0, <1>2, <2>1 DEF Fits
  <2> QED  BY <1>1, <2>2 DEF Overlay
<1>5. Descriptor' /\ Backfill'
  <2>1. CASE UNCHANGED <<path, inode>>
    <3>1. Descriptor'  BY <1>0, <1>1, <2>1 DEF KeptInv, Descriptor
    <3>2. Frames' = Frames /\ LogCopied' = LogCopied  BY <1>0, LogSame, FilesSame
    <3>3. Stale => Stale'  BY <1>0, <1>n, <3>2 DEF Stale
    <3>4. Counted(path) => Counted(path)'  BY <2>1, <3>2 DEF Counted
    <3> QED  BY <2>1, <3>1, <3>3, <3>4 DEF KeptInv, Backfill
  <2>2. CASE WriteFreshShm
    <3>1. (path # 0 => path' = path) /\ Counted(path)'  BY <1>0, <2>2, FreshShm
    <3> QED  BY <1>0, <1>1, <3>1 DEF KeptInv, Descriptor, Backfill
  <2> QED  BY <2>1, <2>2 DEF switch_fails
<1>6. Copying' /\ LogCopiedFirst' /\ NoMark'
  BY <1>1 DEF Copying, LogCopiedFirst, NoMark, ToJournal
<1> QED  BY <1>3, <1>4, <1>o, <1>5, <1>6 DEF KeptInv

\* A reader in another process changes nothing that the pager reads or writes.
LEMMA Kept_Reader ==
  ASSUME ModeInv, KeptInv, OpenReader \/ CloseReader \/ UNCHANGED modes
  PROVE  KeptInv'
<1>0. UNCHANGED <<file, wal, path, inode, step, held, fd, wal_pages, cached, dirty, safe, todo,
                  committed, tx, faults, misnamed>>
  BY DEF OpenReader, CloseReader, modes, memory, pass, others
<1>1. Frames' = Frames /\ read_wal_pages' = read_wal_pages  BY <1>0, LogSame
<1>2. committed_pages(safe)' = committed_pages(safe)
  BY <1>0, <1>1 DEF committed_pages, FramesOf
<1>3. Kept'  BY <1>0, FilesSame DEF KeptInv
<1>4. Written' /\ CacheInv' /\ Overlay' /\ Descriptor' /\ NoMark'
  BY <1>0, <1>1 DEF KeptInv, Written, CacheInv, Overlay, Descriptor, NoMark, Fits
<1>5. Backfill'  BY <1>0, BackfillSame DEF KeptInv
<1>6. Copying'  BY <1>0, <1>1, <1>2 DEF KeptInv, Copying
<1>7. LogCopiedFirst'  BY <1>0, <1>1 DEF KeptInv, LogCopiedFirst
<1> QED  BY <1>3, <1>4, <1>5, <1>6, <1>7 DEF KeptInv

\* A stock connection copies the whole log before it deletes it and -shm, while the
\* database is closed.
LEMMA Kept_StockClose ==
  ASSUME ModeInv, KeptInv, StockClose, ~ UnderPager
  PROVE  KeptInv'
<1>0. UNCHANGED <<step, held, fd, wal_pages, cached, dirty, safe, todo, committed, tx, faults, misnamed>>
  BY DEF StockClose, memory, pass, others
<1>1. /\ step = "closed" /\ wal' = << >> /\ path' = 0
      /\ file' = [p \in Page |-> IF p \in DOMAIN read_wal_pages THEN read_wal_pages[p] ELSE file[p]]
  BY DEF StockClose
<1>2. DOMAIN wal_pages = {} /\ DOMAIN cached = {} /\ DOMAIN dirty = {}
  BY <1>1 DEF ModeInv, CallInv
<1>3. DOMAIN read_wal_pages' = {}
  <2>1. Frames' = << >>  BY <1>1 DEF Frames
  <2> QED  BY <2>1, NoFramesNext
<1>4. Kept'  BY <1>0, <1>1, <1>3 DEF KeptInv, Kept
<1>5. Written' /\ CacheInv' /\ Overlay'
  BY <1>0, <1>1, <1>2 DEF Written, CacheInv, Overlay
<1>6. Descriptor'  BY <1>0, <1>1 DEF KeptInv, Descriptor
<1>7. Backfill'  BY <1>1 DEF Backfill
<1>8. Copying' /\ LogCopiedFirst' /\ NoMark'
  BY <1>0, <1>1 DEF Copying, LogCopiedFirst, NoMark, ToJournal
<1> QED  BY <1>4, <1>5, <1>6, <1>7, <1>8 DEF KeptInv

\* The pages that append_frames writes are all the dirty pages.
LEMMA EveryDirtyPage ==
  ASSUME NEW D \in SUBSET Page, NEW s \in [1 .. Cardinality(D) -> D],
         \A i, j \in DOMAIN s : i < j => s[i] < s[j]
  PROVE  /\ IsFiniteSet(D) /\ Cardinality(D) \in Nat
         /\ \A p \in D : \E i \in 1 .. Cardinality(D) : s[i] = p
<1> DEFINE n == Cardinality(D)
<1>1. IsFiniteSet(D) /\ n \in Nat
  <2>1. NPages \in Int /\ 1 \in Int  BY ModeConstants, SMTT(30)
  <2>2. IsFiniteSet(Page)  BY <2>1, FS_Interval DEF Page
  <2> QED  BY <2>2, FS_Subset, FS_CardinalityType
<1>2. \A p \in Page : p \in Int  BY ModeConstants, SMTT(30) DEF Page
<1>3. DOMAIN s = 1 .. n  OBVIOUS
<1> HIDE DEF n
<1>4. \A i, j \in 1 .. n : s[i] = s[j] => i = j
  <2> SUFFICES ASSUME NEW i \in 1 .. n, NEW j \in 1 .. n, i < j PROVE s[i] # s[j]
    BY <1>1, SMTT(30)
  <2>1. s[i] < s[j] /\ s[i] \in Page /\ s[j] \in Page  BY <1>3 DEF n
  <2> QED  BY <1>2, <2>1, SMTT(30)
<1>5. s \in Injection(1 .. n, D)  BY <1>3, <1>4 DEF Injection, IsInjective, n
<1>6. Cardinality(1 .. n) = n  BY <1>1, FS_Interval, SMTT(30)
<1>7. s \in Surjection(1 .. n, D)  BY <1>1, <1>5, <1>6, FS_Injection DEF n
<1> QED  BY <1>1, <1>7 DEF Surjection, n

\* The pages of a sequence of frames, each with the content of its last frame.
PageOf(s, p) == {i \in 1 .. Len(s) : s[i].page = p}
Latest(s) == [p \in {q \in Page : PageOf(s, q) # {}} |-> s[Max(PageOf(s, p))].content]

\* Two maps with the same pages.
SameMap(f, g) == DOMAIN f = DOMAIN g /\ \A p \in DOMAIN f : f[p] = g[p]

LEMMA LogIsLatest ==
  ASSUME DiskOK
  PROVE  SameMap(read_wal_pages, Latest(Frames))
<1>1. Frames \in Seq(Frame)  BY LogFrames
<1>2. DOMAIN Frames = 1 .. Len(Frames) /\ \A i \in 1 .. Len(Frames) : i <= Len(Frames)
  BY <1>1, SMTT(30)
<1>3. \A p : FramesOf(p, Len(Frames)) = PageOf(Frames, p)  BY <1>2 DEF FramesOf, PageOf
<1>4. DOMAIN read_wal_pages = DOMAIN Latest(Frames)
  <2>1. /\ DOMAIN read_wal_pages = {q \in Page : FramesOf(q, Len(Frames)) # {}}
        /\ DOMAIN Latest(Frames) = {q \in Page : PageOf(Frames, q) # {}}
    BY DEF read_wal_pages, committed_pages, Latest
  <2>2. \A q : FramesOf(q, Len(Frames)) # {} <=> PageOf(Frames, q) # {}  BY <1>3
  <2> QED  BY <2>1, <2>2
<1>5. \A p \in DOMAIN Latest(Frames) : read_wal_pages[p] = Latest(Frames)[p]
  BY <1>3, <1>4 DEF read_wal_pages, committed_pages, Latest
<1> QED  BY <1>4, <1>5 DEF SameMap

LEMMA LogIsLatestNext ==
  ASSUME DiskOK'
  PROVE  SameMap(read_wal_pages', Latest(Frames'))
<1>1. Frames' \in Seq(Frame)  BY SMTT(30) DEF DiskOK, Frames
<1>2. DOMAIN Frames' = 1 .. Len(Frames') /\ \A i \in 1 .. Len(Frames') : i <= Len(Frames')
  BY <1>1, SMTT(30)
<1>3. \A p : FramesOf(p, Len(Frames))' = PageOf(Frames', p)
  BY <1>2 DEF FramesOf, PageOf
<1>4. DOMAIN read_wal_pages' = DOMAIN Latest(Frames')
  <2>1. /\ DOMAIN read_wal_pages' = {q \in Page : FramesOf(q, Len(Frames))' # {}}
        /\ DOMAIN Latest(Frames') = {q \in Page : PageOf(Frames', q) # {}}
    BY DEF read_wal_pages, committed_pages, Latest
  <2>2. \A q : FramesOf(q, Len(Frames))' # {} <=> PageOf(Frames', q) # {}  BY <1>3
  <2> QED  BY <2>1, <2>2
<1>5. \A p \in DOMAIN Latest(Frames') : read_wal_pages'[p] = Latest(Frames')[p]
  BY <1>3, <1>4 DEF read_wal_pages, committed_pages, Latest
<1> QED  BY <1>4, <1>5 DEF SameMap

\* The last frame of a page decides.
LEMMA LastFrame ==
  ASSUME NEW s \in Seq(Frame), NEW p \in Page, NEW i \in 1 .. Len(s), s[i].page = p
  PROVE  /\ p \in DOMAIN Latest(s)
         /\ \E m \in 1 .. Len(s) : /\ s[m].page = p /\ m >= i /\ Latest(s)[p] = s[m].content
                                   /\ \A j \in 1 .. Len(s) : s[j].page = p => m >= j
<1>1. Len(s) \in Nat  BY SMTT(30)
<1>2. PageOf(s, p) \in SUBSET (1 .. Len(s)) /\ i \in PageOf(s, p)  BY DEF PageOf
<1>3. /\ Max(PageOf(s, p)) \in PageOf(s, p)
      /\ \A j \in PageOf(s, p) : Max(PageOf(s, p)) >= j
  BY <1>1, <1>2, MaxIsIn
<1>4. p \in DOMAIN Latest(s) /\ Latest(s)[p] = s[Max(PageOf(s, p))].content
  BY <1>2 DEF Latest
<1> QED  BY <1>2, <1>3, <1>4 DEF PageOf

\* A sequence followed by another.
LEMMA Follows ==
  ASSUME NEW S, NEW s \in Seq(S), NEW f \in Seq(S)
  PROVE  /\ s \o f \in Seq(S) /\ Len(s \o f) = Len(s) + Len(f)
         /\ \A i \in 1 .. Len(s) : (s \o f)[i] = s[i]
         /\ \A i \in 1 .. Len(f) : (s \o f)[Len(s) + i] = f[i]
BY SMTT(30)

\* A frame for every page of a map, with its content there.
FramesFor(f, n, d) ==
  /\ n \in Nat /\ f \in [1 .. n -> Frame] /\ DOMAIN d \subseteq Page
  /\ \A i \in 1 .. n : f[i].page \in DOMAIN d /\ f[i].content = d[f[i].page]
  /\ \A p \in DOMAIN d : \E i \in 1 .. n : f[i].page = p

\* What the log says when frames of some pages have been appended to it: the new
\* content of those pages, and of the others what it said before.
LEMMA LogAppended ==
  ASSUME NEW s \in Seq(Frame), NEW n, NEW f, NEW d, FramesFor(f, n, d)
  PROVE  /\ Len(s \o f) = Len(s) + n
         /\ DOMAIN Latest(s \o f) = DOMAIN d \cup DOMAIN Latest(s)
         /\ \A p \in DOMAIN d : Latest(s \o f)[p] = d[p]
         /\ \A p \in DOMAIN Latest(s) \ DOMAIN d : Latest(s \o f)[p] = Latest(s)[p]
<1> DEFINE k  == Len(s)
           w  == s \o f
           N  == Len(s) + n
           at == [j \in 1 .. n |-> k + j]
           D  == DOMAIN d
<1>0. /\ n \in Nat /\ f \in [1 .. n -> Frame] /\ D \subseteq Page
      /\ \A i \in 1 .. n : f[i].page \in D /\ f[i].content = d[f[i].page]
      /\ \A p \in D : \E i \in 1 .. n : f[i].page = p
  BY DEF FramesFor
<1> HIDE DEF D
<1>1. k \in Nat  BY SMTT(30)
<1>2. f \in Seq(Frame) /\ Len(f) = n  BY <1>0, SMTT(30)
<1>a. \A j \in 1 .. n : at[j] = k + j  OBVIOUS
<1>3. /\ w \in Seq(Frame) /\ Len(w) = N
      /\ \A i \in 1 .. k : w[i] = s[i]
      /\ \A i \in 1 .. n : w[at[i]] = f[i]
  <2>0. /\ s \o f \in Seq(Frame) /\ Len(s \o f) = Len(s) + Len(f)
        /\ \A i \in 1 .. Len(s) : (s \o f)[i] = s[i]
        /\ \A i \in 1 .. Len(f) : (s \o f)[Len(s) + i] = f[i]
    <3> HIDE DEF w, at, N, k
    <3> QED  BY <1>2, SMTT(30)
  <2>1. /\ s \o f \in Seq(Frame) /\ Len(s \o f) = Len(s) + n
        /\ \A i \in 1 .. Len(s) : (s \o f)[i] = s[i]
        /\ \A i \in 1 .. n : (s \o f)[Len(s) + i] = f[i]
    BY <1>2, <2>0
  <2> HIDE DEF at
  <2>2. \A i \in 1 .. n : (s \o f)[at[i]] = f[i]  BY <1>a, <2>1
  <2> QED  BY <2>1, <2>2
<1> HIDE DEF w, at
<1>4. \A i \in 1 .. N : i \in 1 .. k \/ \E j \in 1 .. n : i = at[j]
  <2> TAKE i \in 1 .. N
  <2>1. i \in 1 .. k \/ (i - k \in 1 .. n /\ i = k + (i - k))  BY <1>0, <1>1, SMTT(30)
  <2>2. CASE i - k \in 1 .. n /\ i = k + (i - k)
    <3>1. at[i - k] = k + (i - k)  BY <1>a, <2>2
    <3> QED  BY <2>2, <3>1
  <2> QED  BY <2>1, <2>2
<1>5. /\ \A i \in 1 .. k : i \in 1 .. N
      /\ \A i \in 1 .. n : at[i] \in 1 .. N /\ \A m \in 1 .. N : m >= at[i] => m \notin 1 .. k
  BY <1>0, <1>1, <1>a, SMTT(30)
<1> HIDE DEF k, N
<1>6. \A p \in D : p \in DOMAIN Latest(w) /\ Latest(w)[p] = d[p]
  <2> TAKE p \in D
  <2>1. PICK i \in 1 .. n : f[i].page = p  BY <1>0
  <2>2. PICK x \in 1 .. Len(w) : w[x].page = p /\ x = at[i]  BY <1>3, <1>5, <2>1
  <2>3. p \in DOMAIN Latest(w) /\ \E m \in 1 .. Len(w) :
          w[m].page = p /\ m >= x /\ Latest(w)[p] = w[m].content
    <3>1. p \in Page  BY <1>0
    <3>2. w \in Seq(Frame)  BY <1>3
    <3>3. w[x].page = p  BY <2>2
    <3>4. p \in DOMAIN Latest(w)  BY <3>1, <3>2, <3>3, LastFrame
    <3>5. \E m \in 1 .. Len(w) : /\ w[m].page = p /\ m >= x /\ Latest(w)[p] = w[m].content
                                 /\ \A j \in 1 .. Len(w) : w[j].page = p => m >= j
      BY <3>1, <3>2, <3>3, LastFrame
    <3> QED  BY <3>4, <3>5
  <2>4. PICK m \in 1 .. N : w[m].page = p /\ m >= x /\ Latest(w)[p] = w[m].content
    BY <1>3, <2>3
  <2>5. PICK j \in 1 .. n : m = at[j]  BY <1>4, <1>5, <2>2, <2>4
  <2>6. w[m] = f[j]  BY <1>3, <2>5
  <2> QED  BY <1>0, <2>3, <2>4, <2>6
<1>7. \A p \in Page \ D : PageOf(w, p) = PageOf(s, p)
  <2> TAKE p \in Page \ D
  <2>1. \A j \in 1 .. n : w[at[j]].page # p
    <3> TAKE j \in 1 .. n
    <3>1. w[at[j]] = f[j] /\ f[j].page \in D  BY <1>0, <1>3
    <3> QED  BY <3>1
  <2>2. ASSUME NEW i \in 1 .. N, w[i].page = p PROVE i \in 1 .. k
    <3> SUFFICES ASSUME i \notin 1 .. k PROVE FALSE  OBVIOUS
    <3>1. PICK j \in 1 .. n : i = at[j]  BY <1>4
    <3> QED  BY <2>1, <2>2, <3>1
  <2>3. PageOf(w, p) = {i \in 1 .. N : w[i].page = p}  BY <1>3 DEF PageOf
  <2>4. PageOf(s, p) = {i \in 1 .. k : s[i].page = p}  BY DEF PageOf, k
  <2>5. \A i : i \in PageOf(w, p) <=> i \in PageOf(s, p)
    BY <1>3, <1>5, <2>2, <2>3, <2>4
  <2> QED  BY <2>3, <2>4, <2>5
<1>8. /\ DOMAIN Latest(w) = {q \in Page : PageOf(w, q) # {}}
      /\ DOMAIN Latest(s) = {q \in Page : PageOf(s, q) # {}}
  BY DEF Latest
<1>9. DOMAIN Latest(w) = D \cup DOMAIN Latest(s)
  <2>1. ASSUME NEW q \in Page, q \in DOMAIN Latest(s) PROVE q \in DOMAIN Latest(w)
    BY <1>6, <1>7, <1>8, <2>1
  <2>2. ASSUME NEW q \in Page \ D, q \in DOMAIN Latest(w) PROVE q \in DOMAIN Latest(s)
    BY <1>7, <1>8, <2>2
  <2> QED  BY <1>0, <1>6, <1>8, <2>1, <2>2
<1>10. \A p \in DOMAIN Latest(s) \ D : Latest(w)[p] = Latest(s)[p]
  <2> TAKE p \in DOMAIN Latest(s) \ D
  <2>1. p \in Page \ D /\ PageOf(w, p) = PageOf(s, p) /\ PageOf(s, p) # {}  BY <1>7, <1>8
  <2>2. Max(PageOf(s, p)) \in 1 .. k
    <3>1. PageOf(s, p) \in SUBSET (1 .. k)  BY DEF PageOf, k
    <3>2. Max(PageOf(s, p)) \in PageOf(s, p)  BY <1>1, <2>1, <3>1, MaxIsIn
    <3> QED  BY <3>1, <3>2
  <2>3. /\ Latest(w)[p] = w[Max(PageOf(w, p))].content
        /\ Latest(s)[p] = s[Max(PageOf(s, p))].content
    BY <2>1 DEF Latest
  <2> QED  BY <1>3, <2>1, <2>2, <2>3
<1> QED  BY <1>3, <1>6, <1>9, <1>10 DEF w, N, D

\* A commit in WAL mode appends all the dirty pages to the log.
LEMMA Kept_append_frames ==
  ASSUME ModeInv, ModeInv', KeptInv, append_frames
  PROVE  KeptInv'
<1>0. UNCHANGED <<file, path, inode, held, fd, wal_pages, cached, dirty, safe, todo, faults>>
  BY DEF append_frames, Committing, memory, pass
<1>1. /\ step = "append" /\ step' = "publish" /\ tx' = tx + 1
      /\ committed' = [p \in Page |-> IF p \in DOMAIN dirty THEN tx + 1 ELSE committed[p]]
      /\ wal # << >> /\ Frames = wal[1]
  BY DEF append_frames, Committing, ModeInv, CallInv, Logging, Frames
<1> DEFINE n == Cardinality(DOMAIN dirty)
<1>2. PICK pages \in [1 .. n -> DOMAIN dirty] :
        /\ \A i, j \in DOMAIN pages : i < j => pages[i] < pages[j]
        /\ wal' = <<wal[1] \o [i \in 1 .. n |-> [page |-> pages[i], content |-> dirty[pages[i]]]]>>
  BY DEF append_frames
<1>d. DOMAIN dirty \in SUBSET Page /\ \A p \in DOMAIN dirty : dirty[p] \in Content
  BY DEF ModeInv, PagerOK, SomePages
<1>3. n \in Nat /\ \A p \in DOMAIN dirty : \E i \in 1 .. n : pages[i] = p
  BY <1>2, <1>d, EveryDirtyPage
<1> DEFINE f == [i \in 1 .. n |-> [page |-> pages[i], content |-> dirty[pages[i]]]]
<1> HIDE DEF n
<1>4. /\ f \in [1 .. n -> Frame]
      /\ \A i \in 1 .. n : f[i].page = pages[i] /\ f[i].content = dirty[pages[i]]
  <2>1. \A p \in Page, c \in Content :
          LET r == [page |-> p, content |-> c] IN r \in Frame /\ r.page = p /\ r.content = c
    BY SMTT(30) DEF Frame
  <2>2. \A i \in 1 .. n : pages[i] \in Page /\ dirty[pages[i]] \in Content  BY <1>d
  <2>3. \A i \in 1 .. n : f[i] = [page |-> pages[i], content |-> dirty[pages[i]]]  OBVIOUS
  <2>4. \A i \in 1 .. n : f[i] \in Frame /\ f[i].page = pages[i] /\ f[i].content = dirty[pages[i]]
    BY <2>1, <2>2, <2>3
  <2> QED  BY <2>4
<1>5. Frames' = Frames \o f
  <2>1. wal' = <<Frames \o f>>  BY <1>1, <1>2
  <2> HIDE DEF f
  <2>2. wal' # << >> /\ wal'[1] = Frames \o f  BY <2>1, SMTT(30)
  <2> QED  BY <2>2 DEF Frames
<1> HIDE DEF f
<1>s. Frames \in Seq(Frame)  BY LogFrames DEF ModeInv
<1>6. /\ Len(Frames \o f) = Len(Frames) + n
      /\ DOMAIN read_wal_pages' = DOMAIN dirty \cup DOMAIN read_wal_pages
      /\ \A p \in DOMAIN dirty : read_wal_pages'[p] = dirty[p]
      /\ \A p \in DOMAIN read_wal_pages \ DOMAIN dirty : read_wal_pages'[p] = read_wal_pages[p]
  <2>1. SameMap(read_wal_pages, Latest(Frames)) /\ SameMap(read_wal_pages', Latest(Frames \o f))
    BY <1>5, LogIsLatest, LogIsLatestNext DEF ModeInv
  <2>2. FramesFor(f, n, dirty)
    <3>1. n \in Nat /\ f \in [1 .. n -> Frame] /\ DOMAIN dirty \subseteq Page  BY <1>3, <1>4, <1>d
    <3>2. ASSUME NEW i \in 1 .. n PROVE f[i].page \in DOMAIN dirty /\ f[i].content = dirty[f[i].page]
      <4>1. f[i].page = pages[i] /\ f[i].content = dirty[pages[i]]  BY <1>4
      <4>2. pages[i] \in DOMAIN dirty  OBVIOUS
      <4> QED  BY <4>1, <4>2
    <3>3. ASSUME NEW p \in DOMAIN dirty PROVE \E i \in 1 .. n : f[i].page = p
      <4>1. PICK i \in 1 .. n : pages[i] = p  BY <1>3
      <4>2. f[i].page = pages[i]  BY <1>4
      <4> QED  BY <4>1, <4>2
    <3> QED  BY <3>1, <3>2, <3>3 DEF FramesFor
  <2>3. /\ Len(Frames \o f) = Len(Frames) + n
        /\ DOMAIN Latest(Frames \o f) = DOMAIN dirty \cup DOMAIN Latest(Frames)
        /\ \A p \in DOMAIN dirty : Latest(Frames \o f)[p] = dirty[p]
        /\ \A p \in DOMAIN Latest(Frames) \ DOMAIN dirty : Latest(Frames \o f)[p] = Latest(Frames)[p]
    BY <1>s, <2>2, LogAppended
  <2> QED  BY <2>1, <2>3 DEF SameMap
<1>7. Kept'
  <2> SUFFICES ASSUME NEW p \in Page
               PROVE  /\ p \in DOMAIN read_wal_pages' => read_wal_pages'[p].tx = committed'[p]
                      /\ p \notin DOMAIN read_wal_pages' => file'[p].tx = committed'[p]
    BY DEF Kept
  <2>1. CASE p \in DOMAIN dirty
    <3>1. dirty[p].tx = tx + 1  BY <1>1, <2>1 DEF KeptInv, Written
    <3> QED  BY <1>1, <1>6, <2>1, <3>1
  <2>2. CASE p \notin DOMAIN dirty
    <3>1. committed'[p] = committed[p]  BY <1>1, <2>2
    <3> QED  BY <1>0, <1>6, <2>2, <3>1 DEF KeptInv, Kept
  <2> QED  BY <2>1, <2>2
<1>8. Written' /\ CacheInv' /\ Descriptor'
  BY <1>0, <1>1 DEF KeptInv, Written, CacheInv, Descriptor
<1>9. Overlay'
  <2>1. Fits(wal_pages)  BY <1>1 DEF KeptInv, Overlay
  <2>2. DOMAIN Over(dirty, wal_pages) = DOMAIN dirty \cup DOMAIN wal_pages
    BY DEF Over
  <2>3. \A p \in DOMAIN Over(dirty, wal_pages) :
          Over(dirty, wal_pages)[p] = IF p \in DOMAIN dirty THEN dirty[p] ELSE wal_pages[p]
    BY DEF Over
  <2> DEFINE w == Over(dirty, wal_pages)
  <2>4. w' = w  BY <1>0 DEF Over
  <2> HIDE DEF w
  <2>5. DOMAIN w = DOMAIN dirty \cup DOMAIN wal_pages
        /\ \A p \in DOMAIN w : w[p] = IF p \in DOMAIN dirty THEN dirty[p] ELSE wal_pages[p]
    BY <2>2, <2>3 DEF w
  <2>6. ASSUME NEW p \in DOMAIN read_wal_pages' PROVE p \in DOMAIN w /\ w[p] = read_wal_pages'[p]
    <3>1. CASE p \in DOMAIN dirty  BY <1>6, <2>5, <3>1
    <3>2. CASE p \notin DOMAIN dirty  BY <1>6, <2>1, <2>5, <2>6, <3>2 DEF Fits
    <3> QED  BY <3>1, <3>2
  <2>7. ASSUME NEW p \in DOMAIN w, p \notin DOMAIN read_wal_pages' PROVE w[p] = file[p]
    BY <1>6, <2>1, <2>5, <2>7 DEF Fits
  <2>8. Fits(w)'  BY <1>0, <2>4, <2>6, <2>7 DEF Fits
  <2> QED  BY <1>1, <2>8 DEF Overlay, w
<1>10. Backfill'
  <2> SUFFICES ASSUME path # 0 PROVE Counted(path)'
    BY <1>0 DEF Backfill
  <2>1. Counted(path)  BY <1>1 DEF KeptInv, Backfill, Stale
  <2>2. n # 0
    <3>1. DOMAIN dirty # {}  BY <1>1 DEF KeptInv, Written
    <3>2. PICK p \in DOMAIN dirty : TRUE  BY <3>1
    <3>3. PICK i \in 1 .. n : pages[i] = p  BY <1>3
    <3> QED  BY <3>3, <1>3, SMTT(30)
  <2>3. inode[path].backfill \in Nat
    <3>1. inode[path] \in [mx : Nat, backfill : Nat]  BY DEF ModeInv, ShmOK
    <3> QED  BY <3>1, SMTT(30)
  <2>5. Len(Frames \o f) = Len(Frames) + n /\ Len(Frames) \in Nat
    BY <1>6, LogFrames DEF ModeInv
  <2>6. inode[path].backfill <= Len(Frames)  BY <2>1 DEF Counted
  <2>7. inode[path].backfill <= Len(Frames') /\ inode[path].backfill # Len(Frames')
    BY <1>3, <1>5, <2>2, <2>3, <2>5, <2>6, SMTT(30)
  <2> QED  BY <1>0, <2>7 DEF Counted
<1>11. Copying' /\ LogCopiedFirst' /\ NoMark'
  BY <1>1 DEF Copying, LogCopiedFirst, NoMark, ToJournal
<1> QED  BY <1>7, <1>8, <1>9, <1>10, <1>11 DEF KeptInv

-----------------------------------------------------------------------------
\* A new database has nothing committed.
LEMMA KeptInit == ModeInit => KeptInv
<1> SUFFICES ASSUME ModeInit PROVE KeptInv  OBVIOUS
<1>1. Frames = << >>  BY DEF ModeInit, Frames
<1>2. DOMAIN read_wal_pages = {}  BY <1>1, NoFrames
<1>3. \A p \in Page : file[p].tx = 0 /\ committed[p] = 0
  <2> TAKE p \in Page
  <2> DEFINE v == IF p = 1 THEN "legacy" ELSE "none"
  <2>1. file[p] = [tx |-> 0, ver |-> v] /\ committed[p] = 0  BY DEF ModeInit
  <2> HIDE DEF v
  <2>2. [tx |-> 0, ver |-> v].tx = 0  BY SMTT(30)
  <2> QED  BY <2>1, <2>2
<1>4. Kept  BY <1>2, <1>3 DEF Kept
<1>5. Written /\ CacheInv /\ Overlay /\ Descriptor
  BY EmptyMap DEF ModeInit, Written, CacheInv, Overlay, Descriptor
<1>6. NoMark /\ Backfill /\ Copying /\ LogCopiedFirst
  BY DEF ModeInit, NoMark, Backfill, Copying, LogCopiedFirst
<1> QED  BY <1>4, <1>5, <1>6 DEF KeptInv

\* No step loses a committed page, when there is at most one fault, it is not a
\* failed write of page 1, and the log is not deleted under an open pager.
LEMMA KeptNext ==
  ASSUME MaxFaults <= 1, ~ UnderPager, ModeInv, ModeInv', KeptInv, [ModeNext]_modes, ~ misnamed'
  PROVE  KeptInv'
<1>1. CASE UNCHANGED modes  BY <1>1, Kept_Reader
<1>2. ASSUME NEW p \in Page, Read(p) \/ get_page_mut(p) PROVE KeptInv'
  BY <1>2, Kept_Read, Kept_get_page_mut
<1>3. ASSUME NEW m \in {"legacy", "wal"}, patch_page1(m) PROVE KeptInv'
  BY <1>3, Kept_patch_page1
<1>4. \A m : ~ patch_page1_fails(m)  BY DEF patch_page1_fails
<1>5. Die \/ switch_fails => KeptInv'  BY Kept_Die, Kept_switch_fails
<1> QED
  BY <1>1, <1>2, <1>3, <1>4, <1>5, Kept_Open, Kept_rollback, Kept_flush_locked,
     Kept_flush_wal_locked, Kept_recreate_wal_locked, Kept_append_frames, Kept_publish_mx_frame,
     Kept_switch_journal_to_wal, Kept_write_fresh_shm, Kept_switch_wal_to_journal,
     Kept_begin_pass, Kept_copy_page, Kept_publish_backfill, Kept_end_pass, Kept_delete_wal,
     Kept_delete_shm, Kept_Close, Kept_Reader, Kept_StockClose
  DEF ModeNext

\* What holds until a write of page 1 fails, under these assumptions.
BothInv == misnamed \/ (ModeInv /\ KeptInv)

LEMMA KeptAlways ==
  ASSUME MaxFaults <= 1, ~ UnderPager
  PROVE  ModeSpec => []BothInv
<1>1. ModeInit => BothInv  BY ModeInvInit, KeptInit DEF BothInv
<1>2. BothInv /\ [ModeNext]_modes => BothInv'
  <2>1. ASSUME misnamed, [ModeNext]_modes PROVE misnamed'  BY <2>1, StaysMisnamed
  <2>2. ASSUME ModeInv, KeptInv, [ModeNext]_modes, ~ misnamed' PROVE ModeInv' /\ KeptInv'
    <3>1. ModeInv'  BY <2>2, ModeInvNext
    <3> QED  BY <2>2, <3>1, KeptNext
  <2> QED  BY <2>1, <2>2 DEF BothInv
<1> QED  BY <1>1, <1>2, PTL DEF ModeSpec

\* Kept says of the two places what FilesSayCommitted says of the files.
LEMMA KeptIsCommitted == ModeInv /\ KeptInv => FilesSayCommitted
<1> SUFFICES ASSUME ModeInv, KeptInv, NEW p \in Page
             PROVE  Over(read_wal_pages, file)[p].tx = committed[p]
  BY DEF FilesSayCommitted
<1>1. DOMAIN file = Page  BY DEF ModeInv, DiskOK
<1>2. Over(read_wal_pages, file)[p] =
        IF p \in DOMAIN read_wal_pages THEN read_wal_pages[p] ELSE file[p]
  BY <1>1 DEF Over
<1> QED  BY <1>2 DEF KeptInv, Kept

\* Overlay, cache and main file all say what was committed.
LEMMA KeptIsRead == ModeInv /\ KeptInv => PagerReadsCommitted
<1> SUFFICES ASSUME ModeInv, KeptInv, step = "idle", NEW p \in Page \ DOMAIN dirty
             PROVE  read_page(p).tx = committed[p]
  BY DEF PagerReadsCommitted
<1>1. Fits(wal_pages)  BY DEF KeptInv, Overlay
<1>2. CASE p \in DOMAIN wal_pages \ DOMAIN dirty
  <2>1. read_page(p) = wal_pages[p]  BY <1>2 DEF read_page
  <2> QED  BY <1>1, <1>2, <2>1 DEF KeptInv, Kept, Fits
<1>o. p \notin DOMAIN wal_pages => file[p].tx = committed[p]
  BY <1>1 DEF KeptInv, Kept, Fits
<1>3. CASE p \in DOMAIN cached \ (DOMAIN wal_pages \cup DOMAIN dirty)
  <2>1. read_page(p) = cached[p]  BY <1>3 DEF read_page
  <2> QED  BY <1>o, <1>3, <2>1 DEF KeptInv, CacheInv
<1>4. CASE p \notin DOMAIN cached \cup DOMAIN wal_pages \cup DOMAIN dirty
  <2>1. read_page(p) = file[p]  BY <1>4 DEF read_page
  <2> QED  BY <1>o, <1>4, <2>1
<1> QED  BY <1>2, <1>3, <1>4

\* Whatever the number of pages and transactions, and with or without a reader in
\* another process, a process that opens the database at any moment of
\* set_journal_mode or of a commit, after its process died in one of them, or after
\* one of their file operations failed, reads what was committed last.  A second
\* fault, a failed write of page 1, or a log deleted under an open pager may lose it.
THEOREM SwitchKeepsCommitted ==
  ASSUME MaxFaults <= 1, ~ UnderPager
  PROVE  ModeSpec => []CommittedKept
<1>1. BothInv => CommittedKept  BY KeptIsCommitted DEF BothInv, CommittedKept
<1> QED  BY <1>1, KeptAlways, PTL

\* Under the same assumptions the pager itself reads, between calls, what was
\* committed last: neither the overlay nor the page cache of read_page outlives a
\* mode switch, a checkpoint pass or a commit to hide it, and the overlay that a
\* switch leaves behind when it cannot delete -shm says what the main file says.
THEOREM OverlayAndCacheAgree ==
  ASSUME MaxFaults <= 1, ~ UnderPager
  PROVE  ModeSpec => []PagerReadsCommitted
<1>1. BothInv => PagerReadsCommitted  BY KeptIsRead DEF BothInv, PagerReadsCommitted
<1> QED  BY <1>1, KeptAlways, PTL

\* Under the same assumptions, and until a write of page 1 fails,
\* switch_wal_to_journal deletes a log only when every page of it is in the main
\* file, whichever pass copied it.
THEOREM CopiedBeforeDeleted ==
  ASSUME MaxFaults <= 1, ~ UnderPager
  PROVE  ModeSpec => [](misnamed \/ LogCopiedFirst)
<1>1. BothInv => misnamed \/ LogCopiedFirst  BY DEF BothInv, KeptInv
<1> QED  BY <1>1, KeptAlways, PTL
=============================================================================
