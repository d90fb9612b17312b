----------------------------- MODULE WalPagerLog -----------------------------
(***************************************************************************)
(* The pager in WAL mode, for any sets of connections and checkpointers,   *)
(* any number of pages, reader slots and transactions: its types, the      *)
(* write lock, nBackfill, the main file together with the log, and the     *)
(* resume hints.                                                           *)
(***************************************************************************)
EXTENDS WalPager, WellFoundedInduction, TLAPS

USE ZenonT(30)

Flushing(c) == pc[c] \in {"flush", "written", "synced"}

\* A pass that has decided to copy will move nBackfill forward.
PassAdvances == ck.at \in {"write", "publish"} => ck.safe > nBackfill

\* A flush has something to write and a number to write it under.
FlushHasWork ==
  \A c \in Conn : /\ Flushing(c) => dirty[c] # {}
                  /\ pc[c] = "flush" => ntx < MaxTx

\* The frames are in the order of their transactions, and a commit frame is the
\* last one of its transaction.
LogOrdered ==
  /\ \A i \in 1 .. Len(wal) : wal[i].tx \in 1 .. ntx
  /\ \A i, j \in 1 .. Len(wal) : i <= j => wal[i].tx <= wal[j].tx
  /\ \A i, j \in 1 .. Len(wal) : i < j /\ wal[i].commit => wal[i].tx < wal[j].tx

-----------------------------------------------------------------------------
(* The main file and the log, when no frame that a power loss may take has *)
(* been copied.                                                            *)

CopiesStay == EarlyCheckpoint => ~ PowerFails

\* The frames that are there to stay.
Stable == IF PowerFails THEN synced ELSE Len(wal)

\* Page p is in a transaction that is committed in the first n frames.
InCommitted(p, n) ==
  \E i, j \in 1 .. Len(wal) : i <= j /\ j <= n /\ wal[i].page = p /\ wal[j].commit

\* What the main file may hold of page p is in the log too, or was there first.
FileFromLog ==
  /\ \A p \in Page : /\ file[p] \in maybe[p]
                     /\ \A v \in maybe[p] : v = 0 \/ InCommitted(p, Stable)
  /\ ck.valid <= Stable

-----------------------------------------------------------------------------
(* Hints, when every commit writes its frames.                             *)

\* Every hint is a first part of the log, and the frames that a flush believes
\* to be in the file after its write are the log.
HintsAreFirstParts ==
  \A c \in Conn :
    /\ Len(hint[c]) <= Len(wal)
    /\ \A i \in 1 .. Len(hint[c]) : hint[c][i] = wal[i]
    /\ pc[c] \in {"written", "synced"} => writer[c] = wal

-----------------------------------------------------------------------------
(* The run of frames of a flush.                                           *)

LEMMA Numbers == NPages \in Nat /\ NPages > 0 /\ NSlots \in Nat /\ NSlots > 0 /\ MaxTx \in Nat
  BY WalConstants, SMTT(30)

LEMMA PagesAreNumbers == \A p \in Page : p \in Nat
  BY WalConstants, SMTT(30) DEF Page

\* Facts about sequences: the positions, the elements, the empty one, equality and
\* concatenation.
LEMMA SeqDomain ==
  ASSUME NEW S, NEW q \in Seq(S)
  PROVE  Len(q) \in Nat /\ DOMAIN q = 1 .. Len(q) /\ q \in [1 .. Len(q) -> S]
  BY SMTT(30)

LEMMA SeqElement ==
  ASSUME NEW S, NEW q \in Seq(S), NEW i \in 1 .. Len(q)
  PROVE  q[i] \in S
  BY SMTT(30)

LEMMA SeqEmpty ==
  ASSUME NEW S
  PROVE  << >> \in Seq(S) /\ Len(<< >>) = 0 /\ \A q \in Seq(S) : q # << >> => Len(q) \in Nat \ {0}
  BY SMTT(30)

LEMMA SeqSame ==
  ASSUME NEW S, NEW q \in Seq(S), NEW r \in Seq(S), Len(q) = Len(r),
         \A i \in 1 .. Len(q) : q[i] = r[i]
  PROVE  q = r
  BY SMTT(30)

LEMMA SeqConcat ==
  ASSUME NEW S, NEW q \in Seq(S), NEW r \in Seq(S)
  PROVE  /\ q \o r \in Seq(S) /\ Len(q \o r) = Len(q) + Len(r)
         /\ \A i \in 1 .. Len(q) + Len(r) :
              (q \o r)[i] = IF i <= Len(q) THEN q[i] ELSE r[i - Len(q)]
  BY SMTT(30)

\* The list of the dirty pages is a sequence of at most NPages of them.
LEMMA AscendingIsOnto ==
  ASSUME NEW D \in SUBSET Page, NEW s \in Ascending(D)
  PROVE  /\ s \in Seq(D) /\ Len(s) \in Nat /\ Len(s) <= NPages /\ DOMAIN s = 1 .. Len(s)
         /\ \A p \in D : \E i \in 1 .. Len(s) : s[i] = p
<1>1. PICK n \in 0 .. NPages : s \in [1 .. n -> D]
  BY DEF Ascending
<1>2. n \in Nat /\ n <= NPages
  BY Numbers, SMTT(30)
<1>3. s \in Seq(D) /\ Len(s) = n /\ DOMAIN s = 1 .. n
  BY <1>1, <1>2, SMTT(30)
<1> QED
  BY <1>2, <1>3 DEF Ascending

\* What append_frames and commit put into the buffer: a frame for every dirty page,
\* all of the next transaction, the last of them with the commit mark.
LEMMA RunFacts ==
  ASSUME TypeOK, NEW c \in Conn, ntx < MaxTx, NEW r \in append_frames(c)
  PROVE  /\ r \in Seq(Frame) /\ Len(r) <= NPages
         /\ dirty[c] # {} => Len(r) > 0
         /\ \A i \in 1 .. Len(r) : /\ r[i].page \in dirty[c] /\ r[i].tx = ntx + 1
                                   /\ r[i].commit <=> i = Len(r)
         /\ \A p \in dirty[c] : \E i \in 1 .. Len(r) : r[i].page = p
<1>1. dirty[c] \in SUBSET Page /\ ntx + 1 \in Tx
  BY WalConstants, SMTT(30) DEF TypeOK, Tx
<1>2. PICK s \in Ascending(dirty[c]) :
        r = [i \in DOMAIN s |-> [page |-> s[i], tx |-> ntx + 1, commit |-> i = Len(s)]]
  BY DEF append_frames
<1> DEFINE n == Len(s)
<1>3. /\ s \in Seq(dirty[c]) /\ Len(s) = n /\ DOMAIN s = 1 .. n /\ n \in Nat /\ n <= NPages
      /\ \A p \in dirty[c] : \E i \in 1 .. n : s[i] = p
  BY <1>1, <1>2, AscendingIsOnto
<1>4. ASSUME NEW i \in 1 .. n
      PROVE  /\ r[i] \in Frame
             /\ r[i].page = s[i] /\ s[i] \in dirty[c] /\ r[i].tx = ntx + 1
             /\ r[i].commit <=> i = n
  <2>1. s[i] \in dirty[c]
    BY <1>3, SMTT(30)
  <2>2. r[i] = [page |-> s[i], tx |-> ntx + 1, commit |-> i = n]
    BY <1>2, <1>3
  <2> HIDE DEF n
  <2>3. r[i].page = s[i] /\ r[i].tx = ntx + 1
    BY <2>2, SMTT(30)
  <2>4. r[i].commit = (i = n)
    BY <2>2, SMTT(30)
  <2>5. s[i] \in Page
    BY <1>1, <2>1
  <2>6. r[i] \in Frame
    BY <1>1, <2>2, <2>5, SMTT(30) DEF Frame
  <2> QED
    BY <2>1, <2>3, <2>4, <2>6
<1>7. r \in [1 .. n -> Frame]
  BY <1>2, <1>3, <1>4
<1>8. r \in Seq(Frame) /\ Len(r) = n
  BY <1>3, <1>7, SMTT(30)
<1>9. dirty[c] # {} => n > 0
  <2> SUFFICES ASSUME NEW p \in dirty[c] PROVE n > 0
    OBVIOUS
  <2>1. PICK i \in 1 .. n : s[i] = p
    BY <1>3
  <2> QED
    BY <1>3, <2>1, SMTT(30)
<1>10. ASSUME NEW p \in dirty[c] PROVE \E i \in 1 .. n : r[i].page = p
  <2>1. PICK i \in 1 .. n : s[i] = p
    BY <1>3
  <2>2. r[i].page = s[i]
    BY <1>4
  <2> QED
    BY <2>1, <2>2
<1> QED
  BY <1>3, <1>4, <1>8, <1>9, <1>10

-----------------------------------------------------------------------------
(* Types, and the write lock.                                              *)

\* A pass writes pages of frames that it has read, and the log still has these.
PassReadsLog ==
  /\ ck.valid <= Len(wal)
  /\ ck.at = "write" => ck.todo \subseteq DOMAIN committed_pages(Copied)

Base == TypeOK /\ SingleWriter /\ FlushHasWork /\ PassReadsLog

\* Frames are written behind the log or behind frames that do not verify: those
\* of the log stay as they are.
LEMMA LandFacts ==
  ASSUME TypeOK, NEW base, NEW r \in Seq(Frame), Land(base, r)
  PROVE  /\ wal' \in Seq(Frame) /\ junk' \in Nat /\ synced' = synced
         /\ synced \in 0 .. Len(wal') /\ Len(wal') >= Len(wal)
         /\ \A i \in 1 .. Len(wal) : wal'[i] = wal[i]
         /\ wal' = wal \o r \/ wal' = wal
<1>1. wal \in Seq(Frame) /\ junk \in Nat /\ synced \in 0 .. Len(wal)
  BY DEF TypeOK
<1>2. wal' = wal \o r \/ wal' = wal
  BY DEF Land
<1>3. Len(r) \in Nat /\ Len(wal) \in Nat
  BY <1>1, SeqDomain
<1>4. junk' \in Nat /\ synced' = synced
  BY <1>1, <1>3, SMTT(30) DEF Land
<1>5. CASE wal' = wal \o r
  BY <1>1, <1>3, <1>4, <1>5, SMTT(30)
<1>6. CASE wal' = wal
  BY <1>1, <1>3, <1>4, <1>6, SMTT(30)
<1> QED
  BY <1>2, <1>5, <1>6

\* What is cut short is a first part of a run of frames.
LEMMA CutFacts ==
  ASSUME TypeOK, NEW c \in Conn, ntx < MaxTx, NEW r \in append_frames(c),
         NEW k \in 1 .. Len(r)
  PROVE  /\ SubSeq(r, 1, k) \in Seq(Frame) /\ Len(SubSeq(r, 1, k)) = k
         /\ \A i \in 1 .. k : SubSeq(r, 1, k)[i] = r[i]
<1>1. r \in Seq(Frame)
  BY RunFacts
<1> QED
  BY <1>1, SMTT(30)

\* What the end of some connections leaves behind.
LEMMA GoneFacts ==
  ASSUME TypeOK, NEW C \in SUBSET Conn, Gone(C)
  PROVE  /\ pc' \in [Conn -> {"closed", "claimed", "marked", "ready", "flush", "written", "synced"}]
         /\ slot' \in [Conn -> Slot \cup {0}] /\ pin' \in [Conn -> Nat]
         /\ overlay' \in [Conn -> UNION {[S -> Tx] : S \in SUBSET Page}]
         /\ dirty' \in [Conn -> SUBSET Page] /\ reserved' \in [Conn -> BOOLEAN]
         /\ hint' \in [Conn -> Seq(Frame)] /\ writer' \in [Conn -> Seq(Frame)]
         /\ sees' \in [Conn -> [Page -> Tx]]
         /\ readLock' \in [Slot -> Conn \cup {NoProc}] /\ writeLock' \in Conn \cup {NoProc}
         /\ \A c \in Conn : IF c \in C THEN pc'[c] = "closed"
                            ELSE /\ pc'[c] = pc[c] /\ slot'[c] = slot[c] /\ pin'[c] = pin[c]
                                 /\ overlay'[c] = overlay[c] /\ dirty'[c] = dirty[c]
                                 /\ hint'[c] = hint[c] /\ writer'[c] = writer[c]
                                 /\ sees'[c] = sees[c]
<1>1. overlay' \in [Conn -> UNION {[S -> Tx] : S \in SUBSET Page}]
  <2>1. Nowhere \in [{} -> Tx] /\ {} \in SUBSET Page
    BY DEF Nowhere
  <2>2. Nowhere \in UNION {[S -> Tx] : S \in SUBSET Page}
    BY <2>1
  <2> QED
    BY <2>2 DEF Gone, TypeOK
<1>2. /\ pc' \in [Conn -> {"closed", "claimed", "marked", "ready", "flush", "written", "synced"}]
      /\ pin' \in [Conn -> Nat]
  BY SMTT(30) DEF Gone, TypeOK
<1>3. slot' \in [Conn -> Slot \cup {0}] /\ dirty' \in [Conn -> SUBSET Page]
  BY DEF Gone, TypeOK
<1>4. reserved' \in [Conn -> BOOLEAN]
  BY DEF Gone, TypeOK
<1>5. hint' \in [Conn -> Seq(Frame)] /\ writer' \in [Conn -> Seq(Frame)]
  <2>1. << >> \in Seq(Frame)
    BY SeqEmpty
  <2> QED
    BY <2>1 DEF Gone, TypeOK, NoHint, NoFrames
<1>6. sees' \in [Conn -> [Page -> Tx]]
  <2>1. 0 \in Tx
    BY WalConstants, SMTT(30) DEF Tx
  <2>2. [p \in Page |-> 0] \in [Page -> Tx]
    BY <2>1
  <2> QED
    BY <2>2 DEF Gone, TypeOK
<1>7. readLock' \in [Slot -> Conn \cup {NoProc}] /\ writeLock' \in Conn \cup {NoProc}
  BY DEF Gone, TypeOK
<1>8. \A c \in Conn : IF c \in C THEN pc'[c] = "closed"
                      ELSE /\ pc'[c] = pc[c] /\ slot'[c] = slot[c] /\ pin'[c] = pin[c]
                           /\ overlay'[c] = overlay[c] /\ dirty'[c] = dirty[c]
                           /\ hint'[c] = hint[c] /\ writer'[c] = writer[c]
                           /\ sees'[c] = sees[c]
  BY DEF Gone
<1> QED
  BY <1>1, <1>2, <1>3, <1>4, <1>5, <1>6, <1>7, <1>8

-----------------------------------------------------------------------------
(* Reading a log.                                                          *)

\* A bounded, non-empty set of numbers has a greatest one, and Max is it.
LEMMA MaxFacts ==
  ASSUME NEW n \in Nat, NEW S \in SUBSET (0 .. n), S # {}
  PROVE  Max(S) \in S /\ \A i \in S : i <= Max(S)
<1> DEFINE T == {n - i : i \in S}
<1>1. T \subseteq Nat /\ T # {}
  <2>1. \A i \in S : n - i \in Nat
    BY SMTT(30)
  <2> QED
    BY <2>1
<1>2. PICK x \in T : \A y \in T : ~ (<<y, x>> \in OpToRel(<, Nat))
  <2> HIDE DEF T
  <2> QED
    BY <1>1, NatLessThanWellFounded, WFMin
<1>3. \A y \in T : ~ (y < x)
  <2> HIDE DEF T
  <2> QED
    BY <1>1, <1>2 DEF OpToRel
<1>4. PICK m \in S : x = n - m
  OBVIOUS
<1>5. \A i \in S : m >= i
  <2> TAKE i \in S
  <2>1. ~ (n - i < n - m)
    BY <1>3, <1>4
  <2> QED
    BY <2>1, SMTT(30)
<1>6. Max(S) \in S /\ \A i \in S : Max(S) >= i
  BY <1>4, <1>5 DEF Max
<1> QED
  BY <1>6, SMTT(30)

\* CommitEnd is the last commit frame.
LEMMA CommitEndFacts ==
  ASSUME NEW w \in Seq(Frame)
  PROVE  /\ CommitEnd(w) \in 0 .. Len(w)
         /\ CommitEnd(w) > 0 => w[CommitEnd(w)].commit
         /\ \A i \in 1 .. Len(w) : w[i].commit => i <= CommitEnd(w)
<1> DEFINE S == {0} \cup {i \in DOMAIN w : w[i].commit}
<1>1. Len(w) \in Nat /\ DOMAIN w = 1 .. Len(w)
  BY SeqDomain
<1>2. S \in SUBSET (0 .. Len(w)) /\ S # {}
  BY <1>1, SMTT(30)
<1>3. Max(S) \in S /\ \A i \in S : i <= Max(S)
  BY <1>1, <1>2, MaxFacts
<1>4. CommitEnd(w) = Max(S)
  BY DEF CommitEnd
<1> QED
  BY <1>1, <1>2, <1>3, <1>4, SMTT(30)

\* committed_pages has the pages of the frames up to the last commit frame, each as
\* its last frame there has it.
LEMMA CommittedPages ==
  ASSUME NEW w \in Seq(Frame)
  PROVE  /\ DOMAIN committed_pages(w) = {w[i].page : i \in 1 .. CommitEnd(w)}
         /\ DOMAIN committed_pages(w) \in SUBSET Page
         /\ \A p \in DOMAIN committed_pages(w) : \E l \in 1 .. CommitEnd(w) :
              /\ w[l].page = p /\ committed_pages(w)[p] = w[l].tx
              /\ \A j \in 1 .. CommitEnd(w) : w[j].page = p => j <= l
         /\ committed_pages(w) \in UNION {[S -> Tx] : S \in SUBSET Page}
<1> DEFINE n == CommitEnd(w)
<1>1. n \in 0 .. Len(w) /\ Len(w) \in Nat
  BY CommitEndFacts, SeqDomain
<1>2. \A i \in 1 .. n : w[i] \in Frame
  BY <1>1, SMTT(30)
<1>3. \A f \in Frame : f.page \in Page /\ f.tx \in Tx
  BY SMTT(30) DEF Frame
<1>4. committed_pages(w) = [p \in {w[i].page : i \in 1 .. n} |-> w[LastFrame(w, n, p)].tx]
  BY DEF committed_pages
<1>5. /\ DOMAIN committed_pages(w) = {w[i].page : i \in 1 .. n}
      /\ DOMAIN committed_pages(w) \in SUBSET Page
  BY <1>2, <1>3, <1>4
<1>6. ASSUME NEW p \in DOMAIN committed_pages(w)
      PROVE  /\ LastFrame(w, n, p) \in 1 .. n
             /\ w[LastFrame(w, n, p)].page = p
             /\ committed_pages(w)[p] = w[LastFrame(w, n, p)].tx
             /\ \A j \in 1 .. n : w[j].page = p => j <= LastFrame(w, n, p)
  <2> DEFINE S == {i \in 1 .. n : w[i].page = p}
  <2>1. S \in SUBSET (0 .. n) /\ n \in Nat
    BY <1>1, SMTT(30)
  <2>2. S # {}
    BY <1>5, <1>6
  <2>3. Max(S) \in S /\ \A i \in S : i <= Max(S)
    BY <2>1, <2>2, MaxFacts
  <2>4. LastFrame(w, n, p) = Max(S)
    BY DEF LastFrame
  <2> QED
    BY <1>4, <2>3, <2>4
<1>7. \A p \in DOMAIN committed_pages(w) : committed_pages(w)[p] \in Tx
  BY <1>2, <1>3, <1>6
<1>8. committed_pages(w) \in [DOMAIN committed_pages(w) -> Tx]
  BY <1>4, <1>7
<1> QED
  BY <1>5, <1>6, <1>8

\* What a pager reads is a database.
LEMMA OverType ==
  ASSUME NEW o \in UNION {[S -> Tx] : S \in SUBSET Page}, NEW f \in [Page -> Tx]
  PROVE  /\ Over(o, f) \in [Page -> Tx]
         /\ \A p \in Page : Over(o, f)[p] = IF p \in DOMAIN o THEN o[p] ELSE f[p]
<1>1. PICK S \in SUBSET Page : o \in [S -> Tx]
  OBVIOUS
<1> QED
  BY <1>1 DEF Over

-----------------------------------------------------------------------------
(* The steps keep the types.                                               *)

DiskTypes ==
  /\ file \in [Page -> Tx] /\ maybe \in [Page -> SUBSET Tx]
  /\ wal \in Seq(Frame) /\ junk \in Nat /\ synced \in 0 .. Len(wal)

ShmTypes ==
  /\ mxFrame \in Nat /\ nBackfill \in Nat /\ mark \in [Slot -> Nat]
  /\ readLock \in [Slot -> Conn \cup {NoProc}] /\ writeLock \in Conn \cup {NoProc}

ConnTypes ==
  /\ pc \in [Conn -> {"closed", "claimed", "marked", "ready", "flush", "written", "synced"}]
  /\ slot \in [Conn -> Slot \cup {0}] /\ pin \in [Conn -> Nat]
  /\ overlay \in [Conn -> UNION {[S -> Tx] : S \in SUBSET Page}]
  /\ dirty \in [Conn -> SUBSET Page] /\ reserved \in [Conn -> BOOLEAN]
  /\ hint \in [Conn -> Seq(Frame)] /\ writer \in [Conn -> Seq(Frame)]
  /\ sees \in [Conn -> [Page -> Tx]]

CkTypes ==
  ck \in [by : Process \cup {NoProc}, at : {"idle", "probe", "write", "publish"},
          valid : Nat, next : 1 .. (NSlots + 1), safe : Nat, todo : SUBSET Page]

LEMMA TypeParts ==
  /\ TypeOK <=> DiskTypes /\ ShmTypes /\ ConnTypes /\ CkTypes /\ ntx \in Tx /\ acked \subseteq Tx
  /\ TypeOK' <=> /\ DiskTypes' /\ ShmTypes' /\ ConnTypes' /\ CkTypes'
                 /\ (ntx \in Tx)' /\ (acked \subseteq Tx)'
  BY DEF TypeOK, DiskTypes, ShmTypes, ConnTypes, CkTypes

LEMMA OpenTypes ==
  ASSUME TypeOK, NEW c \in Conn, Open(c) \/ begin_immediate(c) \/ rollback(c) PROVE TypeOK'
<1> USE TypeParts
<1>1. ASSUME ClaimSlot(c) PROVE TypeOK'
  <2>1. PICK s \in Slot : /\ readLock' = [readLock EXCEPT ![s] = c]
                          /\ slot' = [slot EXCEPT ![c] = s]
    BY <1>1 DEF ClaimSlot
  <2>2. ShmTypes'
    BY <1>1, <2>1 DEF ClaimSlot, ShmTypes
  <2>3. slot' \in [Conn -> Slot \cup {0}]
    BY <2>1 DEF ConnTypes
  <2>4. ConnTypes'
    BY <1>1, <2>3, SMTT(30) DEF ClaimSlot, Goto, ConnTypes
  <2> QED
    BY <1>1, <2>2, <2>4 DEF ClaimSlot, DiskTypes, CkTypes, logVars
<1>2. ASSUME PublishMark(c) PROVE TypeOK'
  <2>1. ShmTypes'
    BY <1>2 DEF PublishMark, ShmTypes
  <2>2. ConnTypes'
    BY <1>2, SMTT(30) DEF PublishMark, Goto, ConnTypes, ShmTypes
  <2> QED
    BY <1>2, <2>1, <2>2 DEF PublishMark, DiskTypes, CkTypes, logVars
<1>3. ASSUME read_wal_pages(c) PROVE TypeOK'
  <2>1. committed_pages(wal) \in UNION {[S -> Tx] : S \in SUBSET Page}
    BY CommittedPages DEF DiskTypes
  <2>2. Over(committed_pages(wal), file) \in [Page -> Tx]
    BY <2>1, OverType DEF DiskTypes
  <2>3. overlay' \in [Conn -> UNION {[S -> Tx] : S \in SUBSET Page}] /\ sees' \in [Conn -> [Page -> Tx]]
    BY <1>3, <2>1, <2>2 DEF read_wal_pages, ConnTypes
  <2>4. pc' \in [Conn -> {"closed", "claimed", "marked", "ready", "flush", "written", "synced"}]
    BY <1>3 DEF read_wal_pages, Goto, ConnTypes
  <2>5. ConnTypes'
    BY <1>3, <2>3, <2>4 DEF read_wal_pages, ConnTypes
  <2> QED
    BY <1>3, <2>5 DEF read_wal_pages, DiskTypes, ShmTypes, CkTypes, logVars, shmVars
<1>4. ASSUME begin_immediate(c) \/ rollback(c) PROVE TypeOK'
  <2>1. reserved' \in [Conn -> BOOLEAN]
    BY <1>4 DEF begin_immediate, rollback, ConnTypes
  <2> QED
    BY <1>4, <2>1 DEF begin_immediate, rollback, ConnTypes, DiskTypes, ShmTypes, CkTypes,
                      logVars, shmVars
<1> QED
  BY <1>1, <1>2, <1>3, <1>4 DEF Open

\* A cut-short write keeps the types of the log.
LEMMA CutTypes ==
  ASSUME Base, NEW c \in Conn, IF pc[c] = "flush" THEN CutShort(c) ELSE UNCHANGED <<logVars, ntx>>
  PROVE  wal' \in Seq(Frame) /\ junk' \in Nat /\ synced' \in 0 .. Len(wal') /\ ntx' \in Tx
<1>1. TypeOK /\ (pc[c] = "flush" => ntx < MaxTx)
  BY DEF Base, FlushHasWork
<1>2. CASE UNCHANGED <<logVars, ntx>>
  BY <1>1, <1>2 DEF TypeOK, logVars
<1>3. CASE /\ pc[c] = "flush" /\ ntx' = ntx + 1
           /\ \E r \in append_frames(c) : \E k \in 1 .. Len(r) :
                Land(open_existing(c), SubSeq(r, 1, k))
  <2>0. PICK r \in append_frames(c) :
          \E k \in 1 .. Len(r) : Land(open_existing(c), SubSeq(r, 1, k))
    BY <1>3
  <2>1. PICK k \in 1 .. Len(r) : Land(open_existing(c), SubSeq(r, 1, k))
    BY <2>0
  <2>2. SubSeq(r, 1, k) \in Seq(Frame)
    BY <1>1, <1>3, CutFacts
  <2>3. ntx + 1 \in Tx
    BY <1>1, <1>3, WalConstants, SMTT(30) DEF TypeOK, Tx
  <2> QED
    BY <1>1, <1>3, <2>1, <2>2, <2>3, LandFacts
<1> QED
  BY <1>2, <1>3 DEF CutShort

LEMMA FlushTypes == ASSUME Base, NEW c \in Conn, Flush(c) PROVE TypeOK'
<1> USE TypeParts
<1>0. TypeOK /\ FlushHasWork
  BY DEF Base
<1>1. ASSUME NEW D \in SUBSET Page, claim_write_lock(c, D) PROVE TypeOK'
  <2>1. pc' \in [Conn -> {"closed", "claimed", "marked", "ready", "flush", "written", "synced"}]
    BY <1>0, <1>1 DEF claim_write_lock, Goto, ConnTypes
  <2>2. dirty' \in [Conn -> SUBSET Page]
    BY <1>0, <1>1 DEF claim_write_lock, ConnTypes
  <2> QED
    BY <1>0, <1>1, <2>1, <2>2 DEF claim_write_lock, ConnTypes, ShmTypes, DiskTypes, CkTypes, logVars
<1>2. ASSUME claim_write_lock_refused(c) PROVE TypeOK'
  <2>1. reserved' \in [Conn -> BOOLEAN]
    BY <1>0, <1>2 DEF claim_write_lock_refused, ConnTypes
  <2> QED
    BY <1>0, <1>2, <2>1 DEF claim_write_lock_refused, ConnTypes, ShmTypes, DiskTypes, CkTypes,
                            logVars, shmVars
<1>3. open_existing(c) \in Seq(Frame)
  BY <1>0 DEF open_existing, DiskTypes, ConnTypes
<1>4. ASSUME NEW r \in append_frames(c), pc[c] = "flush"
      PROVE  /\ r \in Seq(Frame) /\ open_existing(c) \o r \in Seq(Frame) /\ ntx + 1 \in Tx
  <2>1. ntx < MaxTx
    BY <1>0, <1>4 DEF FlushHasWork
  <2>2. r \in Seq(Frame)
    BY <1>0, <2>1, RunFacts
  <2>3. ntx + 1 \in Tx
    BY <1>0, <2>1, WalConstants, SMTT(30) DEF Tx
  <2> QED
    BY <1>3, <2>2, <2>3, SeqConcat
<1>5. ASSUME sync_write(c) PROVE TypeOK'
  <2>1. PICK r \in append_frames(c) : /\ Land(open_existing(c), r)
                                      /\ writer' = [writer EXCEPT ![c] = open_existing(c) \o r]
    BY <1>5 DEF sync_write
  <2>2. pc[c] = "flush"
    BY <1>5 DEF sync_write, Goto
  <2>3. r \in Seq(Frame) /\ open_existing(c) \o r \in Seq(Frame) /\ ntx + 1 \in Tx
    BY <1>4, <2>2
  <2>4. DiskTypes'
    BY <1>0, <1>5, <2>1, <2>3, LandFacts DEF sync_write, DiskTypes
  <2>5. /\ pc' \in [Conn -> {"closed", "claimed", "marked", "ready", "flush", "written", "synced"}]
        /\ writer' \in [Conn -> Seq(Frame)]
    BY <1>0, <1>5, <2>1, <2>3 DEF sync_write, Goto, ConnTypes
  <2> QED
    BY <1>0, <1>5, <2>3, <2>4, <2>5 DEF sync_write, ConnTypes, ShmTypes, CkTypes, shmVars
<1>6. ASSUME sync_fsync(c) PROVE TypeOK'
  <2>1. synced' \in 0 .. Len(wal)
    BY <1>0, <1>6, SeqDomain, SMTT(30) DEF sync_fsync, DiskTypes
  <2>2. /\ pc' \in [Conn -> {"closed", "claimed", "marked", "ready", "flush", "written", "synced"}]
        /\ hint' \in [Conn -> Seq(Frame)]
    BY <1>0, <1>6 DEF sync_fsync, Goto, ConnTypes
  <2> QED
    BY <1>0, <1>6, <2>1, <2>2 DEF sync_fsync, DiskTypes, ConnTypes, ShmTypes, CkTypes, shmVars
<1>7. ASSUME sync_skipped(c) PROVE TypeOK'
  <2>1. PICK r \in append_frames(c) : /\ writer' = [writer EXCEPT ![c] = open_existing(c) \o r]
                                      /\ hint' = [hint EXCEPT ![c] = open_existing(c) \o r]
    BY <1>7 DEF sync_skipped
  <2>2. pc[c] = "flush"
    BY <1>7 DEF sync_skipped, Goto
  <2>3. open_existing(c) \o r \in Seq(Frame) /\ ntx + 1 \in Tx
    BY <1>4, <2>2
  <2>4. /\ pc' \in [Conn -> {"closed", "claimed", "marked", "ready", "flush", "written", "synced"}]
        /\ hint' \in [Conn -> Seq(Frame)] /\ writer' \in [Conn -> Seq(Frame)]
    BY <1>0, <1>7, <2>1, <2>3 DEF sync_skipped, Goto, ConnTypes
  <2> QED
    BY <1>0, <1>7, <2>3, <2>4 DEF sync_skipped, ConnTypes, ShmTypes, CkTypes, DiskTypes, logVars, shmVars
<1>8. ASSUME publish_mx_frame(c) PROVE TypeOK'
  <2>1. Len(writer[c]) \in Nat
    BY <1>0, SeqDomain DEF ConnTypes
  <2>2. /\ pc' \in [Conn -> {"closed", "claimed", "marked", "ready", "flush", "written", "synced"}]
        /\ dirty' \in [Conn -> SUBSET Page] /\ reserved' \in [Conn -> BOOLEAN]
    BY <1>0, <1>8 DEF publish_mx_frame, Goto, ConnTypes
  <2>3. writer' \in [Conn -> Seq(Frame)]
    <3>1. << >> \in Seq(Frame)
      BY SeqEmpty
    <3> QED
      BY <1>0, <1>8, <3>1 DEF publish_mx_frame, ConnTypes, NoFrames
  <2>4. overlay' \in [Conn -> UNION {[S -> Tx] : S \in SUBSET Page}]
    <3> DEFINE o == [p \in dirty[c] \cup DOMAIN overlay[c] |-> IF p \in dirty[c] THEN ntx ELSE overlay[c][p]]
    <3>0. overlay[c] \in UNION {[S -> Tx] : S \in SUBSET Page}
      BY <1>0 DEF ConnTypes
    <3>1. PICK S \in SUBSET Page : overlay[c] \in [S -> Tx]
      <4> HIDE TypeParts
      <4> QED
        BY <3>0
    <3>2. dirty[c] \cup DOMAIN overlay[c] \in SUBSET Page
      BY <1>0, <3>1 DEF ConnTypes
    <3>3. o \in [dirty[c] \cup DOMAIN overlay[c] -> Tx]
      BY <1>0, <3>1
    <3>4. o \in UNION {[T -> Tx] : T \in SUBSET Page}
      BY <3>2, <3>3
    <3>5. overlay' = [overlay EXCEPT ![c] = o]
      BY <1>8 DEF publish_mx_frame
    <3> QED
      BY <1>0, <3>4, <3>5 DEF ConnTypes
  <2>5. sees' \in [Conn -> [Page -> Tx]]
    <3> DEFINE mine == [p \in dirty[c] |-> ntx]
    <3>1. dirty[c] \in SUBSET Page /\ ntx \in Tx
      <4> HIDE TypeParts
      <4> QED
        BY <1>0 DEF TypeOK
    <3>2. mine \in [dirty[c] -> Tx]
      BY <3>1, Zenon
    <3>3. mine \in UNION {[T -> Tx] : T \in SUBSET Page}
      BY <3>1, <3>2
    <3>4. Over(mine, sees[c]) \in [Page -> Tx]
      <4> HIDE DEF mine
      <4> QED
        BY <1>0, <3>3, OverType DEF ConnTypes
    <3> QED
      BY <1>0, <1>8, <3>4 DEF publish_mx_frame, ConnTypes
  <2>6. ConnTypes'
    BY <1>0, <1>8, <2>2, <2>3, <2>4, <2>5 DEF publish_mx_frame, ConnTypes
  <2> QED
    BY <1>0, <1>8, <2>1, <2>6 DEF publish_mx_frame, ShmTypes, CkTypes, DiskTypes, logVars
<1>9. ASSUME FlushFails(c) PROVE TypeOK'
  <2>1. wal' \in Seq(Frame) /\ junk' \in Nat /\ synced' \in 0 .. Len(wal') /\ ntx' \in Tx
    BY <1>9, CutTypes DEF FlushFails
  <2>2. /\ pc' \in [Conn -> {"closed", "claimed", "marked", "ready", "flush", "written", "synced"}]
        /\ dirty' \in [Conn -> SUBSET Page] /\ reserved' \in [Conn -> BOOLEAN]
    BY <1>0, <1>9 DEF FlushFails, ConnTypes
  <2>3. writer' \in [Conn -> Seq(Frame)]
    <3>1. << >> \in Seq(Frame)
      BY SeqEmpty
    <3> QED
      BY <1>0, <1>9, <3>1 DEF FlushFails, ConnTypes, NoFrames
  <2> QED
    BY <1>0, <1>9, <2>1, <2>2, <2>3 DEF FlushFails, ConnTypes, ShmTypes, CkTypes, DiskTypes
<1> QED
  BY <1>1, <1>2, <1>5, <1>6, <1>7, <1>8, <1>9 DEF Flush

\* The same for the least of a set of numbers.
LEMMA MinFacts == ASSUME NEW S \in SUBSET Nat, S # {} PROVE Min(S) \in S /\ \A i \in S : Min(S) <= i
<1>1. PICK x \in S : \A y \in S : ~ (<<y, x>> \in OpToRel(<, Nat))
  BY NatLessThanWellFounded, WFMin
<1>2. \A y \in S : ~ (y < x)
  BY <1>1 DEF OpToRel
<1>3. \A y \in S : x <= y
  BY <1>2, SMTT(30)
<1> QED
  BY <1>3 DEF Min

\* The frames that a pass copies are a first part of the log.
LEMMA CopiedFacts ==
  ASSUME TypeOK, PassReadsLog
  PROVE  /\ Copied \in Seq(Frame)
         /\ Len(Copied) = IF ck.valid < ck.safe THEN ck.valid ELSE ck.safe
         /\ Len(Copied) <= Len(wal) /\ Len(Copied) <= ck.valid /\ Len(Copied) <= ck.safe
         /\ \A i \in 1 .. Len(Copied) : Copied[i] = wal[i]
<1>1. wal \in Seq(Frame) /\ ck.valid \in Nat /\ ck.safe \in Nat /\ ck.valid <= Len(wal)
  BY SMTT(30) DEF TypeOK, PassReadsLog
<1>2. PICK n \in 0 .. Len(wal) : /\ n = IF ck.valid < ck.safe THEN ck.valid ELSE ck.safe
                                 /\ n <= ck.valid /\ n <= ck.safe
  BY <1>1, SMTT(30)
<1>3. Copied = SubSeq(wal, 1, n)
  BY <1>2 DEF Copied
<1>4. SubSeq(wal, 1, n) \in Seq(Frame) /\ Len(SubSeq(wal, 1, n)) = n
  BY <1>1, <1>2, SMTT(30)
<1>5. \A i \in 1 .. n : SubSeq(wal, 1, n)[i] = wal[i]
  BY <1>1, <1>2, SMTT(30)
<1> QED
  BY <1>1, <1>2, <1>3, <1>4, <1>5, SMTT(30)

\* wal has been appended to.
Extended == wal' \in Seq(Frame) /\ Len(wal') >= Len(wal) /\ \A i \in 1 .. Len(wal) : wal'[i] = wal[i]

\* Frames that are appended do not change what a running pass copies.
LEMMA CopiedStays ==
  ASSUME TypeOK, PassReadsLog, Extended, ck'.valid = ck.valid, ck'.safe = ck.safe
  PROVE  Copied' = Copied /\ ck'.valid <= Len(wal')
<1>1. wal \in Seq(Frame) /\ ck.valid \in Nat /\ ck.safe \in Nat /\ ck.valid <= Len(wal)
  BY SMTT(30) DEF TypeOK, PassReadsLog
<1>2. PICK n \in 0 .. Len(wal) : n = IF ck.valid < ck.safe THEN ck.valid ELSE ck.safe
  BY <1>1, SMTT(30)
<1>3. Copied = SubSeq(wal, 1, n)
  BY <1>2 DEF Copied
<1>4. Copied' = SubSeq(wal', 1, n)
  BY <1>2 DEF Copied
<1>5. SubSeq(wal', 1, n) = SubSeq(wal, 1, n)
  BY <1>1, <1>2, SMTT(30) DEF Extended
<1>6. ck'.valid <= Len(wal')
  BY <1>1, SMTT(30) DEF Extended
<1> QED
  BY <1>3, <1>4, <1>5, <1>6

\* PassReadsLog is kept by every step that leaves the checkpoint alone.
LEMMA PassStays ==
  ASSUME TypeOK, PassReadsLog, Extended, ck' = ck PROVE PassReadsLog'
  BY CopiedStays DEF PassReadsLog

LEMMA PassIdle ==
  ASSUME wal' \in Seq(Frame), ck' = Idle
  PROVE  PassReadsLog' /\ CkTypes' /\ ck'.at = "idle" /\ ck'.valid = 0 /\ ck'.by = NoProc
<1>1. Len(wal') \in Nat
  BY SeqDomain
<1>2. /\ ck'.valid = 0 /\ ck'.at = "idle" /\ ck'.by = NoProc /\ ck'.next = 1 /\ ck'.safe = 0
      /\ ck'.todo = {}
  BY SMTT(30) DEF Idle
<1>3. CkTypes'
  BY WalConstants, SMTT(30) DEF Idle, CkTypes
<1>4. PassReadsLog'
  BY <1>1, <1>2, SMTT(30) DEF PassReadsLog
<1> QED
  BY <1>2, <1>3, <1>4

\* The page that a pass writes next is one of the log's, and so is its content.
LEMMA NextWritten ==
  ASSUME Base, CkptWrite
  PROVE  /\ ck.at = "write" /\ Min(ck.todo) \in ck.todo /\ Min(ck.todo) \in Page
         /\ Min(ck.todo) \in DOMAIN committed_pages(Copied)
         /\ committed_pages(Copied)[Min(ck.todo)] \in Tx
<1>1. TypeOK /\ PassReadsLog /\ ck.at = "write" /\ ck.todo # {} /\ ck.todo \subseteq Page
  BY SMTT(30) DEF Base, CkptWrite, CkptGoto, TypeOK
<1>2. ck.todo \in SUBSET Nat
  BY <1>1, PagesAreNumbers
<1>3. Min(ck.todo) \in ck.todo
  BY <1>1, <1>2, MinFacts
<1>4. Min(ck.todo) \in DOMAIN committed_pages(Copied)
  BY <1>1, <1>3 DEF PassReadsLog
<1>5. Copied \in Seq(Frame)
  BY <1>1, CopiedFacts
<1>6. committed_pages(Copied) \in UNION {[S -> Tx] : S \in SUBSET Page}
  BY <1>5, CommittedPages
<1>7. PICK S \in SUBSET Page : committed_pages(Copied) \in [S -> Tx]
  BY <1>6
<1> QED
  BY <1>1, <1>3, <1>4, <1>7

LEMMA CheckpointTypes == ASSUME Base, Checkpoint PROVE TypeOK' /\ PassReadsLog'
<1>0. TypeOK /\ PassReadsLog /\ DiskTypes /\ ShmTypes /\ ConnTypes /\ CkTypes /\ ntx \in Tx /\ acked \subseteq Tx
  BY TypeParts DEF Base
<1>1. /\ wal' = wal /\ junk' = junk /\ synced' = synced /\ ConnTypes' /\ writeLock' = writeLock
      /\ mxFrame' = mxFrame /\ mark' = mark /\ ntx' = ntx /\ acked' = acked
  <2>1. CkptRest
    BY DEF Checkpoint, claim_wal_checkpoint_lock, active_reader_mark, CkptDecide, CkptWrite,
           CkptSync, publish_backfill, CkptFails
  <2> QED
    BY <1>0, <2>1 DEF CkptRest, logVars, connVars, ConnTypes
<1>2. Extended /\ Len(wal) \in Nat
  BY <1>0, <1>1, SeqDomain, SMTT(30) DEF Extended, DiskTypes
<1>3. ASSUME CkTypes', PassReadsLog', file' \in [Page -> Tx], maybe' \in [Page -> SUBSET Tx],
             nBackfill' \in Nat, readLock' \in [Slot -> Conn \cup {NoProc}]
      PROVE  TypeOK' /\ PassReadsLog'
  BY <1>0, <1>1, <1>3, TypeParts DEF DiskTypes, ShmTypes
<1>4. ASSUME NEW a \in Process, claim_wal_checkpoint_lock(a) PROVE TypeOK' /\ PassReadsLog'
  <2>1. ck' = [by |-> a, at |-> "probe", valid |-> Len(wal),
               next |-> 1, safe |-> FramesInFile, todo |-> {}]
    BY <1>4 DEF claim_wal_checkpoint_lock, CkptGoto
  <2>2. FramesInFile \in Nat
    BY <1>0, <1>2, SMTT(30) DEF FramesInFile, DiskTypes
  <2>3. CkTypes'
    BY <1>2, <2>1, <2>2, WalConstants, SMTT(30) DEF CkTypes
  <2>4. PassReadsLog'
    BY <1>1, <1>2, <2>1, SMTT(30) DEF PassReadsLog
  <2> QED
    BY <1>0, <1>3, <1>4, <2>3, <2>4 DEF claim_wal_checkpoint_lock, DiskTypes, ShmTypes
<1>5. ASSUME active_reader_mark PROVE TypeOK' /\ PassReadsLog'
  <2>1. ck.next \in Slot /\ ck.at = "probe"
    BY <1>5 DEF active_reader_mark, CkptGoto
  <2>2. mark[ck.next] \in Nat /\ ck.safe \in Nat
    BY <1>0, <2>1, SMTT(30) DEF CkTypes, ShmTypes
  <2>3. PICK m \in Nat : ck' = [ck EXCEPT !.next = ck.next + 1, !.safe = m]
    BY <1>5, <2>2 DEF active_reader_mark, CkptGoto
  <2>4. ck.next + 1 \in 1 .. (NSlots + 1)
    BY <2>1, Numbers, SMTT(30) DEF Slot
  <2>5. CkTypes' /\ ck'.at = "probe" /\ ck'.valid = ck.valid
    <3>1. CkTypes'
      BY <1>0, <2>3, <2>4 DEF CkTypes
    <3>2. ck'.at = "probe" /\ ck'.valid = ck.valid
      BY <1>0, <2>1, <2>3, SMTT(30) DEF CkTypes
    <3> QED
      BY <3>1, <3>2
  <2>6. PassReadsLog'
    BY <1>0, <1>1, <2>5 DEF PassReadsLog
  <2>7. readLock' \in [Slot -> Conn \cup {NoProc}]
    BY <1>0, <1>5 DEF active_reader_mark, ShmTypes
  <2> QED
    BY <1>0, <1>3, <1>5, <2>5, <2>6, <2>7 DEF active_reader_mark, DiskTypes, ShmTypes
<1>6. ASSUME ck' = Idle PROVE CkTypes' /\ PassReadsLog'
  BY <1>6, <1>2, PassIdle DEF Extended
<1>7. ASSUME CkptDecide PROVE TypeOK' /\ PassReadsLog'
  <2>1. CASE ck' = [ck EXCEPT !.at = "write", !.todo = DOMAIN committed_pages(Copied)]
    <3>1. DOMAIN committed_pages(Copied) \in SUBSET Page
      BY <1>0, CopiedFacts, CommittedPages
    <3>2. /\ CkTypes' /\ ck'.valid = ck.valid /\ ck'.safe = ck.safe
          /\ ck'.todo = DOMAIN committed_pages(Copied)
      <4>1. PICK T \in SUBSET Page : T = DOMAIN committed_pages(Copied)
        BY <3>1
      <4>2. ck' = [ck EXCEPT !.at = "write", !.todo = T]
        BY <2>1, <4>1
      <4>3. CkTypes'
        BY <1>0, <4>2 DEF CkTypes
      <4>4. ck'.valid = ck.valid /\ ck'.safe = ck.safe /\ ck'.todo = T
        BY <1>0, <4>2, SMTT(30) DEF CkTypes
      <4> QED
        BY <4>1, <4>3, <4>4
    <3>3. Copied' = Copied /\ ck'.valid <= Len(wal')
      BY <1>0, <1>2, <3>2, CopiedStays
    <3>4. PassReadsLog'
      BY <3>2, <3>3 DEF PassReadsLog
    <3> QED
      BY <1>0, <1>3, <1>7, <3>2, <3>4 DEF CkptDecide, DiskTypes, ShmTypes
  <2>2. CASE ck' = Idle
    BY <1>0, <1>3, <1>6, <1>7, <2>2 DEF CkptDecide, DiskTypes, ShmTypes
  <2> QED
    BY <1>7, <2>1, <2>2 DEF CkptDecide, CkptGoto
<1>8. ASSUME CkptWrite PROVE TypeOK' /\ PassReadsLog'
  <2> DEFINE p == Min(ck.todo)
             v == committed_pages(Copied)[p]
  <2>1. p \in ck.todo /\ p \in Page /\ v \in Tx
    BY <1>8, NextWritten
  <2>2. /\ ck' = [ck EXCEPT !.todo = ck.todo \ {p}]
        /\ file' = [file EXCEPT ![p] = v] /\ maybe' = [maybe EXCEPT ![p] = maybe[p] \cup {v}]
        /\ readLock' = readLock /\ nBackfill' = nBackfill
    BY <1>8 DEF CkptWrite, CkptGoto
  <2> HIDE DEF p, v
  <2>3. /\ CkTypes' /\ ck'.at = ck.at /\ ck'.valid = ck.valid /\ ck'.safe = ck.safe
        /\ ck'.todo = ck.todo \ {p}
    BY <1>0, <2>2, SMTT(30) DEF CkTypes
  <2>4. Copied' = Copied /\ ck'.valid <= Len(wal')
    BY <1>0, <1>2, <2>3, CopiedStays
  <2>5. PassReadsLog'
    BY <1>0, <2>3, <2>4 DEF PassReadsLog
  <2>6. file' \in [Page -> Tx] /\ maybe' \in [Page -> SUBSET Tx]
    BY <1>0, <2>1, <2>2 DEF DiskTypes
  <2> QED
    BY <1>0, <1>3, <2>2, <2>3, <2>5, <2>6 DEF ShmTypes
<1>9. ASSUME CkptSync PROVE TypeOK' /\ PassReadsLog'
  <2>1. ck' = [ck EXCEPT !.at = "publish"]
    BY <1>9 DEF CkptSync, CkptGoto
  <2>2. CkTypes' /\ ck'.at = "publish" /\ ck'.valid = ck.valid
    BY <1>0, <2>1, SMTT(30) DEF CkTypes
  <2>3. PassReadsLog'
    BY <1>0, <1>1, <2>2 DEF PassReadsLog
  <2>4. maybe' \in [Page -> SUBSET Tx]
    BY <1>0, <1>9 DEF CkptSync, DiskTypes
  <2> QED
    BY <1>0, <1>3, <1>9, <2>2, <2>3, <2>4 DEF CkptSync, DiskTypes, ShmTypes
<1>10. ASSUME publish_backfill \/ CkptFails PROVE TypeOK' /\ PassReadsLog'
  <2>1. ck' = Idle /\ file' = file /\ maybe' = maybe /\ readLock' = readLock
    BY <1>10 DEF publish_backfill, CkptFails, CkptGoto
  <2>2. nBackfill' \in Nat
    BY <1>0, <1>10, SMTT(30) DEF publish_backfill, CkptFails, ShmTypes, CkTypes
  <2> QED
    BY <1>0, <1>3, <1>6, <2>1, <2>2 DEF DiskTypes, ShmTypes
<1> QED
  BY <1>4, <1>5, <1>7, <1>8, <1>9, <1>10 DEF Checkpoint

-----------------------------------------------------------------------------
(* The steps keep the write lock's meaning.                                *)

LEMMA GotoFacts ==
  ASSUME TypeOK, NEW c \in Conn, NEW here, NEW there, Goto(c, here, there)
  PROVE  pc[c] = here /\ pc'[c] = there /\ \A d \in Conn : d # c => pc'[d] = pc[d]
  BY DEF TypeOK, Goto

\* Only one connection is in a flush.
LEMMA OneFlushing ==
  ASSUME SingleWriter, NEW c \in Conn, NEW d \in Conn, Flushing(c), Flushing(d)
  PROVE  c = d
  BY DEF SingleWriter, Flushing

\* The two halves of the lock's meaning, for a step of connection c.
LEMMA LockStep ==
  ASSUME Base, NEW c \in Conn, NEW there,
         \A d \in Conn : d # c => pc'[d] = pc[d] /\ dirty'[d] = dirty[d],
         pc'[c] = there,
         \/ there \notin {"flush", "written", "synced"} /\ (writeLock' = writeLock \/ Flushing(c))
         \/ there \in {"written", "synced"} /\ Flushing(c) /\ writeLock' = writeLock /\ dirty'[c] = dirty[c]
         \/ there = "flush" /\ writeLock = NoProc /\ writeLock' = c /\ dirty'[c] # {} /\ ntx' < MaxTx,
         ntx' = ntx \/ Flushing(c)
  PROVE  SingleWriter' /\ FlushHasWork'
<1>1. TypeOK /\ SingleWriter /\ FlushHasWork
  BY DEF Base
<1>2. ASSUME NEW d \in Conn, pc'[d] \in {"flush", "written", "synced"}
      PROVE  writeLock' = d /\ dirty'[d] # {} /\ (pc'[d] = "flush" => ntx' < MaxTx)
  <2>1. CASE d = c
    BY <1>1, <1>2, <2>1 DEF SingleWriter, FlushHasWork, Flushing
  <2>2. CASE d # c
    <3>1. Flushing(d) /\ pc'[d] = pc[d] /\ dirty'[d] = dirty[d] /\ writeLock = d /\ writeLock # NoProc
      BY <1>1, <1>2, <2>2, WalConstants DEF Flushing, SingleWriter
    <3>2. ~ Flushing(c)
      BY <1>1, <2>2, <3>1, OneFlushing
    <3>3. writeLock' = writeLock /\ ntx' = ntx
      BY <3>1, <3>2
    <3> QED
      BY <1>1, <3>1, <3>3 DEF FlushHasWork
  <2> QED
    BY <2>1, <2>2
<1>3. SingleWriter'
  BY <1>2 DEF SingleWriter
<1>4. FlushHasWork'
  BY <1>2 DEF FlushHasWork, Flushing
<1> QED
  BY <1>3, <1>4

LEMMA OpenLock ==
  ASSUME Base, NEW c \in Conn, Open(c) \/ begin_immediate(c) \/ rollback(c)
  PROVE  SingleWriter' /\ FlushHasWork'
<1>1. TypeOK
  BY DEF Base
<1>2. ASSUME Open(c) PROVE SingleWriter' /\ FlushHasWork'
  <2>1. PICK there \in {"claimed", "marked", "ready"} : \E here : Goto(c, here, there)
    BY <1>2 DEF Open, ClaimSlot, PublishMark, read_wal_pages
  <2>2. pc'[c] = there /\ \A d \in Conn : d # c => pc'[d] = pc[d]
    BY <1>1, <2>1, GotoFacts
  <2>3. there \notin {"flush", "written", "synced"}
    BY <2>1
  <2>4. writeLock' = writeLock /\ dirty' = dirty /\ ntx' = ntx
    BY <1>2 DEF Open, ClaimSlot, PublishMark, read_wal_pages, shmVars
  <2> QED
    BY <2>2, <2>3, <2>4, LockStep
<1>3. ASSUME begin_immediate(c) \/ rollback(c) PROVE SingleWriter' /\ FlushHasWork'
  <2>1. pc[c] = "ready" /\ pc' = pc /\ writeLock' = writeLock /\ dirty' = dirty /\ ntx' = ntx
    BY <1>3 DEF begin_immediate, rollback, Ready, shmVars
  <2>2. "ready" \notin {"flush", "written", "synced"}
    OBVIOUS
  <2> QED
    BY <2>1, <2>2, LockStep
<1> QED
  BY <1>2, <1>3

LEMMA FlushLock ==
  ASSUME Base, NEW c \in Conn, Flush(c) PROVE SingleWriter' /\ FlushHasWork'
<1>0. TypeOK
  BY DEF Base
<1>1. ASSUME NEW D \in SUBSET Page, claim_write_lock(c, D) PROVE SingleWriter' /\ FlushHasWork'
  <2>1. pc'[c] = "flush" /\ \A d \in Conn : d # c => pc'[d] = pc[d]
    BY <1>0, <1>1, GotoFacts DEF claim_write_lock
  <2>2. dirty' = [dirty EXCEPT ![c] = D] /\ dirty \in [Conn -> SUBSET Page]
    BY <1>0, <1>1 DEF claim_write_lock, TypeOK
  <2>3. dirty'[c] # {} /\ \A d \in Conn : d # c => dirty'[d] = dirty[d]
    BY <1>1, <2>2 DEF claim_write_lock
  <2>4. writeLock = NoProc /\ writeLock' = c /\ ntx' < MaxTx /\ ntx' = ntx
    BY <1>1 DEF claim_write_lock
  <2> QED
    BY <2>1, <2>3, <2>4, LockStep
<1>2. ASSUME claim_write_lock_refused(c) PROVE SingleWriter' /\ FlushHasWork'
  <2>1. pc[c] = "ready" /\ pc' = pc /\ writeLock' = writeLock /\ dirty' = dirty /\ ntx' = ntx
    BY <1>2 DEF claim_write_lock_refused, Ready, shmVars
  <2>2. "ready" \notin {"flush", "written", "synced"}
    OBVIOUS
  <2> QED
    BY <2>1, <2>2, LockStep
<1>3. ASSUME sync_write(c) \/ sync_fsync(c) \/ sync_skipped(c) PROVE SingleWriter' /\ FlushHasWork'
  <2>1. PICK there \in {"written", "synced"} : \E here \in {"flush", "written"} : Goto(c, here, there)
    BY <1>3 DEF sync_write, sync_fsync, sync_skipped
  <2>2. Flushing(c) /\ pc'[c] = there /\ \A d \in Conn : d # c => pc'[d] = pc[d]
    BY <1>0, <2>1, GotoFacts DEF Flushing
  <2>3. writeLock' = writeLock /\ dirty' = dirty
    BY <1>3 DEF sync_write, sync_fsync, sync_skipped, shmVars
  <2> QED
    BY <2>2, <2>3, LockStep
<1>4. ASSUME publish_mx_frame(c) \/ FlushFails(c) PROVE SingleWriter' /\ FlushHasWork'
  <2>1. Flushing(c) /\ pc' = [pc EXCEPT ![c] = "ready"]
    BY <1>4 DEF publish_mx_frame, FlushFails, Goto, Flushing
  <2>2. pc'[c] = "ready" /\ \A d \in Conn : d # c => pc'[d] = pc[d]
    BY <1>0, <2>1 DEF TypeOK
  <2>3. dirty' = [dirty EXCEPT ![c] = {}]
    BY <1>4 DEF publish_mx_frame, FlushFails
  <2>4. \A d \in Conn : d # c => dirty'[d] = dirty[d]
    BY <1>0, <2>3 DEF TypeOK
  <2>5. "ready" \notin {"flush", "written", "synced"}
    OBVIOUS
  <2> QED
    BY <2>1, <2>2, <2>4, <2>5, LockStep
<1> QED
  BY <1>1, <1>2, <1>3, <1>4 DEF Flush

-----------------------------------------------------------------------------
(* What a step does to the log.                                            *)

ConnStep(c) ==
  Open(c) \/ begin_immediate(c) \/ rollback(c) \/ Flush(c) \/ Close(c) \/ Crash(c)

\* The flush of c appends the first k frames of its run r.
Appends(c, r, k) ==
  /\ pc[c] = "flush" /\ (WholeRuns => k = Len(r))
  /\ wal' = wal \o SubSeq(r, 1, k) /\ ntx' = ntx + 1 /\ synced' = synced

LogKept == wal' = wal /\ ntx' \in {ntx, ntx + 1} /\ synced' \in {synced, Len(wal)}

LEMMA SubSeqAll == ASSUME NEW r \in Seq(Frame) PROVE SubSeq(r, 1, Len(r)) = r
  BY SMTT(30)

\* Whatever a connection does, the log stays or gets a first part of its run of
\* frames, and only the process's own checkpoint ends with it.
LEMMA ConnLog ==
  ASSUME Base, NEW c \in Conn, ConnStep(c)
  PROVE  /\ LogKept \/ \E r \in append_frames(c) : \E k \in 1 .. Len(r) : Appends(c, r, k)
         /\ file' = file /\ maybe' = maybe /\ nBackfill' = nBackfill
         /\ ck' = ck \/ (ck' = Idle /\ ck.by = c)
<1>0. TypeOK /\ FlushHasWork /\ WholeRuns \in BOOLEAN
  BY WalConstants DEF Base
<1>1. /\ file' = file /\ maybe' = maybe /\ nBackfill' = nBackfill
      /\ ck' = ck \/ (ck' = Idle /\ ck.by = c)
  BY DEF ConnStep, Open, ClaimSlot, PublishMark, read_wal_pages, begin_immediate, rollback, Flush,
         claim_write_lock, claim_write_lock_refused, sync_write, sync_fsync, sync_skipped,
         publish_mx_frame, FlushFails, Close, Crash, shmVars
<1>2. ASSUME pc[c] = "flush", NEW r \in append_frames(c)
      PROVE  r \in Seq(Frame) /\ Len(r) \in 1 .. Len(r) /\ Len(r) \in Nat
  <2>1. ntx < MaxTx /\ dirty[c] # {}
    BY <1>0, <1>2 DEF FlushHasWork, Flushing
  <2>2. r \in Seq(Frame) /\ Len(r) > 0
    BY <1>0, <2>1, RunFacts
  <2> QED
    BY <2>2, SeqDomain, SMTT(30)
<1>3. ASSUME pc[c] = "flush", CutShort(c)
      PROVE  LogKept \/ \E r \in append_frames(c) : \E k \in 1 .. Len(r) : Appends(c, r, k)
  <2>1. CASE UNCHANGED <<logVars, ntx>>
    BY <2>1 DEF LogKept, logVars
  <2>2. CASE /\ ~ WholeRuns /\ ntx' = ntx + 1
             /\ \E r \in append_frames(c) : \E k \in 1 .. Len(r) :
                  Land(open_existing(c), SubSeq(r, 1, k))
    <3>1. PICK r \in append_frames(c) :
            \E k \in 1 .. Len(r) : Land(open_existing(c), SubSeq(r, 1, k))
      BY <2>2
    <3>2. PICK k \in 1 .. Len(r) : Land(open_existing(c), SubSeq(r, 1, k))
      BY <3>1
    <3> QED
      BY <1>3, <2>2, <3>2 DEF Land, Appends, LogKept
  <2> QED
    BY <1>3, <2>1, <2>2 DEF CutShort
<1>4. CASE sync_write(c)
  <2>1. PICK r \in append_frames(c) : Land(open_existing(c), r)
    BY <1>4 DEF sync_write
  <2>2. pc[c] = "flush" /\ ntx' = ntx + 1
    BY <1>4 DEF sync_write, Goto
  <2>3. r \in Seq(Frame) /\ Len(r) \in 1 .. Len(r)
    BY <1>2, <2>2
  <2>4. SubSeq(r, 1, Len(r)) = r
    BY <2>3, SubSeqAll
  <2>5. LogKept \/ Appends(c, r, Len(r))
    BY <2>1, <2>2, <2>4 DEF Land, Appends, LogKept
  <2> QED
    BY <1>1, <2>3, <2>5
<1>5. CASE FlushFails(c) \/ Crash(c)
  <2>1. CASE pc[c] = "flush"
    BY <1>1, <1>3, <1>5, <2>1 DEF FlushFails, Crash
  <2>2. CASE pc[c] # "flush"
    BY <1>1, <1>5, <2>2 DEF FlushFails, Crash, LogKept, logVars
  <2> QED
    BY <2>1, <2>2
<1>6. CASE Open(c) \/ begin_immediate(c) \/ rollback(c) \/ Close(c) \/ sync_skipped(c)
           \/ (\E D \in SUBSET Page : claim_write_lock(c, D)) \/ claim_write_lock_refused(c)
  BY <1>1, <1>6 DEF Open, ClaimSlot, PublishMark, read_wal_pages, begin_immediate, rollback,
         claim_write_lock, claim_write_lock_refused, sync_skipped, Close, LogKept, logVars
<1>7. CASE sync_fsync(c) \/ publish_mx_frame(c)
  BY <1>1, <1>7 DEF sync_fsync, publish_mx_frame, LogKept, logVars
<1> QED
  BY <1>4, <1>5, <1>6, <1>7 DEF ConnStep, Flush

\* What the first k frames of a run are, behind the log.
LEMMA AppendsFacts ==
  ASSUME Base, NEW c \in Conn, NEW r \in append_frames(c), NEW k \in 1 .. Len(r), Appends(c, r, k)
  PROVE  /\ wal' \in Seq(Frame) /\ Len(wal') = Len(wal) + k /\ Len(wal) \in Nat /\ k \in Nat /\ k > 0
         /\ k <= NPages /\ ntx \in Nat /\ ntx < MaxTx /\ ntx' = ntx + 1
         /\ \A i \in 1 .. Len(wal) : wal'[i] = wal[i]
         /\ \A i \in 1 .. k : wal'[Len(wal) + i] = r[i] /\ i \in 1 .. Len(r)
<1>1. TypeOK /\ ntx < MaxTx /\ dirty[c] # {}
  BY DEF Base, FlushHasWork, Flushing, Appends
<1>2. wal \in Seq(Frame) /\ Len(wal) \in Nat /\ ntx \in Nat
  BY <1>1, SeqDomain, Numbers, SMTT(30) DEF TypeOK, Tx
<1>3. r \in Seq(Frame) /\ Len(r) <= NPages
  BY <1>1, RunFacts
<1>4. Len(r) \in Nat /\ k \in Nat /\ k > 0 /\ k <= NPages /\ \A i \in 1 .. k : i \in 1 .. Len(r)
  BY <1>3, SeqDomain, Numbers, SMTT(30)
<1>5. PICK q \in Seq(Frame) : q = SubSeq(r, 1, k) /\ Len(q) = k /\ \A i \in 1 .. k : q[i] = r[i]
  BY <1>1, CutFacts
<1>6. wal' = wal \o q
  BY <1>5 DEF Appends
<1>7. /\ wal' \in Seq(Frame) /\ Len(wal') = Len(wal) + k
      /\ \A i \in 1 .. Len(wal) : wal'[i] = wal[i]
      /\ \A i \in 1 .. k : wal'[Len(wal) + i] = q[i]
  BY <1>2, <1>4, <1>5, <1>6, SMTT(30)
<1> QED
  BY <1>1, <1>2, <1>3, <1>4, <1>5, <1>7 DEF Appends

LEMMA ConnExtends == ASSUME Base, NEW c \in Conn, ConnStep(c) PROVE Extended
<1>1. wal \in Seq(Frame) /\ Len(wal) \in Nat
  BY SeqDomain DEF Base, TypeOK
<1>2. CASE LogKept
  BY <1>1, <1>2, SMTT(30) DEF LogKept, Extended
<1>3. ASSUME NEW r \in append_frames(c), NEW k \in 1 .. Len(r), Appends(c, r, k) PROVE Extended
  <2>1. /\ wal' \in Seq(Frame) /\ Len(wal') = Len(wal) + k /\ k \in Nat
        /\ \A i \in 1 .. Len(wal) : wal'[i] = wal[i]
    BY <1>3, AppendsFacts
  <2>2. Len(wal') >= Len(wal)
    BY <1>1, <2>1, SMTT(30)
  <2> QED
    BY <2>1, <2>2 DEF Extended
<1> QED
  BY <1>2, <1>3, ConnLog

\* The steps in which connections end.
LEMMA EndTypes ==
  ASSUME Base, NEW c \in Conn, Close(c) \/ Crash(c)
  PROVE  TypeOK' /\ SingleWriter' /\ FlushHasWork'
<1>0. TypeOK /\ SingleWriter /\ FlushHasWork /\ DiskTypes /\ ShmTypes /\ CkTypes
  BY TypeParts DEF Base
<1>1. Gone({c}) /\ {c} \in SUBSET Conn
  BY DEF Close, Crash
<1>2. wal' \in Seq(Frame) /\ junk' \in Nat /\ synced' \in 0 .. Len(wal') /\ ntx' \in Tx
  <2>1. CASE Crash(c)
    BY <2>1, CutTypes DEF Crash
  <2>2. CASE Close(c)
    BY <1>0, <2>2 DEF Close, logVars, TypeOK
  <2> QED
    BY <2>1, <2>2
<1>3. /\ file' = file /\ maybe' = maybe /\ mxFrame' = mxFrame /\ nBackfill' = nBackfill
      /\ mark' = mark /\ acked' = acked
  BY DEF Close, Crash
<1>4. CkTypes'
  BY <1>0, <1>2, PassIdle DEF Close, Crash, CkTypes
<1>5. TypeOK'
  BY <1>0, <1>1, <1>2, <1>3, <1>4, GoneFacts, TypeParts DEF DiskTypes, ShmTypes, ConnTypes, TypeOK
<1>6. pc'[c] = "closed" /\ \A d \in Conn : d # c => pc'[d] = pc[d] /\ dirty'[d] = dirty[d]
  BY <1>1 DEF Gone
<1>7. writeLock' = writeLock \/ Flushing(c) \/ writeLock = c
  BY <1>1 DEF Gone
<1>8. ntx' = ntx \/ Flushing(c)
  BY DEF Close, Crash, Flushing
<1>9. ASSUME NEW d \in Conn, Flushing(d)' PROVE d # c /\ writeLock' = d /\ writeLock = d /\ Flushing(d)
  <2>1. d # c
    BY <1>6, <1>9 DEF Flushing
  <2>2. Flushing(d) /\ writeLock = d
    BY <1>0, <1>6, <1>9, <2>1 DEF Flushing, SingleWriter
  <2> QED
    BY <1>1, <2>1, <2>2 DEF Gone
<1>10. SingleWriter'
  BY <1>9 DEF SingleWriter, Flushing
<1>11. FlushHasWork'
  <2> SUFFICES ASSUME NEW d \in Conn, Flushing(d)'
               PROVE  dirty'[d] # {} /\ (pc'[d] = "flush" => ntx' < MaxTx)
    BY DEF FlushHasWork, Flushing
  <2>1. d # c /\ Flushing(d)
    BY <1>9
  <2>2. ntx' = ntx
    BY <1>0, <1>8, <2>1, OneFlushing
  <2> QED
    BY <1>0, <1>6, <2>1, <2>2 DEF FlushHasWork
<1> QED
  BY <1>5, <1>10, <1>11

\* What a power loss leaves of the log.
LEMMA PowerLossLog ==
  ASSUME TypeOK, PowerLoss
  PROVE  /\ wal' \in Seq(Frame) /\ junk' \in Nat /\ synced' = Len(wal')
         /\ Len(wal') \in Nat /\ Len(wal') >= synced /\ Len(wal') <= Len(wal) /\ Len(wal) \in Nat
         /\ \A i \in 1 .. Len(wal') : wal'[i] = wal[i]
         /\ WholeRuns => Len(wal') = 0 \/ wal[Len(wal')].commit
         /\ WholeRuns /\ junk = 0 => junk' = 0
<1>1. wal \in Seq(Frame) /\ junk \in Nat /\ synced \in 0 .. Len(wal)
  BY DEF TypeOK
<1>2. PICK n \in synced .. Len(wal) :
        /\ WholeRuns => n \in {0} \cup {i \in DOMAIN wal : wal[i].commit}
        /\ wal' = SubSeq(wal, 1, n)
        /\ junk' \in IF n = Len(wal) THEN {junk}
                     ELSE IF WholeRuns THEN {0} ELSE 0 .. (FramesInFile - n)
        /\ synced' = n
  BY DEF PowerLoss
<1>3. Len(wal) \in Nat /\ n \in Nat /\ n >= synced /\ n <= Len(wal)
  BY <1>1, SeqDomain, SMTT(30)
<1>4. wal' \in Seq(Frame) /\ Len(wal') = n /\ \A i \in 1 .. n : wal'[i] = wal[i]
  BY <1>1, <1>2, <1>3, SMTT(30)
<1>5. junk' \in Nat
  BY <1>1, <1>2, <1>3, SMTT(30) DEF FramesInFile
<1>6. WholeRuns => n = 0 \/ wal[n].commit
  BY <1>2
<1>7. WholeRuns /\ junk = 0 => junk' = 0
  BY <1>2
<1> QED
  BY <1>2, <1>3, <1>4, <1>5, <1>6, <1>7

LEMMA PowerLossBase == ASSUME Base, PowerLoss PROVE Base'
<1>0. TypeOK /\ DiskTypes /\ ShmTypes /\ CkTypes /\ ntx \in Tx /\ acked \subseteq Tx
  BY TypeParts DEF Base
<1>1. wal' \in Seq(Frame) /\ junk' \in Nat /\ synced' \in 0 .. Len(wal')
  BY <1>0, PowerLossLog, SMTT(30)
<1>2. file' \in [Page -> Tx] /\ maybe' \in [Page -> SUBSET Tx]
  BY DEF PowerLoss
<1>3. \A n \in Nat : Earlier(n) \subseteq Nat
  BY <1>0, SeqDomain, SMTT(30) DEF Earlier, DiskTypes
<1>4. mxFrame' \in Nat /\ nBackfill' \in Nat /\ mark' = mark /\ ntx' = ntx /\ acked' = acked
  BY <1>0, <1>3 DEF PowerLoss, ShmTypes
<1>5. Gone(Conn) /\ ck' = Idle
  BY DEF PowerLoss
<1>6. PassReadsLog' /\ CkTypes'
  BY <1>1, <1>5, PassIdle
<1>7. TypeOK'
  BY <1>0, <1>1, <1>2, <1>4, <1>5, <1>6, GoneFacts, TypeParts DEF DiskTypes, ShmTypes, ConnTypes
<1>8. \A c \in Conn : pc'[c] = "closed"
  BY <1>0, <1>5, GoneFacts
<1>9. SingleWriter' /\ FlushHasWork'
  BY <1>8 DEF SingleWriter, FlushHasWork, Flushing
<1> QED
  BY <1>6, <1>7, <1>9 DEF Base

LEMMA BaseInit == Init => Base
<1> SUFFICES ASSUME Init PROVE Base
  OBVIOUS
<1>1. /\ 0 \in Tx /\ << >> \in Seq(Frame) /\ Len(<< >>) = 0 /\ Unused \in Nat /\ 0 \in Slot \cup {0}
      /\ Nowhere \in [{} -> Tx] /\ 0 \in 0 .. 0 /\ 0 \in Nat
  <2>1. MaxTx * NPages \in Nat
    BY Numbers, SMTT(30)
  <2>2. Unused \in Nat
    BY <2>1, SMTT(30) DEF Unused
  <2>3. 0 \in Tx
    BY Numbers, SMTT(30) DEF Tx
  <2>4. << >> \in Seq(Frame) /\ Len(<< >>) = 0 /\ 0 \in 0 .. 0 /\ 0 \in Nat
    BY SMTT(30)
  <2> QED
    BY <2>2, <2>3, <2>4 DEF Nowhere
<1>2. DiskTypes
  BY <1>1 DEF Init, DiskTypes, NoFrames
<1>3. ShmTypes
  BY <1>1 DEF Init, ShmTypes
<1>4. ConnTypes
  <2>1. Nowhere \in UNION {[S -> Tx] : S \in SUBSET Page}
    BY <1>1
  <2>2. [p \in Page |-> 0] \in [Page -> Tx]
    BY <1>1
  <2> QED
    BY <1>1, <2>1, <2>2 DEF Init, ConnTypes, NoFrames, NoHint
<1>5. CkTypes
  BY Numbers, SMTT(30) DEF Init, Idle, CkTypes
<1>6. PassReadsLog
  <2>1. ck.valid = 0 /\ ck.at = "idle"
    BY SMTT(30) DEF Init, Idle
  <2> QED
    BY <1>1, <2>1, SMTT(30) DEF Init, PassReadsLog, NoFrames
<1>7. TypeOK
  BY <1>1, <1>2, <1>3, <1>4, <1>5, TypeParts DEF Init
<1>8. SingleWriter /\ FlushHasWork
  BY DEF Init, SingleWriter, FlushHasWork, Flushing
<1> QED
  BY <1>6, <1>7, <1>8 DEF Base

LEMMA BaseStep == Base /\ [Next]_vars => Base'
<1> SUFFICES ASSUME Base, [Next]_vars PROVE Base'
  OBVIOUS
<1>1. ASSUME NEW c \in Conn, ConnStep(c) PROVE Base'
  <2>1. TypeOK' /\ SingleWriter' /\ FlushHasWork'
    BY <1>1, OpenTypes, OpenLock, FlushTypes, FlushLock, EndTypes DEF ConnStep, Base
  <2>2. Extended
    BY <1>1, ConnExtends
  <2>3. PassReadsLog'
    <3>1. CASE ck' = ck
      BY <2>2, <3>1, PassStays DEF Base
    <3>2. CASE ck' = Idle
      BY <2>2, <3>2, PassIdle DEF Extended
    <3> QED
      BY <1>1, <3>1, <3>2, ConnLog
  <2> QED
    BY <2>1, <2>3 DEF Base
<1>2. CASE Checkpoint
  <2>1. TypeOK' /\ PassReadsLog'
    BY <1>2, CheckpointTypes
  <2>2. pc' = pc /\ writeLock' = writeLock /\ dirty' = dirty /\ ntx' = ntx
    BY <1>2 DEF Checkpoint, claim_wal_checkpoint_lock, active_reader_mark, CkptDecide, CkptWrite,
                CkptSync, publish_backfill, CkptFails, CkptRest, connVars
  <2> QED
    BY <2>1, <2>2 DEF Base, SingleWriter, FlushHasWork, Flushing
<1>3. CASE PowerLoss
  BY <1>3, PowerLossBase
<1>4. CASE UNCHANGED vars
  <2>1. TypeOK'
    BY <1>4 DEF Base, TypeOK, vars, logVars, shmVars, connVars
  <2>2. SingleWriter' /\ FlushHasWork' /\ PassReadsLog'
    BY <1>4 DEF Base, SingleWriter, FlushHasWork, Flushing, PassReadsLog, Copied,
                vars, logVars, shmVars, connVars
  <2> QED
    BY <2>1, <2>2 DEF Base
<1> QED
  BY <1>1, <1>2, <1>3, <1>4 DEF Next, ConnStep

LEMMA BaseAlways == Spec => []Base
  BY BaseInit, BaseStep, PTL DEF Spec

\* Every value of the pagers', the log's and the checkpoint's state has its type:
\* no page number, frame index or slot is outside the file, the log or -shm.
THEOREM WalTypes == Spec => []TypeOK
<1>1. Base => TypeOK
  BY DEF Base
<1> QED
  BY <1>1, BaseAlways, PTL

\* flush_wal_locked's write lock admits one writer: from the choice of the frame to
\* append at until mxFrame is published the lock is that flush's, with any number
\* of connections that die, fail and checkpoint at any moment.
THEOREM OneWriterAppends == Spec => []SingleWriter
<1>1. Base => SingleWriter
  BY DEF Base
<1> QED
  BY <1>1, BaseAlways, PTL

-----------------------------------------------------------------------------
(* The steps of a pass, field by field.                                    *)

PassKeeps == file' = file /\ maybe' = maybe /\ readLock' = readLock /\ nBackfill' = nBackfill

PassBegins ==
  /\ PassKeeps
  /\ ck'.by \in Checkpointer \/ PagersCheckpoint
  /\ EarlyCheckpoint \/ synced = Len(wal)
  /\ FramesInFile > 0
  /\ ck'.at = "probe" /\ ck'.valid = Len(wal) /\ ck'.next = 1 /\ ck'.safe = FramesInFile

PassProbes ==
  LET live == readLock[ck.next] \notin {NoProc, ck.by}
  IN  /\ file' = file /\ maybe' = maybe /\ nBackfill' = nBackfill
      /\ ck.next \in Slot /\ ck.at = "probe"
      /\ ck'.at = "probe" /\ ck'.by = ck.by /\ ck'.valid = ck.valid /\ ck'.next = ck.next + 1
      /\ ck'.safe = IF live /\ mark[ck.next] > 0 /\ mark[ck.next] < ck.safe
                    THEN mark[ck.next] ELSE ck.safe
      /\ readLock' = [readLock EXCEPT ![ck.next] = IF live THEN @ ELSE NoProc]

PassDecides ==
  /\ PassKeeps
  /\ ck.at = "probe" /\ ck.next = NSlots + 1 /\ ck.safe > nBackfill
  /\ ck'.at = "write" /\ ck'.by = ck.by /\ ck'.valid = ck.valid /\ ck'.safe = ck.safe
  /\ ck'.todo = DOMAIN committed_pages(Copied)

PassWrites(p) ==
  /\ readLock' = readLock /\ nBackfill' = nBackfill
  /\ p \in ck.todo /\ p \in Page /\ p \in DOMAIN committed_pages(Copied)
  /\ file' = [file EXCEPT ![p] = committed_pages(Copied)[p]]
  /\ maybe' = [maybe EXCEPT ![p] = maybe[p] \cup {committed_pages(Copied)[p]}]
  /\ ck.at = "write" /\ ck'.at = "write" /\ ck'.by = ck.by /\ ck'.valid = ck.valid /\ ck'.safe = ck.safe
  /\ ck'.todo = ck.todo \ {p}

PassSyncs ==
  /\ file' = file /\ readLock' = readLock /\ nBackfill' = nBackfill
  /\ maybe' = [p \in Page |-> {file[p]}]
  /\ ck.at = "write" /\ ck.todo = {}
  /\ ck'.at = "publish" /\ ck'.by = ck.by /\ ck'.valid = ck.valid /\ ck'.safe = ck.safe

PassPublishes ==
  /\ file' = file /\ maybe' = maybe /\ readLock' = readLock
  /\ ck.at = "publish" /\ nBackfill' = ck.safe /\ ck'.at = "idle" /\ ck'.valid = 0

PassEnds == PassKeeps /\ ck'.at = "idle" /\ ck'.valid = 0

LEMMA IdleFields == Idle.at = "idle" /\ Idle.valid = 0 /\ Idle.by = NoProc
  BY SMTT(30) DEF Idle

LEMMA PassSteps ==
  ASSUME Base, Checkpoint
  PROVE  /\ CkptRest
         /\ \/ PassBegins \/ PassProbes \/ PassDecides \/ (\E p \in Page : PassWrites(p))
            \/ PassSyncs \/ PassPublishes \/ PassEnds
<1>1. CkptRest
  BY DEF Checkpoint, claim_wal_checkpoint_lock, active_reader_mark, CkptDecide, CkptWrite,
         CkptSync, publish_backfill, CkptFails
<1>2. TypeOK /\ CkTypes /\ nBackfill \in Nat /\ ck.safe \in Nat
  <2>1. TypeOK /\ CkTypes /\ nBackfill \in Nat
    BY DEF Base, TypeOK, CkTypes
  <2> QED
    BY <2>1, SMTT(30) DEF CkTypes
<1>3. ASSUME NEW a \in Process, claim_wal_checkpoint_lock(a) PROVE PassBegins
  <2>1. ck' = [by |-> a, at |-> "probe", valid |-> Len(wal),
               next |-> 1, safe |-> FramesInFile, todo |-> {}]
    BY <1>3 DEF claim_wal_checkpoint_lock, CkptGoto
  <2>2. /\ ck'.by = a /\ ck'.at = "probe" /\ ck'.valid = Len(wal) /\ ck'.next = 1
        /\ ck'.safe = FramesInFile
    BY <2>1, SMTT(30)
  <2> QED
    BY <1>3, <2>2 DEF claim_wal_checkpoint_lock, PassBegins, PassKeeps
<1>4. ASSUME active_reader_mark PROVE PassProbes
  <2> DEFINE s == ck.next
             live == readLock[s] \notin {NoProc, ck.by}
             m == IF live /\ mark[s] > 0 /\ mark[s] < ck.safe THEN mark[s] ELSE ck.safe
  <2>1. /\ s \in Slot /\ ck.at = "probe"
        /\ ck' = [ck EXCEPT !.next = s + 1, !.safe = m]
        /\ readLock' = [readLock EXCEPT ![s] = IF live THEN @ ELSE NoProc]
        /\ file' = file /\ maybe' = maybe /\ nBackfill' = nBackfill
    BY <1>4 DEF active_reader_mark, CkptGoto
  <2>2. PICK n : n = m
    OBVIOUS
  <2>3. ck' = [ck EXCEPT !.next = s + 1, !.safe = n]
    BY <2>1, <2>2
  <2>4. /\ ck'.at = "probe" /\ ck'.by = ck.by /\ ck'.valid = ck.valid /\ ck'.next = ck.next + 1
        /\ ck'.safe = n
    <3>1. ck.at = "probe" /\ ck' = [ck EXCEPT !.next = ck.next + 1, !.safe = n]
      BY <2>1, <2>3
    <3> HIDE DEF s, live, m
    <3> QED
      BY <1>2, <3>1, SMTT(30) DEF CkTypes
  <2> QED
    BY <2>1, <2>2, <2>4 DEF PassProbes
<1>5. ASSUME CkptDecide PROVE PassDecides \/ PassEnds
  <2>1. ck.at = "probe" /\ ck.next = NSlots + 1 /\ PassKeeps
    BY <1>5 DEF CkptDecide, CkptGoto, PassKeeps
  <2>2. CASE ck.safe <= nBackfill
    <3>1. ck' = Idle
      BY <1>5, <2>2 DEF CkptDecide, CkptGoto
    <3> QED
      BY <2>1, <3>1, IdleFields DEF PassEnds
  <2>3. CASE ~ (ck.safe <= nBackfill)
    <3>1. PICK T : T = DOMAIN committed_pages(Copied)
      OBVIOUS
    <3>2. ck' = [ck EXCEPT !.at = "write", !.todo = T]
      BY <1>5, <2>3, <3>1 DEF CkptDecide, CkptGoto
    <3>3. /\ ck'.at = "write" /\ ck'.by = ck.by /\ ck'.valid = ck.valid /\ ck'.safe = ck.safe
          /\ ck'.todo = T
      BY <1>2, <3>2, SMTT(30) DEF CkTypes
    <3>4. ck.safe > nBackfill
      BY <1>2, <2>3, SMTT(30)
    <3> QED
      BY <2>1, <3>1, <3>3, <3>4 DEF PassDecides
  <2> QED
    BY <2>2, <2>3
<1>6. ASSUME CkptWrite PROVE \E p \in Page : PassWrites(p)
  <2>1. PICK p \in Page : p = Min(ck.todo)
    BY <1>6, NextWritten
  <2>2. p \in ck.todo /\ p \in DOMAIN committed_pages(Copied) /\ ck.at = "write"
    BY <1>6, <2>1, NextWritten
  <2>3. /\ ck' = [ck EXCEPT !.todo = ck.todo \ {p}] /\ readLock' = readLock /\ nBackfill' = nBackfill
        /\ file' = [file EXCEPT ![p] = committed_pages(Copied)[p]]
        /\ maybe' = [maybe EXCEPT ![p] = maybe[p] \cup {committed_pages(Copied)[p]}]
    BY <1>6, <2>1 DEF CkptWrite, CkptGoto
  <2>4. /\ ck'.at = ck.at /\ ck'.by = ck.by /\ ck'.valid = ck.valid /\ ck'.safe = ck.safe
        /\ ck'.todo = ck.todo \ {p}
    BY <1>2, <2>3, SMTT(30) DEF CkTypes
  <2>5. PassWrites(p)
    BY <2>2, <2>3, <2>4 DEF PassWrites
  <2> QED
    BY <2>5
<1>7. ASSUME CkptSync PROVE PassSyncs
  <2>1. ck' = [ck EXCEPT !.at = "publish"]
    BY <1>7 DEF CkptSync, CkptGoto
  <2>2. ck'.at = "publish" /\ ck'.by = ck.by /\ ck'.valid = ck.valid /\ ck'.safe = ck.safe
    BY <1>2, <2>1, SMTT(30) DEF CkTypes
  <2> QED
    BY <1>7, <2>2 DEF CkptSync, CkptGoto, PassSyncs
<1>8. ASSUME publish_backfill PROVE PassPublishes
  BY <1>8, IdleFields DEF publish_backfill, CkptGoto, PassPublishes
<1>9. ASSUME CkptFails PROVE PassEnds
  BY <1>9, IdleFields DEF CkptFails, PassEnds, PassKeeps
<1> QED
  BY <1>1, <1>3, <1>4, <1>5, <1>6, <1>7, <1>8, <1>9 DEF Checkpoint

LEMMA PassAdvancesStep ==
  ASSUME Base, PassAdvances, [Next]_vars
  PROVE  PassAdvances' /\ (nBackfill' >= nBackfill \/ PowerLoss)
<1>0. nBackfill \in Nat /\ ck.safe \in Nat
  <2>1. CkTypes /\ nBackfill \in Nat
    BY TypeParts DEF Base, ShmTypes
  <2> QED
    BY <2>1, SMTT(30) DEF CkTypes
<1>1. nBackfill >= nBackfill
  BY <1>0, SMTT(30)
<1>2. ASSUME NEW c \in Conn, ConnStep(c) PROVE PassAdvances' /\ nBackfill' >= nBackfill
  BY <1>1, <1>2, ConnLog, IdleFields DEF PassAdvances
<1>3. ASSUME Checkpoint PROVE PassAdvances' /\ nBackfill' >= nBackfill
  <2>1. CASE PassBegins \/ PassProbes \/ PassEnds
    BY <1>1, <2>1 DEF PassAdvances, PassBegins, PassProbes, PassEnds, PassKeeps
  <2>2. CASE PassDecides
    BY <1>1, <2>2 DEF PassAdvances, PassDecides, PassKeeps
  <2>3. CASE PassSyncs \/ \E p \in Page : PassWrites(p)
    BY <1>1, <2>3 DEF PassAdvances, PassSyncs, PassWrites
  <2>4. CASE PassPublishes
    <3>1. ck.safe > nBackfill /\ nBackfill' = ck.safe
      BY <2>4 DEF PassAdvances, PassPublishes
    <3>2. nBackfill' >= nBackfill
      BY <1>0, <3>1, SMTT(30)
    <3> QED
      BY <2>4, <3>2 DEF PassAdvances, PassPublishes
  <2> QED
    BY <1>3, <2>1, <2>2, <2>3, <2>4, PassSteps
<1>4. CASE PowerLoss
  BY <1>4, IdleFields DEF PowerLoss, PassAdvances
<1>5. CASE UNCHANGED vars
  BY <1>1, <1>5 DEF vars, shmVars, PassAdvances
<1> QED
  BY <1>2, <1>3, <1>4, <1>5 DEF Next, ConnStep

\* checkpoint_passive never takes nBackfill back while the machine is up: what a
\* pass decided to publish is still ahead of what is published when it publishes,
\* though readers, writers and crashes come in between.
THEOREM BackfillMovesForward == Spec => BackfillNeverRetreats
<1>1. Init => PassAdvances
  BY IdleFields DEF Init, PassAdvances
<1>2. Base /\ PassAdvances /\ [Next]_vars => PassAdvances'
  BY PassAdvancesStep
<1>3. Base /\ PassAdvances /\ [Next]_vars => [nBackfill' >= nBackfill \/ PowerLoss]_vars
  BY PassAdvancesStep
<1> QED
  BY <1>1, <1>2, <1>3, BaseAlways, PTL DEF Spec, BackfillNeverRetreats

-----------------------------------------------------------------------------
(* The database and its log.                                               *)

LEMMA LogTypes ==
  ASSUME TypeOK
  PROVE  /\ wal \in Seq(Frame) /\ Len(wal) \in Nat /\ DOMAIN wal = 1 .. Len(wal)
         /\ synced \in Nat /\ synced <= Len(wal) /\ ntx \in Nat /\ junk \in Nat
         /\ \A i \in 1 .. Len(wal) : wal[i].page \in Page /\ wal[i].tx \in Tx /\ wal[i].tx \in Nat
<1>1. wal \in Seq(Frame) /\ synced \in 0 .. Len(wal) /\ ntx \in 0 .. MaxTx /\ junk \in Nat
  BY DEF TypeOK, Tx
<1>2. Len(wal) \in Nat /\ DOMAIN wal = 1 .. Len(wal)
  BY <1>1, SeqDomain
<1>3. synced \in Nat /\ synced <= Len(wal) /\ ntx \in Nat
  BY <1>1, <1>2, Numbers, SMTT(30)
<1>4. \A i \in 1 .. Len(wal) : wal[i] \in Frame
  BY <1>1, <1>2, SeqElement
<1>5. \A f \in Frame : f.page \in Page /\ f.tx \in Tx /\ f.tx \in Nat
  BY Numbers, SMTT(30) DEF Frame, Tx
<1> QED
  BY <1>1, <1>2, <1>3, <1>4, <1>5

\* A frame of the log after an append is an old one or one of the run.
LEMMA AppendedFrame ==
  ASSUME Base, NEW c \in Conn, NEW r \in append_frames(c), NEW k \in 1 .. Len(r), Appends(c, r, k),
         NEW i \in 1 .. Len(wal')
  PROVE  \/ i \in 1 .. Len(wal) /\ wal'[i] = wal[i]
         \/ /\ i > Len(wal) /\ i - Len(wal) \in 1 .. k
            /\ wal'[i].tx = ntx + 1 /\ wal'[i].page \in dirty[c]
            /\ wal'[i].commit <=> i = Len(wal) + Len(r)
<1>0. Len(r) \in Nat
  <2>1. TypeOK /\ ntx < MaxTx
    BY AppendsFacts DEF Base
  <2> QED
    BY <2>1, RunFacts, SeqDomain
<1>1. CASE i <= Len(wal)
  <2>1. i \in 1 .. Len(wal)
    BY <1>1, AppendsFacts, SMTT(30)
  <2> QED
    BY <2>1, AppendsFacts
<1>2. CASE ~ (i <= Len(wal))
  <2>1. Len(wal') = Len(wal) + k /\ Len(wal) \in Nat /\ k \in Nat
    BY AppendsFacts
  <2>2. i > Len(wal) /\ i \in Nat
    BY <1>2, <2>1, SMTT(30)
  <2>3. PICK j \in 1 .. k : j = i - Len(wal)
    BY <2>1, <2>2, SMTT(30)
  <2>4. i = Len(wal) + j /\ j \in Nat
    BY <2>1, <2>2, <2>3, SMTT(30)
  <2>5. /\ wal'[Len(wal) + j] = r[j] /\ r[j].page \in dirty[c] /\ r[j].tx = ntx + 1
        /\ r[j].commit <=> j = Len(r)
    <3>1. wal'[Len(wal) + j] = r[j] /\ j \in 1 .. Len(r) /\ ntx < MaxTx /\ TypeOK
      BY AppendsFacts DEF Base
    <3> QED
      BY <3>1, RunFacts
  <2>6. j = Len(r) <=> i = Len(wal) + Len(r)
    BY <1>0, <2>1, <2>4, SMTT(30)
  <2>7. wal'[i] = r[j]
    BY <2>4, <2>5
  <2> QED
    BY <2>2, <2>3, <2>5, <2>6, <2>7
<1> QED
  BY <1>1, <1>2

\* The log grows and shrinks at its end only, and what will stay stays.
LEMMA StableStep ==
  ASSUME Base, [Next]_vars
  PROVE  /\ Stable \in Nat /\ Stable' \in Nat /\ Stable <= Stable'
         /\ Stable <= Len(wal) /\ Stable' <= Len(wal')
         /\ \A i \in 1 .. Stable : i \in 1 .. Len(wal) /\ i \in 1 .. Len(wal') /\ wal'[i] = wal[i]
<1>0. /\ TypeOK /\ Len(wal) \in Nat /\ synced \in Nat /\ synced <= Len(wal) /\ PowerFails \in BOOLEAN
      /\ wal \in Seq(Frame)
  BY LogTypes, WalConstants DEF Base
<1>1. TypeOK'
  BY BaseStep DEF Base
<1>2. Len(wal') \in Nat /\ synced' \in Nat /\ synced' <= Len(wal')
  <2>1. wal' \in Seq(Frame) /\ synced' \in 0 .. Len(wal')
    BY <1>1 DEF TypeOK
  <2>2. Len(wal') \in Nat
    BY <2>1, SeqDomain
  <2> QED
    BY <2>1, <2>2, SMTT(30)
<1>3. CASE Extended /\ synced <= synced'
  BY <1>0, <1>2, <1>3, SMTT(30) DEF Extended, Stable
<1>4. CASE PowerLoss
  <2>1. PowerFails
    BY <1>4 DEF PowerLoss
  <2>2. /\ synced' = Len(wal') /\ Len(wal') >= synced /\ Len(wal') <= Len(wal)
        /\ \A i \in 1 .. Len(wal') : wal'[i] = wal[i]
    BY <1>0, <1>4, PowerLossLog
  <2> QED
    BY <1>0, <1>2, <2>1, <2>2, SMTT(30) DEF Stable
<1>5. ASSUME NEW c \in Conn, ConnStep(c) PROVE Extended /\ synced <= synced'
  <2>1. Extended
    BY <1>5, ConnExtends
  <2>2. synced' \in {synced, Len(wal)}
    BY <1>5, ConnLog DEF LogKept, Appends
  <2> QED
    BY <1>0, <2>1, <2>2, SMTT(30)
<1>6. ASSUME Checkpoint \/ UNCHANGED vars PROVE Extended /\ synced <= synced'
  <2>1. wal' = wal /\ synced' = synced
    BY <1>6, PassSteps DEF CkptRest, vars, logVars
  <2> QED
    BY <1>0, <2>1, SMTT(30) DEF Extended
<1> QED
  BY <1>3, <1>4, <1>5, <1>6 DEF Next, ConnStep

LEMMA LogOrderedStep == ASSUME Base, LogOrdered, [Next]_vars PROVE LogOrdered'
<1>0. TypeOK /\ Len(wal) \in Nat /\ ntx \in Nat /\ \A i \in 1 .. Len(wal) : wal[i].tx \in Nat
  BY LogTypes DEF Base
<1>1. ASSUME wal' = wal, ntx' \in {ntx, ntx + 1} PROVE LogOrdered'
  <2>1. \A i \in 1 .. Len(wal) : wal[i].tx \in 1 .. ntx'
    BY <1>0, <1>1, SMTT(30) DEF LogOrdered
  <2> QED
    BY <1>1, <2>1 DEF LogOrdered
<1>2. ASSUME NEW c \in Conn, NEW r \in append_frames(c), NEW k \in 1 .. Len(r), Appends(c, r, k)
      PROVE  LogOrdered'
  <2> DEFINE Old(i) == i \in 1 .. Len(wal) /\ wal'[i] = wal[i]
             New(i) == i > Len(wal) /\ wal'[i].tx = ntx + 1 /\ (wal'[i].commit <=> i = Len(wal) + Len(r))
  <2>1. \A i \in 1 .. Len(wal') : (Old(i) \/ New(i)) /\ i <= Len(wal) + Len(r)
    <3>1. \A i \in 1 .. Len(wal') : Old(i) \/ New(i)
      BY <1>2, AppendedFrame
    <3>2. Len(wal') = Len(wal) + k /\ k \in Nat
      BY <1>2, AppendsFacts
    <3>3. Len(r) \in Nat
      <4>1. ntx < MaxTx
        BY <1>2, AppendsFacts
      <4> QED
        BY <1>0, <4>1, RunFacts, SeqDomain
    <3>4. \A i \in 1 .. Len(wal') : i <= Len(wal) + Len(r)
      BY <1>0, <3>2, <3>3, SMTT(30)
    <3> QED
      BY <3>1, <3>4
  <2>2. ntx' = ntx + 1
    BY <1>2 DEF Appends
  <2>3. \A i \in 1 .. Len(wal') : wal'[i].tx \in 1 .. ntx'
    <3> TAKE i \in 1 .. Len(wal')
    <3>1. CASE Old(i)
      BY <1>0, <2>2, <3>1, SMTT(30) DEF LogOrdered
    <3>2. CASE New(i)
      BY <1>0, <2>2, <3>2, SMTT(30)
    <3> QED
      BY <2>1, <3>1, <3>2
  <2>4. ASSUME NEW i \in 1 .. Len(wal'), NEW j \in 1 .. Len(wal'), i <= j
        PROVE  wal'[i].tx <= wal'[j].tx /\ (i < j /\ wal'[i].commit => wal'[i].tx < wal'[j].tx)
    <3>0. i \in Nat /\ j \in Nat /\ Len(r) \in Int
      <4>1. ntx < MaxTx
        BY <1>2, AppendsFacts
      <4>2. Len(r) \in Nat
        BY <1>0, <4>1, RunFacts, SeqDomain
      <4> QED
        BY <4>2, SMTT(30)
    <3>1. CASE Old(i) /\ Old(j)
      BY <2>4, <3>1 DEF LogOrdered
    <3>2. CASE Old(i) /\ New(j)
      BY <1>0, <3>2, SMTT(30) DEF LogOrdered
    <3>3. CASE New(i) /\ Old(j)
      BY <1>0, <2>4, <3>0, <3>3, SMTT(30)
    <3>4. CASE New(i) /\ New(j)
      <4>1. wal'[i].tx <= wal'[j].tx
        BY <1>0, <3>4, SMTT(30)
      <4>2. j <= Len(wal) + Len(r)
        BY <2>1
      <4>3. i < j => i # Len(wal) + Len(r)
        BY <1>0, <3>0, <4>2, SMTT(30)
      <4> QED
        BY <3>4, <4>1, <4>3
    <3> QED
      BY <2>1, <3>1, <3>2, <3>3, <3>4
  <2> HIDE DEF Old, New
  <2>5. \A i, j \in 1 .. Len(wal') : i < j => i <= j
    BY <2>4, SeqDomain, SMTT(30)
  <2> QED
    BY <2>3, <2>4, <2>5 DEF LogOrdered
<1>3. ASSUME PowerLoss PROVE LogOrdered'
  <2>1. Len(wal') \in Nat /\ Len(wal') <= Len(wal) /\ \A i \in 1 .. Len(wal') : wal'[i] = wal[i]
    BY <1>0, <1>3, PowerLossLog
  <2>2. \A i \in 1 .. Len(wal') : i \in 1 .. Len(wal)
    BY <1>0, <2>1, SMTT(30)
  <2>3. ntx' = ntx
    BY <1>3 DEF PowerLoss
  <2> QED
    BY <2>1, <2>2, <2>3 DEF LogOrdered
<1>4. ASSUME Checkpoint \/ UNCHANGED vars PROVE LogOrdered'
  <2>1. wal' = wal /\ ntx' = ntx
    BY <1>4, PassSteps DEF CkptRest, vars, logVars
  <2> QED
    BY <1>1, <2>1
<1>5. ASSUME NEW c \in Conn, ConnStep(c) PROVE LogOrdered'
  BY <1>1, <1>2, <1>5, ConnLog DEF LogKept
<1> QED
  BY <1>3, <1>4, <1>5 DEF Next, ConnStep

LEMMA FileFromLogStep ==
  ASSUME CopiesStay, Base, FileFromLog, [Next]_vars PROVE FileFromLog'
<1>0. /\ TypeOK /\ Len(wal) \in Nat /\ synced \in Nat /\ synced <= Len(wal)
      /\ file \in [Page -> Tx] /\ maybe \in [Page -> SUBSET Tx]
      /\ ck.valid \in Nat /\ 0 <= Stable'
  <2>1. TypeOK /\ DiskTypes /\ CkTypes
    BY TypeParts DEF Base
  <2>2. ck.valid \in Nat
    BY <2>1, SMTT(30) DEF CkTypes
  <2>3. 0 <= Stable'
    BY StableStep, SMTT(30)
  <2> QED
    BY <2>1, <2>2, <2>3, LogTypes DEF DiskTypes
<1>1. \A p \in Page : InCommitted(p, Stable) => InCommitted(p, Stable)'
  <2> SUFFICES ASSUME NEW p \in Page, InCommitted(p, Stable) PROVE InCommitted(p, Stable)'
    OBVIOUS
  <2>1. PICK i \in 1 .. Len(wal), j \in 1 .. Len(wal) :
          i <= j /\ j <= Stable /\ wal[i].page = p /\ wal[j].commit
    BY DEF InCommitted
  <2>2. i \in 1 .. Stable /\ j \in 1 .. Stable /\ j <= Stable'
    BY <1>0, <2>1, StableStep, SMTT(30)
  <2>3. i \in 1 .. Len(wal') /\ wal'[i] = wal[i] /\ j \in 1 .. Len(wal') /\ wal'[j] = wal[j]
    BY <2>2, StableStep
  <2> QED
    BY <2>1, <2>2, <2>3 DEF InCommitted
<1>2. ASSUME file' = file, maybe' = maybe, ck'.valid <= Stable' PROVE FileFromLog'
  BY <1>1, <1>2 DEF FileFromLog
<1>3. ck.valid <= Stable'
  BY <1>0, StableStep, SMTT(30) DEF FileFromLog
<1>4. ASSUME NEW c \in Conn, ConnStep(c) PROVE FileFromLog'
  <2>1. ck' = ck \/ ck' = Idle
    BY <1>4, ConnLog
  <2>2. ck'.valid <= Stable'
    BY <1>0, <1>3, <2>1, IdleFields
  <2> QED
    BY <1>2, <1>4, <2>2, ConnLog
<1>5. ASSUME PowerLoss PROVE FileFromLog'
  <2>1. /\ \A p \in Page : file'[p] \in maybe[p]
        /\ maybe' = [p \in Page |-> {file'[p]}] /\ ck' = Idle
    BY <1>5 DEF PowerLoss
  <2>2. ck'.valid <= Stable'
    BY <1>0, <2>1, IdleFields
  <2> QED
    BY <1>1, <2>1, <2>2 DEF FileFromLog
<1>6. ASSUME Checkpoint PROVE FileFromLog'
  <2>0. wal' = wal /\ synced' = synced /\ Stable' = Stable
    BY <1>6, PassSteps DEF CkptRest, logVars, Stable
  <2>1. CASE PassBegins
    <3>1. Len(wal) <= Stable'
      <4>1. CASE synced = Len(wal)
        BY <1>0, <2>0, <4>1, SMTT(30) DEF Stable
      <4>2. CASE EarlyCheckpoint
        BY <1>0, <2>0, <4>2, SMTT(30) DEF Stable, CopiesStay
      <4> QED
        BY <2>1, <4>1, <4>2 DEF PassBegins
    <3> QED
      BY <1>2, <2>1, <3>1 DEF PassBegins, PassKeeps
  <2>2. CASE PassProbes \/ PassDecides
    BY <1>2, <1>3, <2>2 DEF PassProbes, PassDecides, PassKeeps
  <2>3. CASE PassPublishes \/ PassEnds
    BY <1>0, <1>2, <2>3 DEF PassPublishes, PassEnds, PassKeeps
  <2>4. CASE PassSyncs
    <3>1. \A p \in Page : maybe'[p] = {file[p]} /\ file[p] \in maybe[p]
      BY <2>4 DEF PassSyncs, FileFromLog
    <3> QED
      BY <1>1, <1>3, <2>4, <3>1 DEF PassSyncs, FileFromLog
  <2>5. ASSUME NEW p \in Page, PassWrites(p) PROVE FileFromLog'
    <3> DEFINE v == committed_pages(Copied)[p]
    <3>1. InCommitted(p, Stable)
      <4>1. /\ Copied \in Seq(Frame) /\ Len(Copied) <= Len(wal) /\ Len(Copied) <= ck.valid
            /\ \A i \in 1 .. Len(Copied) : Copied[i] = wal[i]
        BY <1>0, CopiedFacts DEF Base
      <4>2. PICK n \in Nat : n = CommitEnd(Copied) /\ n \in 0 .. Len(Copied) /\ (n > 0 => Copied[n].commit)
        <5>1. CommitEnd(Copied) \in 0 .. Len(Copied)
          BY <4>1, CommitEndFacts
        <5>2. CommitEnd(Copied) \in Nat
          BY <5>1, SMTT(30)
        <5> QED
          BY <4>1, <5>1, <5>2, CommitEndFacts
      <4>3. PICK l \in 1 .. n : Copied[l].page = p
        BY <2>5, <4>1, <4>2, CommittedPages DEF PassWrites
      <4>4. Len(Copied) \in Nat /\ Stable \in Nat /\ ck.valid <= Stable
        BY <4>1, SeqDomain, StableStep DEF FileFromLog
      <4>5. /\ n > 0 /\ n \in 1 .. Len(Copied) /\ l \in 1 .. Len(Copied) /\ l <= n /\ n <= Stable
            /\ n \in 1 .. Len(wal) /\ l \in 1 .. Len(wal)
        BY <1>0, <4>1, <4>2, <4>3, <4>4, SMTT(30)
      <4>6. wal[l].page = p /\ wal[n].commit
        BY <4>1, <4>2, <4>3, <4>5
      <4> QED
        BY <4>5, <4>6 DEF InCommitted
    <3>2. file' = [file EXCEPT ![p] = v] /\ maybe' = [maybe EXCEPT ![p] = maybe[p] \cup {v}]
      BY <2>5 DEF PassWrites
    <3> HIDE DEF v
    <3>3. ASSUME NEW q \in Page
          PROVE  /\ file'[q] \in maybe'[q]
                 /\ \A u \in maybe'[q] : u = 0 \/ InCommitted(q, Stable)'
      <4>1. CASE q = p
        BY <1>0, <1>1, <3>1, <3>2, <4>1
      <4>2. CASE q # p
        BY <1>0, <1>1, <3>2, <4>2 DEF FileFromLog
      <4> QED
        BY <4>1, <4>2
    <3> QED
      BY <1>3, <2>5, <3>3 DEF PassWrites, FileFromLog
  <2> QED
    BY <1>6, <2>1, <2>2, <2>3, <2>4, <2>5, PassSteps
<1>7. CASE UNCHANGED vars
  BY <1>2, <1>3, <1>7 DEF vars
<1> QED
  BY <1>4, <1>5, <1>6, <1>7 DEF Next, ConnStep

LEMMA FileFromLogInit == Init => LogOrdered /\ FileFromLog
<1> SUFFICES ASSUME Init PROVE LogOrdered /\ FileFromLog
  OBVIOUS
<1>1. wal = << >> /\ synced = 0 /\ ck.valid = 0
  BY IdleFields DEF Init, NoFrames
<1>2. Len(wal) = 0 /\ 1 .. Len(wal) = {} /\ 0 <= Stable
  BY <1>1, SMTT(30) DEF Stable
<1>3. LogOrdered
  BY <1>2 DEF LogOrdered
<1>4. FileFromLog
  BY <1>1, <1>2 DEF Init, FileFromLog
<1> QED
  BY <1>3, <1>4

LEMMA FileFromLogAlways == ASSUME CopiesStay PROVE Spec => [](Base /\ LogOrdered /\ FileFromLog)
<1>1. Base /\ LogOrdered /\ FileFromLog /\ [Next]_vars => (Base /\ LogOrdered /\ FileFromLog)'
  BY BaseStep, LogOrderedStep, FileFromLogStep
<1> QED
  BY <1>1, BaseInit, FileFromLogInit, PTL DEF Spec

\* A frame is in a transaction of the log exactly when it is committed.
LEMMA CommittedIsLogged ==
  ASSUME TypeOK
  PROVE  UNION {e.writes : e \in Log} = {<<wal[j].page, wal[j].tx>> : j \in 1 .. CommitEnd(wal)}
<1> DEFINE Writes(i) == {<<wal[j].page, wal[j].tx>> : j \in EndedBy(i)}
           C == {i \in 1 .. Len(wal) : wal[i].commit}
<1>0. wal \in Seq(Frame) /\ Len(wal) \in Nat /\ DOMAIN wal = 1 .. Len(wal)
  BY LogTypes
<1>1. PICK n \in Nat : /\ n = CommitEnd(wal) /\ n \in 0 .. Len(wal) /\ (n > 0 => wal[n].commit)
                       /\ \A i \in 1 .. Len(wal) : wal[i].commit => i <= n
  <2>1. CommitEnd(wal) \in 0 .. Len(wal)
    BY <1>0, CommitEndFacts
  <2>2. CommitEnd(wal) \in Nat
    BY <2>1, SMTT(30)
  <2> QED
    BY <1>0, <2>1, <2>2, CommitEndFacts
<1>2. {e.writes : e \in Log} = {Writes(i) : i \in C}
  <2>1. Log = {[tx |-> wal[i].tx, writes |-> Writes(i)] : i \in C}
    BY <1>0 DEF Log
  <2>2. \A i \in C : [tx |-> wal[i].tx, writes |-> Writes(i)].writes = Writes(i)
    OBVIOUS
  <2> HIDE DEF Writes, C
  <2> QED
    BY <2>1, <2>2
<1>3. ASSUME NEW i \in C, NEW j \in EndedBy(i) PROVE j \in 1 .. n
  <2>1. i <= n /\ i \in 1 .. Len(wal) /\ j \in 1 .. i
    BY <1>1 DEF EndedBy
  <2> QED
    BY <1>0, <2>1, SMTT(30)
<1>4. ASSUME NEW j \in 1 .. n PROVE \E i \in C : j \in EndedBy(i)
  <2> DEFINE S == {i \in C : j <= i}
  <2>1. n > 0 /\ n \in 1 .. Len(wal) /\ j <= n /\ j \in Nat /\ j >= 1
    BY <1>0, <1>1, SMTT(30)
  <2>2. n \in S
    BY <1>1, <2>1
  <2>3. S \in SUBSET Nat
    BY <1>0, SMTT(30)
  <2>4. Min(S) \in S /\ \A i \in S : Min(S) <= i
    BY <2>2, <2>3, MinFacts
  <2>5. PICK m \in C : m = Min(S) /\ j <= m /\ \A i \in S : m <= i
    BY <2>4
  <2>6. m \in Nat /\ j \in 1 .. m /\ m \in 1 .. Len(wal)
    BY <1>0, <2>1, <2>5, SMTT(30)
  <2>7. ASSUME NEW k \in j .. (m - 1) PROVE ~ wal[k].commit
    <3>1. k \in 1 .. Len(wal) /\ j <= k /\ ~ (m <= k)
      BY <1>0, <2>1, <2>6, SMTT(30)
    <3> QED
      BY <2>5, <3>1
  <2>8. j \in EndedBy(m)
    BY <2>6, <2>7 DEF EndedBy
  <2> QED
    BY <2>8
<1>5. UNION {Writes(i) : i \in C} = {<<wal[j].page, wal[j].tx>> : j \in 1 .. n}
  <2> HIDE DEF C
  <2>1. ASSUME NEW x \in UNION {Writes(i) : i \in C}
        PROVE  x \in {<<wal[j].page, wal[j].tx>> : j \in 1 .. n}
    <3>1. PICK i \in C : x \in Writes(i)
      BY <2>1
    <3>2. PICK j \in EndedBy(i) : x = <<wal[j].page, wal[j].tx>>
      BY <3>1
    <3> QED
      BY <1>3, <3>2
  <2>2. ASSUME NEW x \in {<<wal[j].page, wal[j].tx>> : j \in 1 .. n}
        PROVE  x \in UNION {Writes(i) : i \in C}
    <3>1. PICK j \in 1 .. n : x = <<wal[j].page, wal[j].tx>>
      BY <2>2
    <3>2. PICK i \in C : j \in EndedBy(i)
      BY <1>4
    <3>3. x \in Writes(i)
      BY <3>1, <3>2
    <3> HIDE DEF Writes
    <3> QED
      BY <3>3
  <2> HIDE DEF Writes
  <2> QED
    BY <2>1, <2>2
<1> QED
  BY <1>1, <1>2, <1>5

\* What a pager reads over the main file is the newest the log has.
LEMMA ReadsTheLog ==
  ASSUME Base, LogOrdered, FileFromLog PROVE DatabaseIsTheLog
<1> DEFINE n == CommitEnd(wal)
           o == committed_pages(wal)
           W == {<<wal[j].page, wal[j].tx>> : j \in 1 .. n}
           S(p) == {0} \cup {w[2] : w \in {x \in W : x[1] = p}}
<1>0. /\ TypeOK /\ wal \in Seq(Frame) /\ Len(wal) \in Nat /\ file \in [Page -> Tx]
      /\ \A i \in 1 .. Len(wal) : wal[i].page \in Page /\ wal[i].tx \in Tx /\ wal[i].tx \in Nat
  BY LogTypes DEF Base, TypeOK
<1>1. n \in 0 .. Len(wal) /\ \A i \in 1 .. Len(wal) : wal[i].commit => i <= n
  BY <1>0, CommitEndFacts
<1>2. \A j \in 1 .. n : j \in 1 .. Len(wal)
  BY <1>0, <1>1, SMTT(30)
<1>3. o \in UNION {[T -> Tx] : T \in SUBSET Page} /\ DOMAIN o = {wal[i].page : i \in 1 .. n}
  BY <1>0, CommittedPages
<1>4. ASSUME NEW p \in Page PROVE S(p) = {0} \cup {wal[j].tx : j \in {i \in 1 .. n : wal[i].page = p}}
  <2>1. ASSUME NEW x \in {w[2] : w \in {y \in W : y[1] = p}}
        PROVE  x \in {wal[j].tx : j \in {i \in 1 .. n : wal[i].page = p}}
    <3>1. PICK w \in W : w[1] = p /\ x = w[2]
      BY <2>1
    <3>2. PICK j \in 1 .. n : w = <<wal[j].page, wal[j].tx>>
      BY <3>1
    <3> QED
      BY <3>1, <3>2
  <2>2. ASSUME NEW j \in {i \in 1 .. n : wal[i].page = p}
        PROVE  wal[j].tx \in {w[2] : w \in {y \in W : y[1] = p}}
    <3>1. PICK w \in W : w = <<wal[j].page, wal[j].tx>>
      BY <2>2
    <3>2. w[1] = p /\ w[2] = wal[j].tx
      BY <2>2, <3>1
    <3> QED
      BY <3>2
  <2> HIDE DEF W, n
  <2> QED
    BY <2>1, <2>2
<1>5. ASSUME NEW p \in Page PROVE Over(o, file)[p] = Max(S(p))
  <2> DEFINE T == {0} \cup {wal[j].tx : j \in {i \in 1 .. n : wal[i].page = p}}
  <2>1. T \in SUBSET (0 .. MaxTx) /\ T # {} /\ MaxTx \in Nat
    <3>1. 0 \in Tx
      BY Numbers, SMTT(30) DEF Tx
    <3> QED
      BY <1>0, <1>2, <3>1, Numbers DEF Tx
  <2>2. Max(T) \in T /\ \A t \in T : t <= Max(T)
    <3> HIDE DEF T
    <3> QED
      BY <2>1, MaxFacts
  <2>3. CASE p \in DOMAIN o
    <3>1. PICK l \in 1 .. n : /\ wal[l].page = p /\ o[p] = wal[l].tx
                              /\ \A j \in 1 .. n : wal[j].page = p => j <= l
      BY <1>0, <2>3, CommittedPages
    <3>2. \A j \in 1 .. n : wal[j].page = p => wal[j].tx <= wal[l].tx
      BY <1>2, <3>1 DEF LogOrdered
    <3>3. 0 <= wal[l].tx /\ wal[l].tx \in Nat
      BY <1>0, <1>2, SMTT(30)
    <3>4. wal[l].tx \in T /\ \A t \in T : t <= wal[l].tx
      BY <3>1, <3>2, <3>3
    <3>5. Max(T) \in Nat /\ wal[l].tx <= Max(T) /\ Max(T) <= wal[l].tx
      <4> HIDE DEF T
      <4>0. Max(T) \in 0 .. MaxTx
        BY <2>1, <2>2
      <4>1. Max(T) \in Nat
        BY <2>1, <4>0, SMTT(30)
      <4> QED
        BY <2>2, <3>4, <4>1
    <3>6. Max(T) = wal[l].tx
      <4> HIDE DEF T
      <4> QED
        BY <3>3, <3>5, SMTT(30)
    <3> QED
      BY <1>0, <1>3, <1>4, <2>3, <3>1, <3>6, OverType
  <2>4. CASE p \notin DOMAIN o
    <3>1. T = {0}
      BY <1>3, <2>4
    <3>2. Max(T) = 0
      <4> HIDE DEF T
      <4> QED
        BY <2>2, <3>1
    <3>3. ~ InCommitted(p, Stable)
      <4> SUFFICES ASSUME InCommitted(p, Stable) PROVE FALSE
        OBVIOUS
      <4>1. PICK i \in 1 .. Len(wal), j \in 1 .. Len(wal) : i <= j /\ wal[i].page = p /\ wal[j].commit
        BY DEF InCommitted
      <4>2. j <= n
        BY <1>1, <4>1
      <4>3. i \in 1 .. n
        <5> HIDE DEF n
        <5> QED
          BY <1>0, <1>1, <4>1, <4>2, SMTT(30)
      <4> QED
        BY <1>3, <2>4, <4>1, <4>3
    <3>4. file[p] = 0
      BY <3>3 DEF FileFromLog
    <3>5. Over(o, file)[p] = file[p]
      BY <1>0, <1>3, <2>4, OverType
    <3>6. S(p) = T
      BY <1>4
    <3> QED
      BY <3>2, <3>4, <3>5, <3>6
  <2> QED
    BY <2>3, <2>4
<1>6. UNION {e.writes : e \in Log} = W
  BY <1>0, CommittedIsLogged
<1>7. Over(o, file) \in [Page -> Tx]
  BY <1>0, <1>3, OverType
<1>8. Over(o, file) = [p \in Page |-> Max(S(p))]
  <2> HIDE DEF S, o
  <2> QED
    BY <1>5, <1>7
<1> QED
  BY <1>6, <1>8 DEF DatabaseIsTheLog

\* Pager::open and checkpoint_passive agree: at every moment, whatever was copied
\* and whoever died, the log's committed pages over the main file are the newest
\* version of every page that the log's transactions wrote.  Assumed is only
\* that no pass copies frames that a power loss can still take.
THEOREM DatabaseIsItsLog == ASSUME CopiesStay PROVE Spec => []DatabaseIsTheLog
<1>1. Base /\ LogOrdered /\ FileFromLog => DatabaseIsTheLog
  BY ReadsTheLog
<1> QED
  BY <1>1, FileFromLogAlways, PTL

-----------------------------------------------------------------------------
(* The resume hint.                                                        *)

\* A sequence of frames that the log begins with.
FirstPart(h) == Len(h) <= Len(wal) /\ \A i \in 1 .. Len(h) : h[i] = wal[i]

LEMMA FirstPartStays ==
  ASSUME TypeOK, Extended, NEW h \in Seq(Frame), FirstPart(h)
  PROVE  Len(h) <= Len(wal') /\ \A i \in 1 .. Len(h) : h[i] = wal'[i]
<1>1. Len(h) \in Nat /\ Len(wal) \in Nat /\ Len(wal') \in Nat
  BY SeqDomain, LogTypes DEF Extended
<1> QED
  BY <1>1, SMTT(30) DEF FirstPart, Extended

\* A hint that has the file's size is the log.
LEMMA WholeHint ==
  ASSUME TypeOK, NEW h \in Seq(Frame), FirstPart(h), Len(h) = FramesInFile
  PROVE  h = wal /\ junk = 0
<1>1. wal \in Seq(Frame) /\ Len(wal) \in Nat /\ junk \in Nat /\ Len(h) \in Nat
  BY SeqDomain, LogTypes
<1>2. Len(h) = Len(wal) /\ junk = 0
  BY <1>1, SMTT(30) DEF FirstPart, FramesInFile
<1> QED
  BY <1>1, <1>2, SeqSame DEF FirstPart

\* Without sync_skipped, only the flush of c itself touches its hint and writer.
LEMMA HintSteps ==
  ASSUME Base, Sync = "full", NEW c \in Conn, ConnStep(c)
  PROVE  /\ \A d \in Conn : d # c => hint'[d] = hint[d] /\ writer'[d] = writer[d] /\ pc'[d] = pc[d]
         /\ \/ hint'[c] = hint[c]
            \/ hint'[c] = << >>
            \/ pc[c] = "written" /\ hint'[c] = writer[c] /\ wal' = wal
         /\ \/ pc'[c] \notin {"written", "synced"}
            \/ pc[c] = "written" /\ wal' = wal /\ writer'[c] = writer[c]
            \/ \E r \in append_frames(c) : /\ pc[c] = "flush" /\ Land(open_existing(c), r)
                                           /\ writer'[c] = open_existing(c) \o r
<1>0. TypeOK /\ ConnTypes
  BY TypeParts DEF Base
<1>1. CASE Open(c)
  <2>1. PICK there \in {"claimed", "marked", "ready"} : \E here : Goto(c, here, there)
    BY <1>1 DEF Open, ClaimSlot, PublishMark, read_wal_pages
  <2>2. pc'[c] = there /\ \A d \in Conn : d # c => pc'[d] = pc[d]
    BY <1>0, <2>1, GotoFacts
  <2>3. hint' = hint /\ writer' = writer
    BY <1>1 DEF Open, ClaimSlot, PublishMark, read_wal_pages
  <2>4. there \notin {"written", "synced"}
    BY <2>1
  <2> QED
    BY <2>2, <2>3, <2>4
<1>2. CASE begin_immediate(c) \/ rollback(c) \/ claim_write_lock_refused(c)
  BY <1>2 DEF begin_immediate, rollback, claim_write_lock_refused, Ready
<1>3. ASSUME NEW D \in SUBSET Page, claim_write_lock(c, D)
      PROVE  /\ hint' = hint /\ writer' = writer /\ pc'[c] = "flush"
             /\ \A d \in Conn : d # c => pc'[d] = pc[d]
  BY <1>0, <1>3, GotoFacts DEF claim_write_lock
<1>4. CASE sync_write(c)
  <2>1. PICK r \in append_frames(c) : /\ Land(open_existing(c), r)
                                      /\ writer' = [writer EXCEPT ![c] = open_existing(c) \o r]
    BY <1>4 DEF sync_write
  <2>2. pc[c] = "flush" /\ (\A d \in Conn : d # c => pc'[d] = pc[d]) /\ hint' = hint
    BY <1>0, <1>4, GotoFacts DEF sync_write
  <2>3. writer'[c] = open_existing(c) \o r /\ \A d \in Conn : d # c => writer'[d] = writer[d]
    BY <1>0, <2>1 DEF ConnTypes
  <2> QED
    BY <2>1, <2>2, <2>3
<1>5. CASE sync_fsync(c)
  <2>1. pc[c] = "written" /\ pc'[c] = "synced" /\ \A d \in Conn : d # c => pc'[d] = pc[d]
    BY <1>0, <1>5, GotoFacts DEF sync_fsync
  <2>2. hint' = [hint EXCEPT ![c] = writer[c]] /\ writer' = writer /\ wal' = wal
    BY <1>5 DEF sync_fsync
  <2>3. hint'[c] = writer[c] /\ \A d \in Conn : d # c => hint'[d] = hint[d]
    BY <1>0, <2>2 DEF ConnTypes
  <2> QED
    BY <2>1, <2>2, <2>3
<1>6. CASE publish_mx_frame(c) \/ FlushFails(c)
  <2>1. /\ pc' = [pc EXCEPT ![c] = "ready"] /\ hint' = hint
        /\ writer' = [writer EXCEPT ![c] = NoFrames]
    BY <1>6 DEF publish_mx_frame, FlushFails, Goto
  <2>2. pc'[c] = "ready" /\ \A d \in Conn : d # c => pc'[d] = pc[d] /\ writer'[d] = writer[d]
    BY <1>0, <2>1 DEF ConnTypes
  <2> QED
    BY <2>1, <2>2
<1>7. CASE Close(c) \/ Crash(c)
  <2>1. Gone({c})
    BY <1>7 DEF Close, Crash
  <2>2. /\ pc'[c] = "closed" /\ hint'[c] = << >>
        /\ \A d \in Conn : d # c => hint'[d] = hint[d] /\ writer'[d] = writer[d] /\ pc'[d] = pc[d]
    BY <2>1 DEF Gone, NoHint
  <2> QED
    BY <2>2
<1>8. ~ sync_skipped(c)
  BY DEF sync_skipped
<1>9. CASE \E D \in SUBSET Page : claim_write_lock(c, D)
  BY <1>3, <1>9
<1> QED
  BY <1>1, <1>2, <1>4, <1>5, <1>6, <1>7, <1>8, <1>9 DEF ConnStep, Flush

LEMMA HintsStep ==
  ASSUME Sync = "full", Base, HintsAreFirstParts, [Next]_vars
  PROVE  HintsAreFirstParts'
<1>0. /\ TypeOK /\ SingleWriter /\ wal \in Seq(Frame) /\ Len(wal) \in Nat
      /\ \A c \in Conn : hint[c] \in Seq(Frame) /\ writer[c] \in Seq(Frame)
  BY LogTypes DEF Base, TypeOK
<1>1. ASSUME NEW c \in Conn, ConnStep(c) PROVE HintsAreFirstParts'
  <2>1. Extended
    BY <1>1, ConnExtends
  <2>2. ASSUME NEW d \in Conn
        PROVE  Len(hint'[d]) <= Len(wal') /\ \A i \in 1 .. Len(hint'[d]) : hint'[d][i] = wal'[i]
    <3>1. CASE hint'[d] = hint[d]
      <4>1. FirstPart(hint[d]) /\ hint[d] \in Seq(Frame)
        BY <1>0 DEF HintsAreFirstParts, FirstPart
      <4>2. Len(hint[d]) <= Len(wal') /\ \A i \in 1 .. Len(hint[d]) : hint[d][i] = wal'[i]
        BY <1>0, <2>1, <4>1, FirstPartStays
      <4> QED
        BY <3>1, <4>2
    <3>2. CASE hint'[d] = << >>
      <4>1. Len(wal') \in Nat
        BY <2>1, SeqDomain DEF Extended
      <4> QED
        BY <3>2, <4>1, SMTT(30)
    <3>3. CASE pc[d] = "written" /\ hint'[d] = writer[d] /\ wal' = wal
      <4>1. hint'[d] = wal'
        BY <3>3 DEF HintsAreFirstParts
      <4> QED
        BY <1>0, <3>3, <4>1, SMTT(30)
    <3> QED
      BY <1>1, <3>1, <3>2, <3>3, HintSteps
  <2>3. ASSUME NEW d \in Conn, pc'[d] \in {"written", "synced"} PROVE writer'[d] = wal'
    <3>1. CASE d = c /\ pc[c] = "written" /\ wal' = wal /\ writer'[c] = writer[c]
      BY <3>1 DEF HintsAreFirstParts
    <3>2. CASE d = c /\ \E r \in append_frames(c) : /\ pc[c] = "flush" /\ Land(open_existing(c), r)
                                                    /\ writer'[c] = open_existing(c) \o r
      <4>1. FirstPart(hint[c])
        BY DEF HintsAreFirstParts, FirstPart
      <4>2. open_existing(c) = wal
        BY <1>0, <4>1, WholeHint DEF open_existing
      <4> QED
        BY <3>2, <4>2 DEF Land
    <3>3. CASE d # c
      <4>1. pc'[d] = pc[d] /\ writer'[d] = writer[d] /\ writer[d] = wal
        BY <1>1, <2>3, <3>3, HintSteps DEF HintsAreFirstParts
      <4>2. pc[c] # "flush"
        BY <1>0, <2>3, <3>3, <4>1, OneFlushing DEF Flushing
      <4>3. wal' = wal
        BY <1>1, <4>2, ConnLog DEF LogKept, Appends
      <4> QED
        BY <4>1, <4>3
    <3> QED
      BY <1>1, <2>3, <3>1, <3>2, <3>3, HintSteps
  <2> QED
    BY <2>2, <2>3 DEF HintsAreFirstParts
<1>2. CASE Checkpoint \/ UNCHANGED vars
  <2>1. wal' = wal /\ hint' = hint /\ writer' = writer /\ pc' = pc
    BY <1>2, PassSteps DEF CkptRest, logVars, connVars, vars
  <2> QED
    BY <2>1 DEF HintsAreFirstParts
<1>3. CASE PowerLoss
  <2>1. Gone(Conn) /\ wal' \in Seq(Frame)
    BY <1>0, <1>3, PowerLossLog DEF PowerLoss
  <2>2. \A c \in Conn : pc'[c] = "closed" /\ hint'[c] = << >>
    BY <2>1 DEF Gone, NoHint
  <2>3. Len(wal') \in Nat
    BY <2>1, SeqDomain
  <2>4. Len(<< >>) <= Len(wal') /\ 1 .. Len(<< >>) = {}
    BY <2>3, SMTT(30)
  <2> QED
    BY <2>2, <2>4 DEF HintsAreFirstParts
<1> QED
  BY <1>1, <1>2, <1>3 DEF Next, ConnStep

LEMMA HintsAlways == ASSUME Sync = "full" PROVE Spec => [](Base /\ HintsAreFirstParts)
<1>1. Init => HintsAreFirstParts
  <2> SUFFICES ASSUME Init PROVE HintsAreFirstParts
    OBVIOUS
  <2>1. wal = << >> /\ \A c \in Conn : hint[c] = << >> /\ pc[c] = "closed"
    BY DEF Init, NoFrames, NoHint
  <2>2. Len(<< >>) <= Len(<< >>) /\ 1 .. Len(<< >>) = {}
    BY SMTT(30)
  <2> QED
    BY <2>1, <2>2 DEF HintsAreFirstParts
<1>2. Base /\ HintsAreFirstParts /\ [Next]_vars => (Base /\ HintsAreFirstParts)'
  BY BaseStep, HintsStep
<1> QED
  BY <1>1, <1>2, BaseInit, PTL DEF Spec

\* WalWriter::open_existing may trust a resume hint by the file's size alone: with
\* synchronous FULL a hint of that size is exactly the log, whatever other
\* connections appended, failed to append or lost since it was taken.
THEOREM HintsNeverFork == ASSUME Sync = "full" PROVE Spec => []HintAgrees
<1>1. Base /\ HintsAreFirstParts => HintAgrees
  <2> SUFFICES ASSUME Base, HintsAreFirstParts, NEW c \in Conn, Len(hint[c]) = FramesInFile
               PROVE  hint[c] = wal
    BY DEF HintAgrees
  <2>1. TypeOK /\ hint[c] \in Seq(Frame) /\ FirstPart(hint[c])
    BY DEF Base, TypeOK, HintsAreFirstParts, FirstPart
  <2> QED
    BY <2>1, WholeHint
<1> QED
  BY <1>1, HintsAlways, PTL

=============================================================================
