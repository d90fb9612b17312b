------------------------ MODULE RollbackPagerProofs -------------------------
(***************************************************************************)
(* Proofs about RollbackPager for any number of connections, pages and     *)
(* transactions, with PRAGMA synchronous = FULL (the default), no failing  *)
(* file operation, durable unlinks, and no writer dying between another    *)
(* open's journal probe and its SHARED lock (Dependable): a flush is       *)
(* atomic and durable, and readers and caches see committed data only.     *)
(***************************************************************************)
EXTENDS RollbackPagerSteps

USE ZenonT(30)
USE DEF LockLevel, Unlocked, Shared, Reserved, Pending, Exclusive

-----------------------------------------------------------------------------
(* The commit, and a power failure at any point.                           *)

\* Deleting the journal commits: the invariant holds again without a journal,
\* and the recovered database takes exactly one step of AtomicStore.
LEMMA DeleteJournalCommits ==
  ASSUME Dependable, IInv, NEW c \in Conn, DeleteJournal(c)
  PROVE  (HotInv /\ DiskInv /\ ConnInv)' /\ Store!AtomicNext
<1>0. pc[c] = "unlink" /\ pc[c] \in Writing /\ pc[c] \in Flushing
  BY DEF DeleteJournal, Goto, Writing, Flushing
<1>1. /\ TypeOK /\ DiskInv /\ journal.live /\ level[c] = Exclusive /\ FlushAt(c) /\ CacheAt(c)
      /\ journal.count \in Page
      /\ \A p \in Page : Restored(p) = IF p \in Recorded(journal) THEN journal.pre[p] ELSE file[p]
  BY <1>0, WriterKnows
<1>2. journal' = NoJournal /\ ~journal'.live /\ ghost' = {}
  BY DEF DeleteJournal, delete_journal, Dependable, NoJournal
<1>3. UNCHANGED <<file, maybe, hot, cache, left, ntx>>  BY DEF DeleteJournal
<1>4. pc'[c] = "ready" /\ dirty'[c] = {} /\ \A d \in Conn : d # c => Same(d)
  BY <1>1, <1>3 DEF DeleteJournal, Goto, TypeOK, Same
<1> DEFINE n == Target(c)
           new == [tx |-> ntx, count |-> n]
<1>5. n \in journal.count .. NPages /\ n \in Page /\ dirty[c] \subseteq Page /\ dirty[c] # {}
  <2>1. n \in journal.count .. NPages /\ dirty[c] \subseteq Page /\ dirty[c] # {}
    BY <1>0, <1>1 DEF FlushAt, FlushBegun, TypeOK
  <2> QED  BY <1>1, <2>1, PagerConstants, SMTT(30) DEF Page
<1>6. /\ \A p \in dirty[c] : file[p] = new /\ p <= n
      /\ \A p \in Page : (p \notin dirty[c] /\ p <= journal.count) => file[p] = Restored(p)
      /\ \A p \in Page : (p \notin dirty[c] /\ p > journal.count) => file[p] = NoPage
      /\ \A p \in Page : (p > journal.count /\ p <= n) => p \in dirty[c]
      /\ \A p \in Page : p <= journal.count => Restored(p).tx < ntx
      /\ \A p \in Page : Durable(p)
  BY <1>0, <1>1 DEF FlushAt, FlushBegun, FlushPages
<1>a. \A q \in Page : /\ q > journal.count <=> ~(q <= journal.count)
                      /\ q > n <=> ~(q <= n)
                      /\ q <= journal.count => q <= n
  BY <1>1, <1>5, PagerConstants, SMTT(30) DEF Page
<1>7. Count(file) = n /\ Count(file)' = n
  <2>1. CASE 1 \in dirty[c]  BY <1>3, <1>6, <2>1, SMTT(30) DEF Count
  <2>2. CASE 1 \notin dirty[c]
    <3>1. 1 <= journal.count  BY <1>1, PagerConstants, SMTT(30) DEF Page
    <3>2. file[1] = Restored(1) /\ n = journal.count
      BY <1>6, <2>2, <3>1, Contents DEF Target
    <3> QED  BY <1>1, <1>3, <3>2 DEF Count, DiskInv
  <2> QED  BY <2>1, <2>2
<1>8. \A q \in Page : Durable(q)' /\ (file'[q] = NoPage <=> q > n)
  <2>1. new # NoPage
    <3>1. n # 0  BY <1>5, PagerConstants, SMTT(30) DEF Page
    <3>2. new.count # NoPage.count  BY <3>1 DEF NoPage
    <3> QED  BY <3>2
  <2>2. ASSUME NEW q \in Page PROVE file[q] = NoPage <=> q > n
    <3>1. CASE q \in dirty[c]  BY <1>6, <1>a, <2>1, <3>1
    <3>2. CASE q \notin dirty[c] /\ q <= journal.count
      BY <1>1, <1>6, <1>a, <3>2, SMTT(30) DEF DiskInv
    <3>3. CASE q \notin dirty[c] /\ q > journal.count
      BY <1>6, <1>a, <3>3
    <3> QED  BY <1>a, <3>1, <3>2, <3>3
  <2> QED  BY <1>3, <1>6, <2>2 DEF Durable
<1>9. DiskInv'
  <2>1. \A q \in Page : file'[q] \in maybe'[q] /\ \A x \in maybe'[q] : x.tx <= ntx'
    BY <1>1, <1>3 DEF DiskInv
  <2> QED  BY <1>2, <1>5, <1>7, <1>8, <2>1 DEF DiskInv
<1>10. (FlushAt(c) /\ RecoverAt(c) /\ DirtyAt(c) /\ CacheAt(c))'
  <2>1. FlushAt(c)' /\ RecoverAt(c)'  BY <1>4 DEF FlushAt, RecoverAt, Flushing, Recovering
  <2>2. PageCount(c)' = Count(file)'  BY <1>4 DEF PageCount
  <2>3. n \in n .. NPages /\ \A p \in Page : ~(p > n /\ p <= n)
    BY <1>5, PagerConstants, SMTT(30) DEF Page
  <2>4. DirtyAt(c)'  BY <1>4, <1>7, <2>2, <2>3 DEF DirtyAt
  <2>5. CacheAt(c)'  BY <1>1, <1>3, <1>4 DEF CacheAt, Settled
  <2> QED  BY <2>1, <2>4, <2>5
<1>11. HotAt(c)'  BY <1>2, <1>4 DEF HotAt, Writing, Flushing, Recovering
<1>12. Store!AtomicNext
  <2>1. RestoredCount = journal.count /\ RestoredCount' = n
    BY <1>1, <1>2, <1>7 DEF RestoredCount
  <2>2. Committed = [p \in 1 .. journal.count |-> Restored(p).tx]  BY <2>1 DEF Committed
  <2>3. Committed' = [p \in 1 .. n |-> file[p].tx]
    <3>1. \A p \in Page : Restored(p)' = file[p]  BY <1>2, <1>3 DEF Restored
    <3>2. 1 .. n \subseteq Page  BY <1>5, PagerConstants, SMTT(30) DEF Page
    <3> QED  BY <2>1, <3>1, <3>2 DEF Committed
  <2>4. 1 .. n \subseteq Page /\ 1 .. journal.count \subseteq 1 .. n /\ 1 .. journal.count \subseteq Page
    BY <1>1, <1>5, PagerConstants, SMTT(30) DEF Page
  <2>5. \A p \in Page : p <= n <=> p \in 1 .. n  BY <1>5, PagerConstants, SMTT(30) DEF Page
  <2>6. \A p \in Page : p <= journal.count <=> p \in 1 .. journal.count
    BY <1>1, PagerConstants, SMTT(30) DEF Page
  <2>7. Committed' = [p \in 1 .. n |-> IF p \in dirty[c] THEN ntx ELSE Committed[p]]
    <3>1. ASSUME NEW p \in 1 .. n, p \in dirty[c] PROVE file[p].tx = ntx
      BY <1>6, <3>1, SMTT(30)
    <3>2. ASSUME NEW p \in 1 .. n, p \notin dirty[c] PROVE file[p].tx = Committed[p]
      <4>1. p \in 1 .. journal.count  BY <1>6, <1>a, <2>4, <2>5, <2>6, <3>2
      <4> QED  BY <1>6, <2>2, <2>4, <2>6, <3>2, <4>1
    <3> QED  BY <2>3, <3>1, <3>2
  <2>8. \A p \in DOMAIN Committed : Committed[p] < ntx
    BY <1>6, <2>2, <2>4, <2>6
  <2>9. \A p \in 1 .. n : p \notin DOMAIN Committed => {1, p} \subseteq dirty[c]
    <3> SUFFICES ASSUME NEW p \in 1 .. n, p \notin 1 .. journal.count PROVE 1 \in dirty[c] /\ p \in dirty[c]
      BY <2>2
    <3>1. p \in Page /\ p > journal.count /\ p <= n  BY <1>a, <2>4, <2>5, <2>6
    <3>2. n # journal.count  BY <1>1, <3>1, <1>a
    <3> QED  BY <1>6, <3>1, <3>2 DEF Target
  <2>10. ntx \in 1 .. MaxTx
    <3>1. 1 \in Page /\ 1 <= journal.count  BY <1>1, PagerConstants, SMTT(30) DEF Page
    <3>2. Restored(1).tx \in Nat
      <4>1. file[1] \in Content  BY <1>1, <3>1 DEF TypeOK
      <4>2. journal.pre[1] \in Content  BY <1>1, <3>1 DEF TypeOK, Journal
      <4>3. Restored(1) \in Content  BY <1>1, <3>1, <4>1, <4>2
      <4> QED  BY <4>3, PagerConstants, SMTT(30) DEF Content
    <3>3. ntx # 0  BY <1>6, <3>1, <3>2, SMTT(30)
    <3> QED  BY <1>1, <3>3, PagerConstants, SMTT(30) DEF TypeOK
  <2>11. dirty[c] \in SUBSET (1 .. n)  BY <1>5, <1>6, <2>5
  <2>12. Store!Commit(ntx, dirty[c], n)
    BY <1>5, <2>2, <2>4, <2>7, <2>8, <2>9, <2>11 DEF Store!Commit, Store!Apply
  <2>13. n \in 1 .. NPages  BY <1>5 DEF Page
  <2> QED  BY <2>10, <2>11, <2>12, <2>13 DEF Store!AtomicNext
<1> QED  BY <1>1, <1>2, <1>4, <1>9, <1>10, <1>11, <1>12, WriterStep

\* A power loss takes nothing that the journal does not give back.
LEMMA PowerLossKeeps ==
  ASSUME Dependable, IInv, PowerLoss
  PROVE  (HotInv /\ DiskInv /\ ConnInv)' /\ Committed' = Committed
<1>0. TypeOK /\ DiskInv /\ journal.live \in BOOLEAN /\ journal.synced \in BOOLEAN
  BY DEF IInv, TypeOK, Journal
<1>1. /\ \A p \in Page : file'[p] \in maybe[p] /\ maybe'[p] = {file'[p]}
      /\ journal' \in IF journal.live THEN Survivors(journal) ELSE {NoJournal}
      /\ ghost' = {} /\ ntx' = ntx
  BY <1>0 DEF PowerLoss, DiskInv
<1>2. \A c \in Conn : pc'[c] = "closed" /\ dirty'[c] = {} /\ cache'[c] = NoPages
  BY DEF PowerLoss
<1>3. HotInv' /\ ConnInv'
  BY <1>2, SMTT(30) DEF HotInv, HotAt, ConnInv, FlushAt, RecoverAt, DirtyAt, CacheAt, Writing, Flushing,
              Recovering, Settled, NoPages
<1>4. \A p \in Page : /\ Durable(p)' /\ file'[p] \in maybe'[p]
                      /\ \A x \in maybe'[p] : x.tx <= ntx'
                      /\ Durable(p) => file'[p] = file[p]
  BY <1>0, <1>1 DEF DiskInv, Durable
<1>5. CASE ~journal.live
  <2>1. journal = NoJournal /\ journal' = journal /\ Count(file) \in Page
    BY <1>0, <1>1, <1>5 DEF DiskInv
  <2>2. \A p \in Page : file'[p] = file[p] /\ (file[p] = NoPage <=> p > Count(file))
    BY <1>0, <1>4, <1>5 DEF DiskInv
  <2>3. Count(file)' = Count(file)  BY <2>2, Contents DEF Count
  <2>4. DiskInv'  BY <1>1, <1>4, <1>5, <2>1, <2>2, <2>3, SMTT(30) DEF DiskInv
  <2>5. \A p \in Page : Restored(p)' = Restored(p)  BY <2>1, <2>2 DEF Restored
  <2>6. RestoredCount' = RestoredCount /\ RestoredCount \in Page
    BY <1>5, <2>1, <2>3 DEF RestoredCount
  <2> QED  BY <1>3, <2>4, <2>5, <2>6, SameCommitted
<1>6. CASE journal.live /\ journal.synced
  <2>1. journal' = journal  BY <1>1, <1>6 DEF Survivors
  <2>2. \A p \in Page : p <= journal.count => Restored(p)' = Restored(p)
    BY <1>0, <1>4, <1>6, <2>1 DEF Restored, DiskInv
  <2>3. 1 \in Page /\ 1 <= journal.count /\ journal.count \in Page
    BY <1>0, <1>6, PagerConstants, SMTT(30) DEF DiskInv, Page
  <2>4. \A p \in Page : /\ journal.pre[p].tx <= ntx
                        /\ p \in Recorded(journal) => p <= journal.count
                        /\ p <= journal.count => Restored(p)' # NoPage
    BY <1>0, <1>6, <2>2 DEF DiskInv
  <2>5. Restored(1)'.count = journal.count  BY <1>0, <1>6, <2>2, <2>3 DEF DiskInv
  <2>6. DiskInv'  BY <1>1, <1>4, <1>6, <2>1, <2>3, <2>4, <2>5 DEF DiskInv
  <2>7. RestoredCount' = RestoredCount /\ RestoredCount \in Page
    BY <1>6, <2>1, <2>3 DEF RestoredCount
  <2> QED  BY <1>3, <1>6, <2>2, <2>6, <2>7, SameCommitted DEF RestoredCount
<1>7. CASE journal.live /\ ~journal.synced
  <2>1. \A p \in Page : /\ file'[p] = file[p]
                        /\ p \in Recorded(journal) => journal.pre[p] = file[p]
                        /\ p > journal.count => file[p] = NoPage
                        /\ Restored(p) = file[p]
    BY <1>0, <1>4, <1>7 DEF DiskInv, Restored
  <2>2. 1 \in Page /\ 1 <= journal.count /\ journal.count \in Page
    BY <1>0, <1>7, PagerConstants, SMTT(30) DEF DiskInv, Page
  <2>3. Count(file) = journal.count /\ Count(file)' = journal.count
    BY <1>0, <1>7, <2>1, <2>2 DEF DiskInv, Count
  <2>4. \A p \in Page : p <= journal.count => file[p] # NoPage
    BY <1>0, <1>7, <2>1 DEF DiskInv
  <2>a. \A p \in Page : p > journal.count <=> ~(p <= journal.count)
    BY <2>2, PagerConstants, SMTT(30) DEF Page
  <2>5. CASE journal' = NoJournal
    <3>1. ~journal'.live  BY <2>5 DEF NoJournal
    <3>2. DiskInv'  BY <1>1, <1>4, <2>1, <2>2, <2>3, <2>4, <2>5, <2>a, <3>1, SMTT(30) DEF DiskInv
    <3>3. \A p \in Page : Restored(p)' = Restored(p)  BY <2>1, <3>1 DEF Restored
    <3>4. RestoredCount' = RestoredCount /\ RestoredCount \in Page
      BY <1>7, <2>2, <2>3, <3>1 DEF RestoredCount
    <3> QED  BY <1>3, <3>2, <3>3, <3>4, SameCommitted
  <2>6. CASE journal' # NoJournal
    <3>1. PICK k \in 0 .. NPages :
            journal' = [journal EXCEPT !.pre = [p \in Page |-> IF p <= k THEN journal.pre[p] ELSE NoPage]]
      BY <1>1, <1>7, <2>6 DEF Survivors
    <3>2. /\ journal'.live /\ ~journal'.synced /\ journal'.count = journal.count
          /\ \A p \in Page : journal'.pre[p] = journal.pre[p] \/ journal'.pre[p] = NoPage
      BY <1>0, <1>7, <3>1 DEF TypeOK, Journal
    <3>3. \A p \in Page : p \in Recorded(journal') => p \in Recorded(journal) /\ journal'.pre[p] = file[p]
      BY <2>1, <3>2 DEF Recorded
    <3>4. \A p \in Page : Restored(p)' = file[p]  BY <2>1, <3>2, <3>3 DEF Restored
    <3>5. \A p \in Page : journal'.pre[p].tx <= ntx
      <4>1. NoPage.tx <= ntx  BY <1>0, SMTT(30) DEF NoPage, TypeOK
      <4> QED  BY <1>0, <1>7, <3>2, <4>1 DEF DiskInv
    <3>6. \A p \in Page : p \in Recorded(journal') => p <= journal.count
      BY <1>0, <1>7, <3>3 DEF DiskInv
    <3>7. Restored(1)'.count = journal.count  BY <2>2, <2>3, <3>4 DEF Count
    <3>8. DiskInv'
      BY <1>1, <1>4, <2>1, <2>2, <2>4, <3>2, <3>3, <3>4, <3>5, <3>6, <3>7, SMTT(30) DEF DiskInv
    <3>9. RestoredCount' = RestoredCount /\ RestoredCount \in Page
      BY <1>7, <2>2, <3>2 DEF RestoredCount
    <3> QED  BY <1>3, <2>1, <3>4, <3>8, <3>9, SameCommitted
  <2> QED  BY <2>5, <2>6
<1> QED  BY <1>0, <1>5, <1>6, <1>7

-----------------------------------------------------------------------------
(* The theorems.                                                           *)

LEMMA InitHolds == Init => IInv /\ Store!AtomicInit
<1> SUFFICES ASSUME Init PROVE IInv /\ Store!AtomicInit  OBVIOUS
<1>0. InitPages \in Page /\ InitPages \in 0 .. NPages /\ 0 \in 0 .. MaxTx /\ 0 \in 0 .. NPages
  BY PagerConstants, SMTT(30) DEF Page
<1> DEFINE first == [tx |-> 0, count |-> InitPages]
<1>1. first \in Content /\ first # NoPage
  <2>1. first.count # NoPage.count  BY <1>0, PagerConstants, SMTT(30) DEF NoPage, Page
  <2> QED  BY <1>0, <2>1 DEF Content
<1>2. TypeOK
  <2>1. file \in [Page -> Content]  BY <1>1, Contents DEF Init
  <2>2. maybe \in [Page -> SUBSET Content]  BY <2>1 DEF Init
  <2> QED  BY <1>0, <2>1, <2>2, Contents, SMTT(30) DEF Init, TypeOK, LadderTypeOK, LadderInit
<1>3. LadderInv
  BY SMTT(30) DEF Init, LadderInit, LadderInv, LadderAt, MutualExclusion, ExclusiveIsAlone, OneWriter,
         Settled, Writing, Flushing, Recovering
<1>4. HotInv /\ ConnInv
  BY DEF Init, HotInv, HotAt, ConnInv, FlushAt, RecoverAt, DirtyAt, CacheAt, Writing, Flushing,
         Recovering, Settled, NoPages
<1>5. ~journal.live /\ Count(file) = InitPages /\ \A p \in Page : Durable(p)
  BY <1>0, Contents, PagerConstants, SMTT(30) DEF Init, NoJournal, Count, Durable, Page
<1>6. \A q \in Page : q > InitPages <=> ~(q <= InitPages)  BY <1>0, PagerConstants, SMTT(30) DEF Page
<1>7. \A q \in Page : (file[q] = NoPage <=> q > InitPages) /\ file[q].tx = 0
  BY <1>1, <1>6 DEF Init, NoPage
<1>8. DiskInv
  <2>1. journal = NoJournal /\ ghost = {} /\ ntx = 0  BY DEF Init
  <2>2. \A p \in Page : maybe[p] = {file[p]}  BY <1>5 DEF Durable
  <2>3. \A p \in Page : file[p] \in maybe[p] /\ \A x \in maybe[p] : x.tx <= ntx
    <3>1. \A p \in Page : file[p].tx <= ntx  BY <1>7, <2>1, SMTT(30)
    <3> QED  BY <2>2, <3>1
  <2> QED  BY <1>0, <1>5, <1>7, <2>1, <2>3 DEF DiskInv
<1>9. Store!AtomicInit
  <2>1. RestoredCount = InitPages /\ \A p \in Page : Restored(p).tx = 0
    BY <1>5, <1>7 DEF RestoredCount, Restored
  <2>2. 1 .. InitPages \subseteq Page  BY <1>0, PagerConstants, SMTT(30) DEF Page
  <2> QED  BY <2>1, <2>2 DEF Committed, Store!AtomicInit
<1> QED  BY <1>2, <1>3, <1>4, <1>8, <1>9 DEF IInv

\* What recovery restores depends on the files alone.
LEMMA SameFiles == ASSUME UNCHANGED disk PROVE Committed' = Committed
BY DEF disk, Committed, RestoredCount, Restored

\* Every step keeps the invariant, and is a commit of AtomicStore or leaves the
\* recovered database alone.
LEMMA StepHolds ==
  ASSUME Dependable, IInv, [Next]_vars
  PROVE  IInv' /\ (Store!AtomicNext \/ Committed' = Committed)
<1>0. TypeOK /\ LadderInv  BY DEF IInv
<1>1. CASE UNCHANGED vars
  <2>1. TypeOK'  BY <1>0, TypeStep
  <2>2. LadderInv'
    BY <1>0, <1>1 DEF vars, conn, LadderInv, LadderAt, MutualExclusion, ExclusiveIsAlone, OneWriter
  <2>3. HotInv'  BY <1>1 DEF IInv, HotInv, HotAt, vars, conn, disk
  <2>4. DiskInv'  BY <1>1 DEF IInv, DiskInv, vars, disk, Durable, Restored, Recorded
  <2>5. ConnInv'
    <3>1. \A d \in Conn : Same(d)  BY <1>1 DEF vars, conn, Same
    <3>2. UNCHANGED <<disk, ntx>>  BY <1>1 DEF vars
    <3> QED  BY <1>0, <3>1, <3>2, SameKeeps DEF IInv, ConnInv
  <2>6. Committed' = Committed  BY <1>1, SameFiles DEF vars
  <2> QED  BY <2>1, <2>2, <2>3, <2>4, <2>5, <2>6 DEF IInv
<1>2. CASE Next
  <2>1. TypeOK' /\ LadderInv'  BY <1>0, <1>2, TypeStep, LadderStep
  <2> SUFFICES (HotInv /\ DiskInv /\ ConnInv)' /\ (Store!AtomicNext \/ Committed' = Committed)
    BY <2>1 DEF IInv
  <2>2. ASSUME NEW c \in Conn, Advance(c)
        PROVE  (HotInv /\ DiskInv /\ ConnInv)' /\ (Store!AtomicNext \/ Committed' = Committed)
    <3>1. CASE \/ lock_shared(c) \/ lock_shared_refused(c) \/ check_reserved(c) \/ ReadJournal(c)
               \/ Climb(c) \/ ClimbRefused(c) \/ begin_exclusive_done(c)
      <4>1. UNCHANGED disk
        BY <3>1 DEF lock_shared, lock_shared_refused, check_reserved, ReadJournal, Climb, ClimbRefused,
                    begin_exclusive_done, Dropped
      <4> QED  BY <3>1, <4>1, OpenQuiet, SameFiles
    <3>2. CASE recover(c)  BY <3>2, RecoverKeeps
    <3>3. CASE Truncate(c)  BY <3>3, TruncateKeeps
    <3>4. CASE SyncRecovered(c)  BY <3>4, SyncRecoveredKeeps
    <3>5. CASE DeleteRecovered(c)  BY <3>5, DeleteRecoveredKeeps
    <3>6. CASE JournalCreate(c)  BY <3>6, JournalCreateKeeps
    <3>7. CASE write_record(c)  BY <3>7, WriteRecordKeeps
    <3>8. CASE JournalSync(c)  BY <3>8, JournalSyncKeeps
    <3>9. CASE write_dirty(c)  BY <3>9, WriteDirtyKeeps
    <3>10. CASE MainSync(c)  BY <3>10, MainSyncKeeps
    <3>11. CASE DeleteJournal(c)  BY <3>11, DeleteJournalCommits
    <3> QED  BY <2>2, <3>1, <3>2, <3>3, <3>4, <3>5, <3>6, <3>7, <3>8, <3>9, <3>10, <3>11 DEF Advance
  <2>3. ASSUME NEW c \in Conn, Request(c)
        PROVE  (HotInv /\ DiskInv /\ ConnInv)' /\ Committed' = Committed
    <3>1. UNCHANGED disk
      BY <2>3 DEF Request, ProbeJournal, Close, read_page, get_page_mut, allocate_page,
                  begin_immediate, begin_exclusive, flush_clean, flush, rollback, Dropped
    <3> QED  BY <2>3, <3>1, RequestQuiet, SameFiles
  <2>4. ASSUME NEW c \in Conn, FlushFails(c) PROVE FALSE
    BY <2>4 DEF FlushFails, Dependable
  <2>5. ASSUME NEW c \in Conn, Crash(c)
        PROVE  (HotInv /\ DiskInv /\ ConnInv)' /\ Committed' = Committed
    <3>1. Dropped(c) /\ \A d \in Conn : d # c => pc[d] # "probed"
      BY <2>5 DEF Crash, Dependable, Others
    <3>2. UNCHANGED disk  BY <3>1 DEF Dropped
    <3> QED  BY <3>1, <3>2, DroppedQuiet, SameFiles
  <2>6. CASE PowerLoss  BY <2>6, PowerLossKeeps
  <2> QED  BY <1>2, <2>2, <2>3, <2>4, <2>5, <2>6 DEF Next
<1> QED  BY <1>1, <1>2

\* TypeOK holds in every reachable state, however often processes die, power
\* fails and file operations fail.
THEOREM PagerTypeCorrect == Spec => []TypeOK
<1>1. Init => TypeOK  BY InitHolds DEF IInv
<1>2. TypeOK /\ [Next]_vars => TypeOK'  BY TypeStep
<1> QED  BY <1>1, <1>2, PTL DEF Spec

LEMMA InvariantHolds == ASSUME Dependable PROVE Spec => []IInv
<1>1. Init => IInv  BY InitHolds
<1>2. IInv /\ [Next]_vars => IInv'  BY StepHolds
<1> QED  BY <1>1, <1>2, PTL DEF Spec

\* Pager::flush and hot-journal recovery implement AtomicStore: whatever
\* crashes or power losses happen between their file operations, the recovered
\* database changes only by whole transactions and none is ever lost again.
THEOREM FlushIsAtomicAndDurable == ASSUME Dependable PROVE Spec => AtomicDurable
<1>1. Init => Store!AtomicInit  BY InitHolds
<1>2. IInv /\ [Next]_vars => [Store!AtomicNext]_Committed  BY StepHolds
<1> QED  BY <1>1, <1>2, InvariantHolds, PTL DEF Spec, AtomicDurable, Store!AtomicSpec

\* The journal is never live under a connection that reads (ReadersSeeCommitted):
\* "a hot journal is never ignored".
THEOREM HotJournalIsNeverIgnored == ASSUME Dependable PROVE Spec => []ReadersSeeCommitted
<1>1. IInv => ReadersSeeCommitted
  <2> SUFFICES ASSUME IInv, NEW c \in Conn, pc[c] = "ready" PROVE OnDisk = Committed
    BY DEF ReadersSeeCommitted
  <2>1. ~journal.live  BY DEF IInv, HotInv, HotAt, Settled
  <2> QED  BY <2>1 DEF OnDisk, Committed, RestoredCount, Restored
<1> QED  BY <1>1, InvariantHolds, PTL

\* PageCache never serves a stale page in journal mode (CacheCoherent).
THEOREM CacheIsCoherent == ASSUME Dependable PROVE Spec => []CacheCoherent
<1>1. IInv => CacheCoherent  BY DEF IInv, ConnInv, CacheAt, CacheCoherent
<1> QED  BY <1>1, InvariantHolds, PTL

\* Recovery always finds every page that the database counts (NoMissingPage).
THEOREM NoPageIsMissing == ASSUME Dependable PROVE Spec => []NoMissingPage
<1>1. IInv => NoMissingPage
  <2> SUFFICES ASSUME IInv, NEW p \in DOMAIN Committed PROVE Restored(p) # NoPage
    BY DEF NoMissingPage
  <2>0. DiskInv /\ TypeOK  BY DEF IInv
  <2>1. p \in 1 .. RestoredCount /\ RestoredCount \in Page
    BY <2>0 DEF Committed, RestoredCount, DiskInv
  <2>2. p \in Page /\ p <= RestoredCount /\ ~(p > RestoredCount)  BY <2>1, PagerConstants, SMTT(30) DEF Page
  <2>3. CASE journal.live  BY <2>0, <2>2, <2>3 DEF DiskInv, RestoredCount
  <2>4. CASE ~journal.live  BY <2>0, <2>2, <2>4 DEF DiskInv, RestoredCount, Restored
  <2> QED  BY <2>3, <2>4
<1> QED  BY <1>1, InvariantHolds, PTL
=============================================================================
