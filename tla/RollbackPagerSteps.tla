------------------------- MODULE RollbackPagerSteps -------------------------
(***************************************************************************)
(* The inductive invariant of RollbackPager.  Every step keeps the types,  *)
(* and where a connection is determines what it holds of the lock ladder;  *)
(* the steps that do not commit (requests, hot-journal recovery, and flush *)
(* up to the deletion of the journal) keep the rest of the invariant and   *)
(* what recovery would restore.                                            *)
(***************************************************************************)
EXTENDS RollbackPager, TLAPS

USE ZenonT(30)

Dependable == Sync = "full" /\ DurableUnlink /\ ~IOErrors /\ ~CrashInOpen

-----------------------------------------------------------------------------
(* The inductive invariant.                                                *)

Flushing   == {"journal", "pages", "unlink"}
Recovering == {"replay", "recsync", "recdone"}
Writing    == Flushing \cup Recovering
Settled    == {"ready", "begin", "flush"}

\* Where a connection is tells what it holds of the lock ladder.
LadderAt(c) ==
  /\ pc[c] \in {"closed", "probed"} => level[c] = Unlocked
  /\ pc[c] \in {"check", "recover"} \cup Settled => level[c] >= Shared
  /\ pc[c] \in Writing => level[c] = Exclusive

LadderInv == MutualExclusion /\ \A c \in Conn : LadderAt(c)

\* Who may meet a live journal: its writer, whoever rolls it back, and nobody
\* that already believes the main file.
HotAt(c) ==
  /\ pc[c] \in Writing => journal.live
  /\ pc[c] \in Settled => ~journal.live
  /\ (pc[c] = "probed" /\ ~hot[c] /\ journal.live) => \E d \in Conn : pc[d] \in Writing

HotInv == \A c \in Conn : HotAt(c)

Durable(p) == maybe[p] = {file[p]}

\* The main file and a live journal between them hold the database before the
\* transaction, and a power loss can only change what the journal restores.
DiskInv ==
  /\ ghost = {}
  /\ \A p \in Page : file[p] \in maybe[p] /\ \A x \in maybe[p] : x.tx <= ntx
  /\ ~journal.live =>
       /\ journal = NoJournal
       /\ Count(file) \in Page
       /\ \A p \in Page : Durable(p) /\ (file[p] = NoPage <=> p > Count(file))
  /\ journal.live =>
       /\ journal.count \in Page
       /\ Restored(1).count = journal.count
       /\ \A p \in Page :
            /\ journal.pre[p].tx <= ntx
            /\ p \in Recorded(journal) => p <= journal.count
            /\ p <= journal.count => Restored(p) # NoPage
            /\ (p <= journal.count /\ p \notin Recorded(journal)) => Durable(p)
  /\ (journal.live /\ ~journal.synced) =>
       \A p \in Page :
         /\ Durable(p)
         /\ p \in Recorded(journal) => journal.pre[p] = file[p]
         /\ p > journal.count => file[p] = NoPage

\* The page count that the flush of c commits.
Target(c) == IF 1 \in dirty[c] THEN size[c] ELSE journal.count

\* While c flushes, up to the deletion of the journal.
FlushBegun(c) ==
  /\ dirty[c] # {}
  /\ left[c] \subseteq dirty[c]
  /\ Target(c) \in journal.count .. NPages
  /\ \A p \in dirty[c] : p <= Target(c)
  /\ \A p \in Page : p <= journal.count => Restored(p).tx < ntx
  /\ \A p \in Page : (p > journal.count /\ p <= Target(c)) => p \in dirty[c]

\* While c writes records: the dirty pages of the old file are left or recorded.
FlushRecords(c) ==
  /\ ~journal.synced
  /\ \A p \in dirty[c] : p <= journal.count => (p \in left[c] \/ p \in Recorded(journal))
  /\ \A p \in left[c] : p <= journal.count

\* While c writes pages: all are recorded, and those not written are untouched.
FlushPages(c) ==
  /\ journal.synced
  /\ \A p \in dirty[c] : p <= journal.count => p \in Recorded(journal)
  /\ \A p \in dirty[c] \ left[c] : file[p] = [tx |-> ntx, count |-> Target(c)]
  /\ \A p \in Page : (p \notin dirty[c] \ left[c] /\ p <= journal.count) => file[p] = Restored(p)
  /\ \A p \in Page : (p \notin dirty[c] \ left[c] /\ p > journal.count) => file[p] = NoPage

\* How far the flush of c has come.
FlushAt(c) ==
  /\ pc[c] \in Flushing => FlushBegun(c)
  /\ pc[c] = "journal" => FlushRecords(c)
  /\ pc[c] \in {"pages", "unlink"} => FlushPages(c)
  /\ pc[c] = "unlink" => left[c] = {} /\ \A p \in Page : Durable(p)

\* How far the recovery by c has come.
RecoverAt(c) ==
  /\ pc[c] = "replay" => left[c] \subseteq Recorded(journal)
  /\ pc[c] \in Recovering =>
       \A p \in Recorded(journal) : (pc[c] = "replay" /\ p \in left[c]) \/ file[p] = journal.pre[p]
  /\ pc[c] \in {"recsync", "recdone"} => \A p \in Page : p > journal.count => file[p] = NoPage
  /\ pc[c] = "recdone" => \A p \in Page : Durable(p)

\* The dirty map before the flush: pages of the file and all appended ones.
DirtyAt(c) ==
  /\ pc[c] \in Settled =>
       /\ PageCount(c) \in Count(file) .. NPages
       /\ \A p \in dirty[c] : p <= PageCount(c)
       /\ \A p \in Page : (p > Count(file) /\ p <= PageCount(c)) => p \in dirty[c]
  /\ pc[c] = "flush" => dirty[c] # {}

\* The cache shows the file, and only a connection with a lock has anything in
\* memory.
CacheAt(c) ==
  /\ \A p \in Page : cache[c][p] # NoPage => cache[c][p] = file[p] /\ p \notin dirty[c]
  /\ pc[c] \notin Settled \cup Flushing => cache[c] = NoPages /\ dirty[c] = {}

ConnInv == \A c \in Conn : FlushAt(c) /\ RecoverAt(c) /\ DirtyAt(c) /\ CacheAt(c)

IInv == TypeOK /\ LadderInv /\ HotInv /\ DiskInv /\ ConnInv

-----------------------------------------------------------------------------
(* Types.                                                                  *)

USE DEF LockLevel, Unlocked, Shared, Reserved, Pending, Exclusive

\* Contents of pages that the actions build.
LEMMA Contents ==
  /\ NoPage \in Content
  /\ NoPages \in [Page -> Content]
  /\ NoJournal \in Journal
  /\ 1 \in Page /\ Page \subseteq Nat
  /\ \A n \in 0 .. MaxTx, k \in 0 .. NPages : [tx |-> n, count |-> k] \in Content
BY PagerConstants, SMTT(30) DEF NoPage, Content, NoPages, NoJournal, Journal, Page

\* The type invariant in two halves: the files, and what connections remember.
DiskType ==
  /\ file \in [Page -> Content]
  /\ maybe \in [Page -> SUBSET Content]
  /\ journal \in Journal /\ ghost \subseteq Journal
  /\ ntx \in 0 .. MaxTx
MemType ==
  /\ level \in [Conn -> LockLevel]
  /\ pc \in [Conn -> Busy \cup {"closed", "ready"}]
  /\ hot \in [Conn -> BOOLEAN]
  /\ txLock \in [Conn -> LockLevel]
  /\ dirty \in [Conn -> SUBSET Page]
  /\ size \in [Conn -> 0 .. NPages]
  /\ cache \in [Conn -> [Page -> Content]]
  /\ left \in [Conn -> SUBSET Page]

LEMMA TypeHalves == TypeOK <=> DiskType /\ MemType
BY DEF TypeOK, LadderTypeOK, DiskType, MemType

LEMMA DroppedType ==
  ASSUME MemType, NEW c \in Conn, Dropped(c) PROVE MemType' /\ UNCHANGED <<disk, ntx>>
BY Contents, PagerConstants, SMTT(30) DEF MemType, Dropped

LEMMA RiseType ==
  ASSUME level \in [Conn -> LockLevel], NEW c \in Conn, Rise(c) PROVE level' \in [Conn -> LockLevel]
<1>1. level[c] + 1 \in LockLevel  BY SMTT(30) DEF Rise
<1> QED  BY <1>1 DEF Rise

\* Every step keeps the types of what the connections remember.
LEMMA MemTypeStep == ASSUME TypeOK, Next PROVE MemType'
<1> USE TypeHalves, Contents
<1>1. ASSUME NEW c \in Conn, Advance(c) PROVE MemType'
  <2> USE DEF MemType, Goto, disk, conn, Busy
  <2>1. CASE lock_shared(c)  BY <2>1, RiseType DEF lock_shared
  <2>2. CASE lock_shared_refused(c)  BY <2>2, DroppedType DEF lock_shared_refused
  <2>3. CASE check_reserved(c)  BY <2>3, DroppedType DEF check_reserved
  <2>4. CASE ReadJournal(c)
    <3>1. CASE Dropped(c)  BY <3>1, DroppedType
    <3>2. Recorded(journal) \in SUBSET Page  BY DEF Recorded
    <3> QED  BY <2>4, <3>1, <3>2 DEF ReadJournal
  <2>5. CASE recover(c)  BY <2>5, SMTT(30) DEF recover
  <2>6. CASE Truncate(c)  BY <2>6 DEF Truncate
  <2>7. CASE SyncRecovered(c)  BY <2>7 DEF SyncRecovered
  <2>8. CASE DeleteRecovered(c)  BY <2>8, SMTT(30) DEF DeleteRecovered
  <2>9. CASE Climb(c)  BY <2>9, RiseType DEF Climb
  <2>10. CASE ClimbRefused(c)  BY <2>10, DroppedType DEF ClimbRefused
  <2>11. CASE begin_exclusive_done(c)  BY <2>11 DEF begin_exclusive_done
  <2>12. CASE JournalCreate(c)  BY <2>12 DEF JournalCreate, ToJournal
  <2>13. CASE write_record(c)  BY <2>13, SMTT(30) DEF write_record
  <2>14. CASE JournalSync(c)  BY <2>14 DEF JournalSync
  <2>15. CASE write_dirty(c)  BY <2>15, SMTT(30) DEF write_dirty
  <2>16. CASE MainSync(c)  BY <2>16 DEF MainSync
  <2>17. CASE DeleteJournal(c)  BY <2>17, PagerConstants, SMTT(30) DEF DeleteJournal
  <2> QED  BY <1>1, <2>1, <2>2, <2>3, <2>4, <2>5, <2>6, <2>7, <2>8, <2>9, <2>10, <2>11, <2>12,
              <2>13, <2>14, <2>15, <2>16, <2>17 DEF Advance
<1>2. ASSUME NEW c \in Conn, Request(c) PROVE MemType'
  <2> USE DEF MemType, Goto, disk
  <2>0. PageCount(c) \in 0 .. NPages  BY DEF PageCount, Count, DiskType, Content
  <2>1. CASE ProbeJournal(c)  BY <2>1 DEF ProbeJournal, Journal, DiskType, Busy
  <2>2. CASE Close(c)  BY <2>2, DroppedType DEF Close
  <2>3. ASSUME NEW p \in Page, read_page(c, p) PROVE MemType'  BY <2>3 DEF read_page, DiskType
  <2>4. ASSUME NEW p \in Page, get_page_mut(c, p) PROVE MemType'
    BY <2>4, <2>0 DEF get_page_mut
  <2>5. CASE allocate_page(c)
    <3>1. PageCount(c) + 1 \in Page /\ PageCount(c) + 1 \in 0 .. NPages
      BY <2>0, <2>5, PagerConstants, SMTT(30) DEF allocate_page, Page
    <3> QED  BY <2>5, <3>1 DEF allocate_page
  <2>6. CASE begin_immediate(c)
    <3>1. CASE Fall(c, Reserved)  BY <2>6, <3>1, SMTT(30) DEF begin_immediate, Fall
    <3>2. CASE UNCHANGED level  BY <2>6, <3>2, SMTT(30) DEF begin_immediate
    <3>3. CASE Rise(c)
      <4>1. level' \in [Conn -> LockLevel]  BY <3>3, RiseType
      <4>2. txLock' \in [Conn -> LockLevel]  BY <2>6, SMTT(30) DEF begin_immediate
      <4>3. UNCHANGED <<pc, hot, dirty, size, cache, left>>  BY <2>6 DEF begin_immediate
      <4> QED  BY <4>1, <4>2, <4>3
    <3> QED  BY <2>6, <3>1, <3>2, <3>3 DEF begin_immediate
  <2>7. CASE begin_exclusive(c)  BY <2>7 DEF begin_exclusive, Busy
  <2>8. CASE flush_clean(c)  BY <2>8, SMTT(30) DEF flush_clean, release_tx_lock
  <2>9. CASE flush(c)  BY <2>9 DEF flush, Busy
  <2>10. CASE rollback(c)
    <3>1. CASE txLock[c] > Shared
      <4>0. level' = [level EXCEPT ![c] = Shared] /\ txLock' = [txLock EXCEPT ![c] = Shared]
        BY <2>10, <3>1 DEF rollback, release_tx_lock
      <4>1. level' \in [Conn -> LockLevel] /\ txLock' \in [Conn -> LockLevel]
        BY <4>0, SMTT(30)
      <4>2. dirty' \in [Conn -> SUBSET Page] /\ size' \in [Conn -> 0 .. NPages]
        BY <2>10, PagerConstants, SMTT(30) DEF rollback
      <4>3. UNCHANGED <<pc, hot, cache, left>>  BY <2>10 DEF rollback
      <4> QED  BY <4>1, <4>2, <4>3
    <3>2. CASE ~(txLock[c] > Shared)
      <4>1. UNCHANGED <<level, txLock>>  BY <2>10, <3>2 DEF rollback, release_tx_lock
      <4> QED  BY <2>10, <4>1, PagerConstants, SMTT(30) DEF rollback
    <3> QED  BY <3>1, <3>2
  <2> QED  BY <1>2, <2>1, <2>2, <2>3, <2>4, <2>5, <2>6, <2>7, <2>8, <2>9, <2>10 DEF Request
<1>3. ASSUME NEW c \in Conn, FlushFails(c) PROVE MemType'
  BY <1>3, SMTT(30) DEF FlushFails, MemType
<1>4. ASSUME NEW c \in Conn, Crash(c) PROVE MemType'
  BY <1>4, DroppedType DEF Crash
<1>5. CASE PowerLoss
  BY <1>5, PagerConstants, SMTT(30) DEF PowerLoss, MemType
<1> QED  BY <1>1, <1>2, <1>3, <1>4, <1>5 DEF Next

\* Every step keeps the types of the files: only these actions touch them.
LEMMA DiskTypeStep == ASSUME TypeOK, Next PROVE DiskType'
<1> USE TypeHalves, Contents
<1>1. ASSUME NEW c \in Conn, Advance(c), ~UNCHANGED <<disk, ntx>> PROVE DiskType'
  <2> USE DEF DiskType, write_page, sync_main, delete_journal
  <2>5. CASE recover(c)
    <3>1. PICK p \in Page : write_page(p, journal.pre[p])  BY <2>5 DEF recover, MemType
    <3>2. journal.pre[p] \in Content  BY DEF Journal
    <3> QED  BY <2>5, <3>1, <3>2 DEF recover
  <2>6. CASE Truncate(c)  BY <2>6, SMTT(30) DEF Truncate
  <2>7. CASE SyncRecovered(c)  BY <2>7 DEF SyncRecovered
  <2>8. CASE DeleteRecovered(c)  BY <2>8 DEF DeleteRecovered
  <2>12. CASE JournalCreate(c)
    <3>1. Count(file) \in 0 .. NPages  BY DEF Count, Content
    <3>2. journal' \in Journal  BY <3>1, <2>12 DEF JournalCreate, Journal
    <3>3. ntx' \in 0 .. MaxTx  BY <2>12, PagerConstants, SMTT(30) DEF JournalCreate
    <3> QED  BY <2>12, <3>2, <3>3 DEF JournalCreate
  <2>13. CASE write_record(c)
    <3>1. PICK p \in Page : journal' = [journal EXCEPT !.pre[p] = file[p]]
      BY <2>13 DEF write_record, MemType
    <3>2. journal.pre \in [Page -> Content]  BY DEF Journal
    <3>3. journal' = [journal EXCEPT !.pre = [journal.pre EXCEPT ![p] = file[p]]]  BY <3>1
    <3>4. [journal.pre EXCEPT ![p] = file[p]] \in [Page -> Content]  BY <3>2
    <3>5. journal' \in Journal  BY <3>3, <3>4 DEF Journal
    <3> QED  BY <2>13, <3>5 DEF write_record
  <2>14. CASE JournalSync(c)  BY <2>14 DEF JournalSync, Journal
  <2>15. CASE write_dirty(c)
    <3>1. PageCount(c) \in 0 .. NPages  BY DEF PageCount, Count, MemType, Content
    <3>2. PICK p \in Page : write_page(p, [tx |-> ntx, count |-> PageCount(c)])
      BY <2>15 DEF write_dirty, MemType
    <3>3. [tx |-> ntx, count |-> PageCount(c)] \in Content  BY <3>1
    <3> QED  BY <2>15, <3>2, <3>3 DEF write_dirty
  <2>16. CASE MainSync(c)  BY <2>16, SMTT(30) DEF MainSync
  <2>17. CASE DeleteJournal(c)  BY <2>17 DEF DeleteJournal
  <2>18. CASE lock_shared(c) \/ lock_shared_refused(c) \/ check_reserved(c) \/ ReadJournal(c)
              \/ Climb(c) \/ ClimbRefused(c) \/ begin_exclusive_done(c)
    BY <2>18, <1>1 DEF lock_shared, lock_shared_refused, check_reserved, ReadJournal, Climb,
                       ClimbRefused, begin_exclusive_done, Dropped
  <2> QED  BY <1>1, <2>5, <2>6, <2>7, <2>8, <2>12, <2>13, <2>14, <2>15, <2>16, <2>17, <2>18 DEF Advance
<1>2. ASSUME NEW c \in Conn, Request(c) \/ FlushFails(c) \/ Crash(c) PROVE UNCHANGED <<disk, ntx>>
  BY <1>2 DEF Request, ProbeJournal, Close, read_page, get_page_mut, allocate_page, begin_immediate,
              begin_exclusive, flush_clean, flush, rollback, FlushFails, Crash, Dropped
<1>3. CASE PowerLoss
  <2>1. journal' \in Journal
    <3>1. ASSUME NEW k \in 0 .. NPages
          PROVE  [journal EXCEPT !.pre = [p \in Page |-> IF p <= k THEN journal.pre[p] ELSE NoPage]]
                   \in Journal
      BY DEF DiskType, Journal
    <3> QED  BY <1>3, <3>1 DEF PowerLoss, Survivors, DiskType
  <2>2. file' \in [Page -> Content]
    BY <1>3 DEF PowerLoss, DiskType
  <2> QED  BY <1>3, <2>1, <2>2 DEF PowerLoss, DiskType
<1>4. CASE UNCHANGED <<disk, ntx>>
  BY <1>4 DEF DiskType, disk
<1> QED  BY <1>1, <1>2, <1>3, <1>4 DEF Next

\* Every step, of a connection or a power loss, keeps the whole state's type.
LEMMA TypeStep == ASSUME TypeOK, [Next]_vars PROVE TypeOK'
<1>1. CASE UNCHANGED vars
  BY <1>1 DEF TypeOK, LadderTypeOK, vars, disk, conn
<1> QED  BY <1>1, MemTypeStep, DiskTypeStep DEF TypeOK, LadderTypeOK, DiskType, MemType

-----------------------------------------------------------------------------
(* The ladder.                                                             *)

\* A successful step_up keeps the writer alone and the EXCLUSIVE holder unique.
LEMMA RiseExcludes ==
  ASSUME level \in [Conn -> LockLevel], MutualExclusion, NEW c \in Conn, Rise(c)
  PROVE  MutualExclusion'
<1>1. level[c] \in 0 .. 3 /\ level'[c] = level[c] + 1 /\ \A d \in Conn : d # c => level'[d] = level[d]
  BY SMTT(30) DEF Rise
<1>2. \A d \in Conn : level[d] \in 0 .. 4
  OBVIOUS
<1>3. ASSUME NEW d \in Conn, d # c, level'[c] = Exclusive PROVE level[d] = Unlocked
  BY <1>1, <1>3 DEF Rise, MayReach, Others
<1>4. ASSUME NEW d \in Conn, d # c, level'[c] >= Reserved, level[d] >= Reserved PROVE FALSE
  BY <1>1, <1>2, <1>4, SMTT(30) DEF Rise, MayReach, Others, MutualExclusion, OneWriter
<1>5. ASSUME NEW d \in Conn, d # c, level[d] = Exclusive PROVE FALSE
  BY <1>1, <1>2, <1>5, SMTT(30) DEF Rise, MayReach, Others, MutualExclusion, ExclusiveIsAlone
<1>6. ExclusiveIsAlone'
  BY <1>1, <1>3, <1>5 DEF MutualExclusion, ExclusiveIsAlone
<1>7. OneWriter'
  BY <1>1, <1>4 DEF MutualExclusion, OneWriter
<1> QED  BY <1>6, <1>7 DEF MutualExclusion

\* So does lowering a lock.
LEMMA LowerExcludes ==
  ASSUME level \in [Conn -> LockLevel], MutualExclusion, NEW c \in Conn,
         NEW l \in LockLevel, l <= level[c], level' = [level EXCEPT ![c] = l]
  PROVE  MutualExclusion'
<1>1. level'[c] = l /\ \A d \in Conn : d # c => level'[d] = level[d]
  OBVIOUS
<1>2. \A d \in Conn : level[d] \in 0 .. 4
  OBVIOUS
<1>3. ExclusiveIsAlone'
  BY <1>1, <1>2, SMTT(30) DEF MutualExclusion, ExclusiveIsAlone
<1>4. OneWriter'
  BY <1>1, <1>2, SMTT(30) DEF MutualExclusion, OneWriter
<1> QED  BY <1>3, <1>4 DEF MutualExclusion

\* A connection moves alone: what it does to its own pc and level is all that
\* the ladder invariant needs to know of a step.
LEMMA LadderMove ==
  ASSUME TypeOK, LadderInv, NEW c \in Conn, MutualExclusion', LadderAt(c)',
         \A d \in Conn : d # c => pc'[d] = pc[d] /\ level'[d] = level[d]
  PROVE  LadderInv'
BY DEF LadderInv, LadderAt

LEMMA LadderDropped ==
  ASSUME TypeOK, LadderInv, NEW c \in Conn, Dropped(c) PROVE LadderInv'
<1>1. level[c] \in LockLevel  BY DEF TypeOK, LadderTypeOK
<1>2. MutualExclusion'
  <2>1. Unlocked \in LockLevel /\ Unlocked <= level[c]  BY <1>1, SMTT(30)
  <2>2. level \in [Conn -> LockLevel] /\ MutualExclusion  BY DEF TypeOK, LadderTypeOK, LadderInv
  <2>3. level' = [level EXCEPT ![c] = Unlocked]  BY DEF Dropped
  <2> HIDE DEF LockLevel, Unlocked
  <2> QED  BY <2>1, <2>2, <2>3, LowerExcludes
<1>3. LadderAt(c)'  BY DEF LadderAt, Dropped, TypeOK, LadderTypeOK, Settled, Writing, Flushing, Recovering
<1> QED  BY <1>2, <1>3, LadderMove DEF Dropped, TypeOK, LadderTypeOK

\* What an open connection knows when it goes back to SHARED.
LEMMA LadderShared ==
  ASSUME TypeOK, LadderInv, NEW c \in Conn, level[c] >= Shared,
         level' = [level EXCEPT ![c] = Shared], pc' = [pc EXCEPT ![c] = "ready"]
  PROVE  LadderInv'
<1>1. level[c] \in LockLevel  BY DEF TypeOK, LadderTypeOK
<1>2. MutualExclusion'
  <2>1. Shared \in LockLevel /\ Shared <= level[c]  BY <1>1, SMTT(30)
  <2>2. level \in [Conn -> LockLevel] /\ MutualExclusion  BY DEF TypeOK, LadderTypeOK, LadderInv
  <2> HIDE DEF LockLevel, Shared
  <2> QED  BY <2>1, <2>2, LowerExcludes
<1>3. LadderAt(c)'  BY SMTT(30) DEF LadderAt, TypeOK, LadderTypeOK, Settled, Writing, Flushing, Recovering
<1> QED  BY <1>2, <1>3, LadderMove DEF TypeOK, LadderTypeOK

\* A step that leaves every lock alone.
LEMMA LadderStay ==
  ASSUME TypeOK, LadderInv, UNCHANGED level, NEW c \in Conn, NEW here, pc' = [pc EXCEPT ![c] = here],
         \/ pc[c] \in Writing /\ here \in Writing
         \/ pc[c] \in {"check", "recover"} \cup Settled /\ here \in {"check", "recover"} \cup Settled
         \/ level[c] = Exclusive /\ here \in Writing
         \/ here = pc[c]
         \/ level[c] = Unlocked /\ here \in {"closed", "probed"}
  PROVE  LadderInv'
<1>1. MutualExclusion'  BY DEF LadderInv, MutualExclusion, ExclusiveIsAlone, OneWriter
<1>2. LadderAt(c)'
  BY DEF LadderInv, LadderAt, TypeOK, LadderTypeOK, Settled, Writing, Flushing, Recovering
<1> QED  BY <1>1, <1>2, LadderMove DEF TypeOK, LadderTypeOK

\* Every step keeps the ladder in step with where the connections are.
LEMMA LadderStep == ASSUME TypeOK, LadderInv, Next PROVE LadderInv'
<1> USE DEF Goto
<1>0. level \in [Conn -> LockLevel] /\ pc \in [Conn -> Busy \cup {"closed", "ready"}]
  BY DEF TypeOK, LadderTypeOK
<1>1. ASSUME NEW c \in Conn, Advance(c) PROVE LadderInv'
  <2> USE <1>0
  <2>0. LadderAt(c)  BY DEF LadderInv
  <2>a. ASSUME Rise(c), NEW here \in {"check", "recover", "begin", "flush", "ready"},
               pc' = [pc EXCEPT ![c] = here]
        PROVE  LadderInv'
    <3>1. MutualExclusion'  BY <2>a, RiseExcludes DEF LadderInv
    <3>2. LadderAt(c)'
      BY <2>a, SMTT(30) DEF LadderAt, Rise, Settled, Writing, Flushing, Recovering
    <3>3. \A d \in Conn : d # c => pc'[d] = pc[d] /\ level'[d] = level[d]  BY <2>a DEF Rise
    <3> QED  BY <3>1, <3>2, <3>3, LadderMove
  <2>1. CASE lock_shared(c)  BY <2>1, <2>a DEF lock_shared
  <2>2. CASE lock_shared_refused(c)  BY <2>2, LadderDropped DEF lock_shared_refused
  <2>3. CASE check_reserved(c)
    BY <2>3, LadderDropped, LadderStay DEF check_reserved
  <2>4. CASE ReadJournal(c)
    BY <2>4, LadderDropped, LadderStay DEF ReadJournal, Writing, Recovering
  <2>5. CASE recover(c)
    <3>1. pc' = [pc EXCEPT ![c] = pc[c]] /\ UNCHANGED level  BY <2>5 DEF recover
    <3> QED  BY <3>1, LadderStay
  <2>6. CASE Truncate(c)  BY <2>6, LadderStay DEF Truncate, Writing, Recovering
  <2>7. CASE SyncRecovered(c)  BY <2>7, LadderStay DEF SyncRecovered, Writing, Recovering
  <2>8. CASE DeleteRecovered(c)
    <3>1. level[c] >= Shared  BY <2>8, <2>0, SMTT(30) DEF DeleteRecovered, LadderAt, Writing, Recovering
    <3> QED  BY <2>8, <3>1, LadderShared DEF DeleteRecovered
  <2>9. CASE Climb(c)
    <3>1. pc' = [pc EXCEPT ![c] = pc[c]]  BY <2>9 DEF Climb, conn
    <3> QED  BY <2>9, <2>a, <3>1 DEF Climb
  <2>10. CASE ClimbRefused(c)
    BY <2>10, LadderDropped, LadderStay DEF ClimbRefused, Settled
  <2>11. CASE begin_exclusive_done(c)  BY <2>11, LadderStay DEF begin_exclusive_done, Settled
  <2>12. CASE JournalCreate(c)  BY <2>12, LadderStay DEF JournalCreate, Writing, Flushing
  <2>13. CASE write_record(c)
    <3>1. pc' = [pc EXCEPT ![c] = pc[c]] /\ UNCHANGED level  BY <2>13 DEF write_record
    <3> QED  BY <3>1, LadderStay
  <2>14. CASE JournalSync(c)  BY <2>14, LadderStay DEF JournalSync, Writing, Flushing
  <2>15. CASE write_dirty(c)
    <3>1. pc' = [pc EXCEPT ![c] = pc[c]] /\ UNCHANGED level  BY <2>15 DEF write_dirty
    <3> QED  BY <3>1, LadderStay
  <2>16. CASE MainSync(c)  BY <2>16, LadderStay DEF MainSync, Writing, Flushing
  <2>17. CASE DeleteJournal(c)
    <3>1. level[c] >= Shared  BY <2>17, <2>0, SMTT(30) DEF DeleteJournal, LadderAt, Writing, Flushing
    <3> QED  BY <2>17, <3>1, LadderShared DEF DeleteJournal
  <2> QED  BY <1>1, <2>1, <2>2, <2>3, <2>4, <2>5, <2>6, <2>7, <2>8, <2>9, <2>10, <2>11, <2>12,
              <2>13, <2>14, <2>15, <2>16, <2>17 DEF Advance
<1>2. ASSUME NEW c \in Conn, Request(c) PROVE LadderInv'
  <2> USE <1>0
  <2>0. LadderAt(c)  BY DEF LadderInv
  <2>a. ASSUME UNCHANGED <<level, pc>> PROVE LadderInv'
    BY <2>a DEF LadderInv, LadderAt, MutualExclusion, ExclusiveIsAlone, OneWriter
  <2>b. ASSUME pc[c] = "ready", release_tx_lock(c), UNCHANGED pc PROVE LadderInv'
    <3>1. level[c] >= Shared /\ pc' = [pc EXCEPT ![c] = "ready"]  BY <2>0, <2>b DEF LadderAt, Settled
    <3> QED  BY <2>a, <2>b, <3>1, LadderShared DEF release_tx_lock
  <2>1. CASE ProbeJournal(c)
    BY <2>1, <2>0, LadderStay DEF ProbeJournal, LadderAt
  <2>2. CASE Close(c)  BY <2>2, LadderDropped DEF Close
  <2>3. ASSUME NEW p \in Page, read_page(c, p) \/ get_page_mut(c, p) PROVE LadderInv'
    BY <2>3, <2>a DEF read_page, get_page_mut
  <2>5. CASE allocate_page(c)  BY <2>5, <2>a DEF allocate_page
  <2>6. CASE begin_immediate(c)
    <3>1. pc[c] = "ready" /\ level[c] >= Shared /\ UNCHANGED pc
      BY <2>6, <2>0 DEF begin_immediate, LadderAt, Settled
    <3>2. CASE UNCHANGED level  BY <3>1, <3>2, <2>a
    <3>3. ASSUME MutualExclusion', level'[c] >= Shared, \A d \in Conn : d # c => level'[d] = level[d]
          PROVE  LadderInv'
      <4>1. LadderAt(c)'  BY <3>1, <3>3 DEF LadderAt, Writing, Flushing, Recovering, Settled
      <4> QED  BY <3>1, <3>3, <4>1, LadderMove
    <3>4. CASE Rise(c)
      <4>1. MutualExclusion'  BY <3>4, RiseExcludes DEF LadderInv
      <4> QED  BY <3>1, <3>3, <3>4, <4>1, SMTT(30) DEF Rise
    <3>5. CASE Fall(c, Reserved)
      <4>1. MutualExclusion'
        <5>1. Reserved \in LockLevel /\ Reserved <= level[c]  BY <3>5, SMTT(30) DEF Fall
        <5>2. level' = [level EXCEPT ![c] = Reserved] /\ MutualExclusion  BY <3>5 DEF Fall, LadderInv
        <5> HIDE DEF LockLevel, Reserved
        <5> QED  BY <5>1, <5>2, LowerExcludes
      <4> QED  BY <3>1, <3>3, <3>5, <4>1, SMTT(30) DEF Fall
    <3> QED  BY <2>6, <3>2, <3>4, <3>5 DEF begin_immediate
  <2>7. CASE begin_exclusive(c)  BY <2>7, LadderStay DEF begin_exclusive, Settled
  <2>8. CASE flush_clean(c)  BY <2>8, <2>b DEF flush_clean
  <2>9. CASE flush(c)  BY <2>9, LadderStay DEF flush, Settled
  <2>10. CASE rollback(c)  BY <2>10, <2>b DEF rollback
  <2> QED  BY <1>2, <2>1, <2>2, <2>3, <2>5, <2>6, <2>7, <2>8, <2>9, <2>10 DEF Request
<1>3. ASSUME NEW c \in Conn, FlushFails(c) PROVE LadderInv'
  <2>1. level[c] >= Shared  BY <1>3, SMTT(30) DEF FlushFails, LadderInv, LadderAt, Writing, Flushing
  <2> QED  BY <1>3, <2>1, LadderShared DEF FlushFails
<1>4. ASSUME NEW c \in Conn, Crash(c) PROVE LadderInv'
  BY <1>4, LadderDropped DEF Crash
<1>5. CASE PowerLoss
  BY <1>5, SMTT(30) DEF PowerLoss, LadderInv, LadderAt, MutualExclusion, ExclusiveIsAlone, OneWriter,
              Settled, Writing, Flushing, Recovering
<1> QED  BY <1>1, <1>2, <1>3, <1>4, <1>5 DEF Next

-----------------------------------------------------------------------------
(* Steps that leave the files alone.                                       *)

Same(d) ==
  /\ pc'[d] = pc[d] /\ hot'[d] = hot[d] /\ dirty'[d] = dirty[d]
  /\ size'[d] = size[d] /\ cache'[d] = cache[d] /\ left'[d] = left[d]

\* With the files as they are, a connection that did not move keeps its facts.
LEMMA SameKeeps ==
  ASSUME TypeOK, NEW d \in Conn, Same(d), UNCHANGED <<disk, ntx>>,
         FlushAt(d) /\ RecoverAt(d) /\ DirtyAt(d) /\ CacheAt(d)
  PROVE  (FlushAt(d) /\ RecoverAt(d) /\ DirtyAt(d) /\ CacheAt(d))'
<1> USE DEF Same, disk
<1>1. FlushAt(d)'  BY SMTT(30) DEF FlushAt, FlushBegun, FlushRecords, FlushPages, Target, Restored, Durable
<1>2. RecoverAt(d)'  BY DEF RecoverAt, Durable
<1>3. DirtyAt(d)'  BY DEF DirtyAt, PageCount
<1>4. CacheAt(d)'  BY DEF CacheAt
<1> QED  BY <1>1, <1>2, <1>3, <1>4

\* A step of c that leaves the files alone and does not enter the part of flush
\* that writes them.
LEMMA QuietStep ==
  ASSUME IInv, NEW c \in Conn, UNCHANGED <<disk, ntx>>,
         \A d \in Conn : d # c => Same(d),
         pc'[c] \notin Flushing,
         (RecoverAt(c) /\ DirtyAt(c) /\ CacheAt(c))',
         pc[c] \in Writing => pc'[c] \in Writing \/ \A d \in Conn : d # c => pc[d] # "probed",
         pc'[c] \in Writing => journal.live,
         pc'[c] \in Settled => ~journal.live,
         pc'[c] = "probed" => hot'[c] = journal.live
  PROVE  (HotInv /\ DiskInv /\ ConnInv)'
<1> USE DEF IInv
<1>1. HotInv'
  <2> SUFFICES ASSUME NEW e \in Conn PROVE HotAt(e)'  BY DEF HotInv
  <2>1. CASE e = c  BY <2>1 DEF HotAt, disk
  <2>2. CASE e # c
    <3>1. HotAt(e) /\ Same(e)  BY <2>2 DEF HotInv
    <3>2. ASSUME pc[e] = "probed", NEW d \in Conn, pc[d] \in Writing PROVE pc'[d] \in Writing
      BY <2>2, <3>2 DEF Same
    <3> QED  BY <3>1, <3>2 DEF HotAt, Same, disk
  <2> QED  BY <2>1, <2>2
<1>2. DiskInv'
  BY DEF DiskInv, disk, Durable, Restored, Recorded
<1>3. ConnInv'
  <2>1. FlushAt(c)'  BY DEF FlushAt, Flushing
  <2> QED  BY <2>1, SameKeeps DEF ConnInv
<1> QED  BY <1>1, <1>2, <1>3

\* A connection that is gone has nothing to keep.
LEMMA DroppedQuiet ==
  ASSUME IInv, NEW c \in Conn, Dropped(c),
         pc[c] \in Writing => \A d \in Conn : d # c => pc[d] # "probed"
  PROVE  (HotInv /\ DiskInv /\ ConnInv)'
<1>0. TypeOK  BY DEF IInv
<1>1. pc'[c] = "closed" /\ dirty'[c] = {} /\ cache'[c] = NoPages
  BY <1>0 DEF Dropped, TypeOK
<1>2. \A d \in Conn : d # c => Same(d)
  BY <1>0 DEF Dropped, TypeOK, Same
<1>3. (RecoverAt(c) /\ DirtyAt(c) /\ CacheAt(c))'
  BY <1>1 DEF RecoverAt, DirtyAt, CacheAt, Recovering, Settled, NoPages
<1> QED  BY <1>1, <1>2, <1>3, QuietStep DEF Dropped, Flushing, Recovering, Writing, Settled

\* Steps of an operation that only move the connection along.
LEMMA MoveQuiet ==
  ASSUME IInv, NEW c \in Conn, NEW here, pc' = [pc EXCEPT ![c] = here],
         UNCHANGED <<disk, ntx, hot, dirty, size, cache, left>>,
         \/ pc[c] \in Settled /\ here \in Settled \ {"flush"}
         \/ pc[c] = "ready" /\ here = "flush" /\ dirty[c] # {}
         \/ pc[c] \in {"check", "recover"} /\ here \in {"check", "recover"}
  PROVE  (HotInv /\ DiskInv /\ ConnInv)'
<1>0. TypeOK /\ HotAt(c) /\ DirtyAt(c) /\ CacheAt(c)  BY DEF IInv, HotInv, ConnInv
<1>1. pc'[c] = here /\ \A d \in Conn : d # c => Same(d)
  BY <1>0 DEF TypeOK, Same
<1>2. RecoverAt(c)'  BY <1>1 DEF RecoverAt, Recovering, Settled
<1>3. DirtyAt(c)'  BY <1>0, <1>1 DEF DirtyAt, Settled, PageCount, disk
<1>4. CacheAt(c)'  BY <1>0, <1>1 DEF CacheAt, Settled, Flushing, disk
<1>5. pc'[c] \in Settled => ~journal.live  BY <1>0, <1>1 DEF HotAt, Settled
<1> QED  BY <1>1, <1>2, <1>3, <1>4, <1>5, QuietStep DEF Flushing, Recovering, Writing, Settled

\* Pager::open up to the recovery's first write, and the climb to EXCLUSIVE.
LEMMA OpenQuiet ==
  ASSUME IInv, NEW c \in Conn,
         \/ ProbeJournal(c) \/ lock_shared(c) \/ lock_shared_refused(c) \/ check_reserved(c)
         \/ ReadJournal(c) \/ Climb(c) \/ ClimbRefused(c) \/ begin_exclusive_done(c)
  PROVE  (HotInv /\ DiskInv /\ ConnInv)'
<1> USE DEF Goto
<1>0. TypeOK /\ LadderInv /\ HotAt(c) /\ CacheAt(c)  BY DEF IInv, HotInv, ConnInv
<1>1. CASE ProbeJournal(c)
  <2>1. pc'[c] = "probed" /\ hot'[c] = journal.live /\ \A d \in Conn : d # c => Same(d)
    BY <1>0, <1>1 DEF ProbeJournal, TypeOK, Same
  <2>2. RecoverAt(c)' /\ DirtyAt(c)'  BY <2>1 DEF RecoverAt, DirtyAt, Recovering, Settled
  <2>3. CacheAt(c)'  BY <1>0, <1>1, <2>1 DEF ProbeJournal, CacheAt, Settled, Flushing, disk
  <2> QED  BY <1>1, <2>1, <2>2, <2>3, QuietStep DEF ProbeJournal, Flushing, Recovering, Writing, Settled
<1>2. CASE lock_shared(c)
  <2>1. \A d \in Conn : d # c => Same(d)
    BY <1>0, <1>2 DEF lock_shared, TypeOK, Same
  <2>2. pc'[c] = IF hot[c] THEN "check" ELSE "ready"
    BY <1>0, <1>2 DEF lock_shared, TypeOK
  <2>3. ~hot[c] => ~journal.live
    <3> SUFFICES ASSUME ~hot[c], journal.live PROVE FALSE  OBVIOUS
    <3>1. PICK d \in Conn : pc[d] \in Writing  BY <1>0, <1>2 DEF HotAt, lock_shared
    <3>2. level[d] = Exclusive  BY <1>0, <3>1 DEF LadderInv, LadderAt
    <3>3. level[c] = Unlocked /\ d # c
      BY <1>0, <1>2, <3>1 DEF LadderInv, LadderAt, lock_shared, Writing, Flushing, Recovering
    <3> QED  BY <1>2, <3>2, <3>3, SMTT(30) DEF lock_shared, Rise, MayReach, Others
  <2>4. cache[c] = NoPages /\ dirty[c] = {}
    BY <1>0, <1>2 DEF lock_shared, CacheAt, Settled, Flushing
  <2>5. RecoverAt(c)'  BY <2>2 DEF RecoverAt, Recovering
  <2>6. Count(file) \in 0 .. NPages  BY <1>0, Contents DEF TypeOK, Content, Count
  <2>7. DirtyAt(c)'
    <3>1. dirty'[c] = {} /\ Count(file)' = Count(file)
      BY <1>2, <2>4 DEF lock_shared, Count, disk
    <3>2. PageCount(c)' = Count(file)  BY <3>1 DEF PageCount
    <3>3. Count(file)' \in Count(file)' .. NPages  BY <2>6, <3>1, PagerConstants, SMTT(30)
    <3>4. \A p \in Page : ~(p > Count(file) /\ p <= Count(file))  BY <2>6, Contents, SMTT(30)
    <3>5. pc'[c] # "flush"  BY <2>2
    <3> QED  BY <3>1, <3>2, <3>3, <3>4, <3>5 DEF DirtyAt
  <2>8. CacheAt(c)'  BY <1>2, <2>4 DEF CacheAt, lock_shared, NoPages
  <2> QED  BY <1>2, <2>1, <2>2, <2>3, <2>5, <2>7, <2>8, QuietStep, SMTT(30)
           DEF lock_shared, Flushing, Recovering, Writing, Settled
<1>3. CASE Dropped(c) /\ pc[c] \notin Writing
  BY <1>3, DroppedQuiet
<1>4. CASE lock_shared_refused(c)
  BY <1>3, <1>4 DEF lock_shared_refused, Writing, Flushing, Recovering
<1>5. CASE check_reserved(c)
  BY <1>3, <1>5, MoveQuiet DEF check_reserved, Writing, Flushing, Recovering
<1>6. CASE ReadJournal(c)
  <2>1. CASE Dropped(c)  BY <1>3, <1>6, <2>1 DEF ReadJournal, Writing, Flushing, Recovering
  <2>2. CASE ~Dropped(c)
    <3>1. journal.live /\ pc'[c] = "replay" /\ left'[c] = Recorded(journal)
      BY <1>0, <1>6, <2>2 DEF ReadJournal, TypeOK
    <3>2. \A d \in Conn : d # c => Same(d)
      BY <1>0, <1>6, <2>2 DEF ReadJournal, TypeOK, Same
    <3>3. UNCHANGED <<disk, ntx, dirty, cache>>  BY <1>6, <2>2 DEF ReadJournal
    <3>4. RecoverAt(c)'  BY <3>1, <3>3 DEF RecoverAt, disk, Recorded
    <3>5. DirtyAt(c)'  BY <3>1 DEF DirtyAt, Settled
    <3>6. CacheAt(c)'  BY <1>0, <1>6, <3>1, <3>3 DEF CacheAt, Settled, Flushing, disk, ReadJournal
    <3>7. pc[c] \notin Writing  BY <1>6 DEF ReadJournal, Writing, Flushing, Recovering
    <3> QED  BY <3>1, <3>2, <3>3, <3>4, <3>5, <3>6, <3>7, QuietStep DEF Flushing, Recovering, Settled
  <2> QED  BY <2>1, <2>2
<1>7. CASE Climb(c)
  <2>1. pc' = [pc EXCEPT ![c] = pc[c]] /\ UNCHANGED <<disk, ntx, hot, dirty, size, cache, left>>
    BY <1>0, <1>7 DEF Climb, conn, TypeOK
  <2>2. \A d \in Conn : Same(d)  BY <1>7 DEF Climb, conn, Same
  <2>3. ConnInv'  BY <2>1, <2>2, <1>0, SameKeeps DEF IInv, ConnInv
  <2>4. HotInv'  BY <1>7 DEF IInv, HotInv, HotAt, Climb, conn, disk
  <2>5. DiskInv'  BY <2>1 DEF IInv, DiskInv, disk, Durable, Restored, Recorded
  <2> QED  BY <2>3, <2>4, <2>5
<1>8. CASE ClimbRefused(c)
  BY <1>3, <1>8, MoveQuiet DEF ClimbRefused, Settled, Writing, Flushing, Recovering
<1>9. CASE begin_exclusive_done(c)
  BY <1>9, MoveQuiet DEF begin_exclusive_done, Settled
<1> QED  BY <1>1, <1>2, <1>4, <1>5, <1>6, <1>7, <1>8, <1>9

\* What the layer above asks of an open connection, short of COMMIT.
LEMMA RequestQuiet ==
  ASSUME IInv, NEW c \in Conn, Request(c)
  PROVE  (HotInv /\ DiskInv /\ ConnInv)'
<1> USE DEF Goto
<1>0. /\ TypeOK /\ LadderInv /\ HotAt(c) /\ DirtyAt(c) /\ CacheAt(c)
      /\ Count(file) \in 0 .. NPages /\ PageCount(c) \in 0 .. NPages
  <2>1. TypeOK /\ LadderInv /\ HotAt(c) /\ DirtyAt(c) /\ CacheAt(c)  BY DEF IInv, HotInv, ConnInv
  <2> QED  BY <2>1, Contents DEF TypeOK, Content, Count, PageCount
\* A step of c in "ready" that changes only its dirty map and its cache.
<1>a. ASSUME pc[c] = "ready", UNCHANGED <<disk, ntx, pc>>, \A d \in Conn : d # c => Same(d),
             DirtyAt(c)', CacheAt(c)'
      PROVE  (HotInv /\ DiskInv /\ ConnInv)'
  <2>1. RecoverAt(c)'  BY <1>a DEF RecoverAt, Recovering
  <2>2. ~journal.live  BY <1>0, <1>a DEF HotAt, Settled
  <2>3. pc'[c] = "ready"  BY <1>a
  <2> QED  BY <1>a, <2>1, <2>2, <2>3, QuietStep DEF Flushing, Recovering, Writing
<1>b. ASSUME pc[c] = "ready", UNCHANGED <<disk, ntx, pc, hot, dirty, size, cache, left>>
      PROVE  (HotInv /\ DiskInv /\ ConnInv)'
  <2>1. pc' = [pc EXCEPT ![c] = "ready"]  BY <1>0, <1>b DEF TypeOK
  <2> QED  BY <1>b, <2>1, MoveQuiet DEF Settled
<1>1. CASE ProbeJournal(c)  BY <1>1, OpenQuiet
<1>2. CASE Close(c)  BY <1>2, DroppedQuiet DEF Close, Writing, Flushing, Recovering
<1>3. ASSUME NEW q \in Page, read_page(c, q) PROVE (HotInv /\ DiskInv /\ ConnInv)'
  <2>1. \A d \in Conn : d # c => Same(d)  BY <1>0, <1>3 DEF read_page, TypeOK, Same
  <2>2. DirtyAt(c)'  BY <1>0, <1>3 DEF read_page, DirtyAt, PageCount, disk
  <2>3. CacheAt(c)'  BY <1>0, <1>3 DEF read_page, CacheAt, Settled, disk, TypeOK
  <2> QED  BY <1>a, <1>3, <2>1, <2>2, <2>3 DEF read_page
<1>4. ASSUME NEW q \in Page, get_page_mut(c, q) PROVE (HotInv /\ DiskInv /\ ConnInv)'
  <2>1. \A d \in Conn : d # c => Same(d)  BY <1>0, <1>4 DEF get_page_mut, TypeOK, Same
  <2>2. /\ dirty'[c] = dirty[c] \cup {q} /\ size'[c] = PageCount(c) /\ file' = file
        /\ pc[c] = "ready" /\ pc'[c] = "ready" /\ q <= PageCount(c)
    BY <1>0, <1>4 DEF get_page_mut, TypeOK, disk
  <2>3. PageCount(c)' = PageCount(c)  BY <2>2 DEF PageCount, Count
  <2>4. DirtyAt(c)'
    BY <1>0, <2>2, <2>3 DEF DirtyAt, Settled, Count
  <2>5. CacheAt(c)'
    BY <1>0, <1>4, <2>2 DEF get_page_mut, CacheAt, Settled, TypeOK
  <2> QED  BY <1>a, <1>4, <2>1, <2>4, <2>5 DEF get_page_mut
<1>5. CASE allocate_page(c)
  <2>1. \A d \in Conn : d # c => Same(d)  BY <1>0, <1>5 DEF allocate_page, TypeOK, Same
  <2> DEFINE n == PageCount(c) + 1
  <2>2. /\ dirty'[c] = dirty[c] \cup {1, n} /\ size'[c] = n /\ file' = file
        /\ pc[c] = "ready" /\ pc'[c] = "ready" /\ n \in Page
        /\ \A q \in Page : q # 1 => cache'[c][q] = cache[c][q]
        /\ cache'[c][1] = NoPage
    <3>1. n \in Page  BY <1>0, <1>5, PagerConstants, SMTT(30) DEF allocate_page, Page
    <3> QED  BY <1>0, <1>5, <3>1, Contents DEF allocate_page, TypeOK, disk
  <2>3. PageCount(c)' = n  BY <2>2 DEF PageCount
  <2>4. PageCount(c) \in Count(file) .. NPages  BY <1>0, <2>2 DEF DirtyAt, Settled
  <2>5. DirtyAt(c)'
    <3>1. n \in Count(file) .. NPages  BY <1>0, <2>2, <2>4, PagerConstants, SMTT(30) DEF Page
    <3>2. \A p \in dirty[c] : p <= PageCount(c) /\ p \in Nat
      BY <1>0, <2>2, Contents DEF DirtyAt, Settled, TypeOK
    <3>3. \A p \in dirty'[c] : p <= n  BY <1>0, <2>2, <2>4, <3>2, PagerConstants, SMTT(30) DEF Page
    <3>4. ASSUME NEW p \in Page, p > Count(file), p <= n PROVE p \in dirty'[c]
      <4>1. p = n \/ p <= PageCount(c)  BY <1>0, <3>4, Contents, SMTT(30)
      <4> QED  BY <1>0, <2>2, <3>4, <4>1 DEF DirtyAt, Settled
    <3> QED  BY <2>2, <2>3, <3>1, <3>3, <3>4 DEF DirtyAt, Count
  <2>6. cache[c][n] = NoPage
    <3>1. file[n] = NoPage
      <4>1. ~journal.live  BY <1>0, <2>2 DEF HotAt, Settled
      <4>2. n > Count(file)  BY <1>0, <2>4, SMTT(30)
      <4> QED  BY <2>2, <4>1, <4>2 DEF IInv, DiskInv
    <3> QED  BY <1>0, <2>2, <3>1 DEF CacheAt
  <2>7. CacheAt(c)'
    BY <1>0, <2>2, <2>6 DEF CacheAt, Settled
  <2> QED  BY <1>a, <1>5, <2>1, <2>5, <2>7 DEF allocate_page
<1>6. CASE begin_immediate(c)  BY <1>6, <1>b DEF begin_immediate
<1>7. CASE begin_exclusive(c)  BY <1>7, MoveQuiet DEF begin_exclusive, Settled
<1>8. CASE flush_clean(c)  BY <1>8, <1>b DEF flush_clean
<1>9. CASE flush(c)  BY <1>9, MoveQuiet DEF flush, Settled
<1>10. CASE rollback(c)
  <2>1. \A d \in Conn : d # c => Same(d)  BY <1>0, <1>10 DEF rollback, TypeOK, Same
  <2>2. dirty'[c] = {} /\ file' = file /\ pc'[c] = "ready" /\ cache' = cache /\ pc[c] = "ready"
    BY <1>0, <1>10 DEF rollback, TypeOK, disk
  <2>3. PageCount(c)' = Count(file)  BY <2>2 DEF PageCount, Count
  <2>4. DirtyAt(c)'
    <3>1. Count(file) \in Count(file) .. NPages /\ \A p \in Page : ~(p > Count(file) /\ p <= Count(file))
      BY <1>0, Contents, PagerConstants, SMTT(30)
    <3> QED  BY <2>2, <2>3, <3>1 DEF DirtyAt, Count
  <2>5. CacheAt(c)'  BY <1>0, <2>2 DEF CacheAt, Settled
  <2> QED  BY <1>a, <1>10, <2>1, <2>4, <2>5 DEF rollback
<1> QED  BY <1>1, <1>2, <1>3, <1>4, <1>5, <1>6, <1>7, <1>8, <1>9, <1>10 DEF Request

-----------------------------------------------------------------------------
(* Steps of the connection that writes the files.                          *)

\* Whoever is EXCLUSIVE shares the database with nobody that remembers any of it.
LEMMA Alone ==
  ASSUME IInv, NEW c \in Conn, level[c] = Exclusive, NEW d \in Conn, d # c
  PROVE  pc[d] \in {"closed", "probed"} /\ dirty[d] = {} /\ cache[d] = NoPages
<1>1. level[d] = Unlocked  BY DEF IInv, LadderInv, MutualExclusion, ExclusiveIsAlone
<1>2. LadderAt(d) /\ CacheAt(d) /\ TypeOK  BY DEF IInv, LadderInv, ConnInv
<1>3. pc[d] \in Busy \cup {"closed", "ready"}  BY <1>2 DEF TypeOK
<1>4. pc[d] \in {"closed", "probed"}
  BY <1>1, <1>2, <1>3, SMTT(30) DEF LadderAt, Busy, Writing, Flushing, Recovering, Settled
<1> QED  BY <1>2, <1>4 DEF CacheAt, Settled, Flushing

\* So a step of the EXCLUSIVE holder answers for itself only.
LEMMA WriterStep ==
  ASSUME IInv, NEW c \in Conn, level[c] = Exclusive,
         \A d \in Conn : d # c => Same(d),
         DiskInv', HotAt(c)', pc'[c] \in Writing \/ ~journal'.live,
         (FlushAt(c) /\ RecoverAt(c) /\ DirtyAt(c) /\ CacheAt(c))'
  PROVE  (HotInv /\ DiskInv /\ ConnInv)'
<1>1. ASSUME NEW d \in Conn, d # c
      PROVE  (HotAt(d) /\ FlushAt(d) /\ RecoverAt(d) /\ DirtyAt(d) /\ CacheAt(d))'
  <2>1. pc'[d] \in {"closed", "probed"} /\ dirty'[d] = {} /\ cache'[d] = NoPages
    BY <1>1, Alone DEF Same
  <2>2. HotAt(d)'  BY <2>1 DEF HotAt, Settled, Writing, Flushing, Recovering
  <2>3. FlushAt(d)'  BY <2>1 DEF FlushAt, Flushing
  <2>4. RecoverAt(d)'  BY <2>1 DEF RecoverAt, Recovering
  <2>5. DirtyAt(d)'  BY <2>1 DEF DirtyAt, Settled
  <2>6. CacheAt(d)'  BY <2>1 DEF CacheAt, NoPages
  <2> QED  BY <2>2, <2>3, <2>4, <2>5, <2>6
<1> QED  BY <1>1 DEF HotInv, ConnInv

\* What the writer of a live journal may count on.
LEMMA WriterKnows ==
  ASSUME IInv, NEW c \in Conn, pc[c] \in Writing
  PROVE  /\ TypeOK /\ LadderInv /\ DiskInv /\ journal.live /\ level[c] = Exclusive
         /\ FlushAt(c) /\ RecoverAt(c) /\ CacheAt(c)
         /\ journal.pre \in [Page -> Content] /\ journal.count \in Page
         /\ journal.synced \in BOOLEAN
         /\ Recorded(journal) \subseteq Page
         /\ \A p \in Page : Restored(p) = IF p \in Recorded(journal) THEN journal.pre[p] ELSE file[p]
BY DEF IInv, LadderInv, LadderAt, HotInv, HotAt, ConnInv, TypeOK, Journal, DiskInv, Recorded, Restored

\* The recovered database stays what it is when its pages do.
LEMMA SameCommitted ==
  ASSUME RestoredCount \in Page, RestoredCount' = RestoredCount,
         \A p \in Page : p <= RestoredCount => Restored(p)' = Restored(p)
  PROVE  Committed' = Committed
<1>1. \A p \in 1 .. RestoredCount : p \in Page /\ p <= RestoredCount
  BY PagerConstants, SMTT(30) DEF Page
<1> QED  BY <1>1 DEF Committed

-----------------------------------------------------------------------------
(* The steps of recovery.                                                  *)

\* Recovery writes one pre-image back.
LEMMA RecoverKeeps ==
  ASSUME IInv, NEW c \in Conn, recover(c)
  PROVE  (HotInv /\ DiskInv /\ ConnInv)' /\ Committed' = Committed
<1>0. pc[c] = "replay" /\ pc[c] \in Writing  BY DEF recover, Writing, Recovering
<1>1. /\ TypeOK /\ LadderInv /\ DiskInv /\ journal.live /\ level[c] = Exclusive
      /\ FlushAt(c) /\ RecoverAt(c) /\ CacheAt(c)
      /\ journal.pre \in [Page -> Content] /\ journal.count \in Page
      /\ journal.synced \in BOOLEAN
      /\ Recorded(journal) \subseteq Page
      /\ \A p \in Page : Restored(p) = IF p \in Recorded(journal) THEN journal.pre[p] ELSE file[p]
  BY <1>0, WriterKnows
<1>2. PICK p \in left[c] : /\ write_page(p, journal.pre[p])
                           /\ left' = [left EXCEPT ![c] = @ \ {p}]
  BY DEF recover
<1>3. UNCHANGED <<level, journal, ghost, pc, hot, txLock, dirty, size, cache, ntx>>  BY DEF recover
<1>4. p \in Recorded(journal) /\ p \in Page /\ left'[c] = left[c] \ {p}
  BY <1>0, <1>1, <1>2 DEF RecoverAt, TypeOK
<1>5. /\ file'[p] = journal.pre[p] /\ maybe'[p] = maybe[p] \cup {journal.pre[p]}
      /\ \A q \in Page : q # p => file'[q] = file[q] /\ maybe'[q] = maybe[q]
  BY <1>1, <1>2, <1>4 DEF write_page, TypeOK
<1>6. \A q \in Page : Restored(q)' = Restored(q)
  BY <1>1, <1>3, <1>4, <1>5 DEF Restored
<1>7. \A q \in Page : q \notin Recorded(journal) => Durable(q)' = Durable(q)
  BY <1>4, <1>5 DEF Durable
<1>8. DiskInv'
  <2>1. \A q \in Page : file'[q] \in maybe'[q] /\ \A x \in maybe'[q] : x.tx <= ntx
    BY <1>1, <1>4, <1>5, SMTT(30) DEF DiskInv
  <2>2. ~journal.synced => \A q \in Page : file'[q] = file[q] /\ maybe'[q] = maybe[q]
    <3> SUFFICES ASSUME ~journal.synced PROVE file'[p] = file[p] /\ maybe'[p] = maybe[p]
      BY <1>5
    <3>1. journal.pre[p] = file[p] /\ maybe[p] = {file[p]}  BY <1>1, <1>4 DEF DiskInv, Durable
    <3> QED  BY <1>5, <3>1
  <2>3. \A q \in Page : /\ journal.pre[q].tx <= ntx
                        /\ q \in Recorded(journal) => q <= journal.count
                        /\ q <= journal.count => Restored(q)' # NoPage
                        /\ (q <= journal.count /\ q \notin Recorded(journal)) => Durable(q)'
    <3> TAKE q \in Page
    <3>1. /\ journal.pre[q].tx <= ntx
          /\ q \in Recorded(journal) => q <= journal.count
          /\ q <= journal.count => Restored(q) # NoPage
          /\ (q <= journal.count /\ q \notin Recorded(journal)) => Durable(q)
      BY <1>1 DEF DiskInv
    <3>2. Restored(q)' = Restored(q)  BY <1>6
    <3>3. q \notin Recorded(journal) => Durable(q)' = Durable(q)  BY <1>7
    <3> QED  BY <3>1, <3>2, <3>3
  <2>4. ghost = {} /\ Restored(1)'.count = journal.count  BY <1>1, <1>6, Contents DEF DiskInv
  <2>5. ~journal.synced => \A q \in Page : /\ Durable(q)'
                                           /\ q \in Recorded(journal) => journal.pre[q] = file'[q]
                                           /\ q > journal.count => file'[q] = NoPage
    BY <1>1, <2>2, SMTT(30) DEF DiskInv, Durable
  <2> QED  BY <1>1, <1>3, <2>1, <2>3, <2>4, <2>5 DEF DiskInv
<1>9. (FlushAt(c) /\ RecoverAt(c) /\ DirtyAt(c) /\ CacheAt(c))'
  <2>1. FlushAt(c)' /\ DirtyAt(c)'  BY <1>0, <1>3 DEF FlushAt, DirtyAt, Flushing, Settled
  <2>2. RecoverAt(c)'  BY <1>0, <1>1, <1>3, <1>4, <1>5, SMTT(30) DEF RecoverAt
  <2>3. CacheAt(c)'
    BY <1>0, <1>1, <1>3, SMTT(30) DEF CacheAt, Settled, Flushing, NoPages
  <2> QED  BY <2>1, <2>2, <2>3
<1>10. HotAt(c)'  BY <1>0, <1>1, <1>3 DEF HotAt, Settled
<1>11. \A d \in Conn : d # c => Same(d)  BY <1>1, <1>2, <1>3 DEF Same, TypeOK
<1>12. Committed' = Committed
  BY <1>1, <1>3, <1>6, SameCommitted DEF RestoredCount
<1> QED  BY <1>0, <1>1, <1>3, <1>8, <1>9, <1>10, <1>11, <1>12, WriterStep

\* Recovery cuts the pages that the interrupted transaction appended.
LEMMA TruncateKeeps ==
  ASSUME IInv, NEW c \in Conn, Truncate(c)
  PROVE  (HotInv /\ DiskInv /\ ConnInv)' /\ Committed' = Committed
<1>0. pc[c] = "replay" /\ pc[c] \in Writing /\ left[c] = {}  BY DEF Truncate, Goto, Writing, Recovering
<1>1. /\ TypeOK /\ DiskInv /\ journal.live /\ level[c] = Exclusive /\ RecoverAt(c) /\ CacheAt(c)
      /\ journal.count \in Page /\ journal.synced \in BOOLEAN
      /\ Recorded(journal) \subseteq Page
      /\ \A p \in Page : Restored(p) = IF p \in Recorded(journal) THEN journal.pre[p] ELSE file[p]
  BY <1>0, WriterKnows
<1>3. UNCHANGED <<level, journal, ghost, hot, txLock, dirty, size, cache, left, ntx>>  BY DEF Truncate
<1>4. pc'[c] = "recsync" /\ \A d \in Conn : d # c => Same(d)
  BY <1>1, <1>3 DEF Truncate, Goto, TypeOK, Same
<1>5. \A q \in Page : /\ file'[q] = IF q <= journal.count THEN file[q] ELSE NoPage
                      /\ maybe'[q] = maybe[q] \cup {file'[q]}
  BY DEF Truncate
<1>a. \A q \in Page : q > journal.count <=> ~(q <= journal.count)
  BY <1>1, PagerConstants, SMTT(30) DEF Page
<1>b. ASSUME NEW q \in Page, file'[q] = file[q] PROVE maybe'[q] = maybe[q]
  <2>1. file[q] \in maybe[q]  BY <1>1 DEF DiskInv
  <2> QED  BY <1>5, <1>b, <2>1
<1>6. \A q \in Page : q <= journal.count => Restored(q)' = Restored(q) /\ maybe'[q] = maybe[q]
  BY <1>3, <1>5, <1>b DEF Restored
<1>7. \A q \in Page : ~journal.synced => file'[q] = file[q] /\ maybe'[q] = maybe[q]
  BY <1>1, <1>5, <1>a, <1>b DEF DiskInv
<1>8. 1 <= journal.count  BY <1>1, PagerConstants, SMTT(30) DEF Page
<1>9. DiskInv'
  <2>1. NoPage.tx <= ntx  BY <1>1, SMTT(30) DEF NoPage, TypeOK
  <2>2. \A q \in Page : file'[q] \in maybe'[q] /\ \A x \in maybe'[q] : x.tx <= ntx
    BY <1>1, <1>5, <2>1, SMTT(30) DEF DiskInv
  <2>3. \A q \in Page : /\ journal.pre[q].tx <= ntx
                        /\ q \in Recorded(journal) => q <= journal.count
                        /\ q <= journal.count => Restored(q)' # NoPage
                        /\ (q <= journal.count /\ q \notin Recorded(journal)) => Durable(q)'
    BY <1>1, <1>5, <1>6, SMTT(30) DEF DiskInv, Durable
  <2>4. ghost = {} /\ Restored(1)'.count = journal.count  BY <1>1, <1>6, <1>8, Contents DEF DiskInv
  <2>5. ~journal.synced => \A q \in Page : /\ Durable(q)'
                                           /\ q \in Recorded(journal) => journal.pre[q] = file'[q]
                                           /\ q > journal.count => file'[q] = NoPage
    BY <1>1, <1>7, SMTT(30) DEF DiskInv, Durable
  <2> QED  BY <1>1, <1>3, <2>2, <2>3, <2>4, <2>5 DEF DiskInv
<1>10. (FlushAt(c) /\ RecoverAt(c) /\ DirtyAt(c) /\ CacheAt(c))'
  <2>1. FlushAt(c)' /\ DirtyAt(c)'  BY <1>4 DEF FlushAt, DirtyAt, Flushing, Settled
  <2>2. \A q \in Recorded(journal) : q <= journal.count /\ file[q] = journal.pre[q]
    BY <1>0, <1>1 DEF RecoverAt, Recovering, DiskInv
  <2>3. \A q \in Page : q > journal.count => file'[q] = NoPage
    BY <1>5, <1>a
  <2>4. RecoverAt(c)'  BY <1>1, <1>3, <1>4, <1>5, <2>2, <2>3 DEF RecoverAt
  <2>5. CacheAt(c)'  BY <1>0, <1>1, <1>3, <1>4, SMTT(30) DEF CacheAt, Settled, Flushing, NoPages
  <2> QED  BY <2>1, <2>4, <2>5
<1>11. HotAt(c)' /\ pc'[c] \in Writing
  BY <1>1, <1>3, <1>4 DEF HotAt, Settled, Writing, Recovering
<1>12. Committed' = Committed
  BY <1>1, <1>3, <1>6, SameCommitted DEF RestoredCount
<1> QED  BY <1>1, <1>4, <1>9, <1>10, <1>11, <1>12, WriterStep

\* Recovery makes what it restored durable.
LEMMA SyncRecoveredKeeps ==
  ASSUME IInv, NEW c \in Conn, SyncRecovered(c)
  PROVE  (HotInv /\ DiskInv /\ ConnInv)' /\ Committed' = Committed
<1>0. pc[c] = "recsync" /\ pc[c] \in Writing  BY DEF SyncRecovered, Goto, Writing, Recovering
<1>1. /\ TypeOK /\ DiskInv /\ journal.live /\ level[c] = Exclusive /\ RecoverAt(c) /\ CacheAt(c)
      /\ journal.count \in Page
  BY <1>0, WriterKnows
<1>3. UNCHANGED <<level, file, journal, ghost, hot, txLock, dirty, size, cache, left, ntx>>
  BY DEF SyncRecovered
<1>4. pc'[c] = "recdone" /\ \A d \in Conn : d # c => Same(d)
  BY <1>1, <1>3 DEF SyncRecovered, Goto, TypeOK, Same
<1>5. \A q \in Page : Durable(q)'
  BY <1>3 DEF SyncRecovered, sync_main, Durable
<1>6. \A q \in Page : Restored(q)' = Restored(q)
  BY <1>3 DEF Restored
<1>9. DiskInv'
  <2>1. \A q \in Page : file'[q] \in maybe'[q] /\ \A x \in maybe'[q] : x.tx <= ntx
    BY <1>1, <1>3, <1>5, SMTT(30) DEF DiskInv, Durable
  <2> QED  BY <1>1, <1>3, <1>5, <1>6, <2>1, Contents DEF DiskInv
<1>10. (FlushAt(c) /\ RecoverAt(c) /\ DirtyAt(c) /\ CacheAt(c))'
  <2>1. FlushAt(c)' /\ DirtyAt(c)'  BY <1>4 DEF FlushAt, DirtyAt, Flushing, Settled
  <2>2. RecoverAt(c)'  BY <1>0, <1>1, <1>3, <1>4, <1>5 DEF RecoverAt, Recovering
  <2>3. CacheAt(c)'  BY <1>0, <1>1, <1>3, <1>4 DEF CacheAt, Settled, Flushing, NoPages
  <2> QED  BY <2>1, <2>2, <2>3
<1>11. HotAt(c)' /\ pc'[c] \in Writing
  BY <1>1, <1>3, <1>4 DEF HotAt, Settled, Writing, Recovering
<1>12. Committed' = Committed
  BY <1>1, <1>3, <1>6, SameCommitted DEF RestoredCount
<1> QED  BY <1>1, <1>4, <1>9, <1>10, <1>11, <1>12, WriterStep

\* Recovery deletes the journal: the file now shows what it restored.
LEMMA DeleteRecoveredKeeps ==
  ASSUME Dependable, IInv, NEW c \in Conn, DeleteRecovered(c)
  PROVE  (HotInv /\ DiskInv /\ ConnInv)' /\ Committed' = Committed
<1>0. pc[c] = "recdone" /\ pc[c] \in Writing  BY DEF DeleteRecovered, Goto, Writing, Recovering
<1>1. /\ TypeOK /\ DiskInv /\ journal.live /\ level[c] = Exclusive /\ RecoverAt(c) /\ CacheAt(c)
      /\ journal.count \in Page
      /\ \A p \in Page : Restored(p) = IF p \in Recorded(journal) THEN journal.pre[p] ELSE file[p]
  BY <1>0, WriterKnows
<1>2. journal' = NoJournal /\ ~journal'.live /\ ghost' = {}
  BY DEF DeleteRecovered, delete_journal, Dependable, NoJournal
<1>3. UNCHANGED <<file, maybe, txLock, dirty, size, cache, left, ntx>>  BY DEF DeleteRecovered
<1>4. pc'[c] = "ready" /\ \A d \in Conn : d # c => Same(d)
  BY <1>1, <1>3 DEF DeleteRecovered, Goto, TypeOK, Same
<1>5. \A q \in Page : Restored(q) = file[q]
  BY <1>0, <1>1 DEF RecoverAt, Recovering
<1>6. \A q \in Page : Restored(q)' = Restored(q)
  BY <1>2, <1>3, <1>5 DEF Restored
<1>7. Count(file) = journal.count /\ Count(file)' = Count(file)
  BY <1>1, <1>3, <1>5, Contents DEF Count, DiskInv
<1>a. \A q \in Page : q > journal.count <=> ~(q <= journal.count)
  BY <1>1, PagerConstants, SMTT(30) DEF Page
<1>8. \A q \in Page : Durable(q)' /\ (file'[q] = NoPage <=> q > Count(file)')
  BY <1>0, <1>1, <1>3, <1>5, <1>7, <1>a, SMTT(30) DEF RecoverAt, DiskInv, Durable
<1>9. DiskInv'
  <2>1. \A q \in Page : file'[q] \in maybe'[q] /\ \A x \in maybe'[q] : x.tx <= ntx'
    BY <1>1, <1>3 DEF DiskInv
  <2> QED  BY <1>1, <1>2, <1>7, <1>8, <2>1 DEF DiskInv
<1>10. (FlushAt(c) /\ RecoverAt(c) /\ DirtyAt(c) /\ CacheAt(c))'
  <2>1. FlushAt(c)' /\ RecoverAt(c)'  BY <1>4 DEF FlushAt, RecoverAt, Flushing, Recovering
  <2>2. dirty'[c] = {} /\ cache'[c] = NoPages
    BY <1>0, <1>1, <1>3 DEF CacheAt, Settled, Flushing
  <2>3. PageCount(c)' = Count(file)'  BY <2>2 DEF PageCount
  <2>4. Count(file)' \in Count(file)' .. NPages /\ \A p \in Page : ~(p > Count(file)' /\ p <= Count(file)')
    BY <1>1, <1>7, PagerConstants, SMTT(30) DEF Page
  <2>5. DirtyAt(c)'  BY <1>4, <2>2, <2>3, <2>4 DEF DirtyAt
  <2>6. CacheAt(c)'  BY <1>4, <2>2 DEF CacheAt, Settled, NoPages
  <2> QED  BY <2>1, <2>5, <2>6
<1>11. HotAt(c)'  BY <1>2, <1>4 DEF HotAt, Writing, Flushing, Recovering
<1>12. Committed' = Committed
  <2>1. RestoredCount = journal.count /\ RestoredCount' = journal.count
    BY <1>1, <1>2, <1>7 DEF RestoredCount
  <2> QED  BY <1>1, <1>6, <2>1, SameCommitted
<1> QED  BY <1>1, <1>2, <1>4, <1>9, <1>10, <1>11, <1>12, WriterStep

-----------------------------------------------------------------------------
(* The steps of flush.                                                     *)

\* flush_locked writes the journal's header.
LEMMA JournalCreateKeeps ==
  ASSUME IInv, NEW c \in Conn, JournalCreate(c)
  PROVE  (HotInv /\ DiskInv /\ ConnInv)' /\ Committed' = Committed
<1>0. pc[c] = "flush" /\ level[c] = Exclusive  BY DEF JournalCreate, Goto
<1>1. TypeOK /\ DiskInv /\ ~journal.live /\ DirtyAt(c) /\ CacheAt(c)
  BY <1>0 DEF IInv, HotInv, HotAt, ConnInv, Settled
<1>2. journal' = [live |-> TRUE, count |-> Count(file), pre |-> NoPages, synced |-> FALSE]
  BY DEF JournalCreate
<1>3. UNCHANGED <<level, file, maybe, ghost, hot, txLock, dirty, size, cache>> /\ ntx' = ntx + 1
  BY DEF JournalCreate
<1>4. pc'[c] = "journal" /\ left'[c] = ToJournal(c) /\ \A d \in Conn : d # c => Same(d)
  BY <1>1, <1>3 DEF JournalCreate, Goto, TypeOK, Same
<1>5. Count(file) \in Page /\ Count(file)' = Count(file) /\ ntx \in Nat
  BY <1>1, <1>3, SMTT(30) DEF DiskInv, TypeOK, Count
<1>6. Recorded(journal') = {} /\ \A q \in Page : journal'.pre[q] = NoPage
  BY <1>2 DEF Recorded, NoPages
<1>7. \A q \in Page : Restored(q)' = file[q] /\ Restored(q) = file[q]
  BY <1>1, <1>2, <1>3, <1>6 DEF Restored
<1>8. \A q \in Page : Durable(q)' /\ file[q].tx <= ntx /\ (file[q] = NoPage <=> q > Count(file))
  BY <1>1, <1>3 DEF DiskInv, Durable
<1>a. \A q \in Page : q > Count(file) <=> ~(q <= Count(file))
  BY <1>5, PagerConstants, SMTT(30) DEF Page
<1>b. \A q \in Page : file[q].tx \in Nat  BY <1>1, SMTT(30) DEF TypeOK, Content
<1>9. DiskInv'
  <2>1. \A q \in Page : file'[q] \in maybe'[q] /\ \A x \in maybe'[q] : x.tx <= ntx'
    <3>1. \A q \in Page : maybe'[q] = {file[q]}  BY <1>3, <1>8 DEF Durable
    <3> QED  BY <1>3, <1>5, <1>8, <1>b, <3>1, SMTT(30)
  <2>2. NoPage.tx <= ntx'  BY <1>3, <1>5, SMTT(30) DEF NoPage
  <2>3. Restored(1)'.count = Count(file)  BY <1>7, Contents DEF Count
  <2> QED  BY <1>1, <1>2, <1>3, <1>5, <1>6, <1>7, <1>8, <1>a, <2>1, <2>2, <2>3 DEF DiskInv
<1>10. (FlushAt(c) /\ RecoverAt(c) /\ DirtyAt(c) /\ CacheAt(c))'
  <2>1. RecoverAt(c)' /\ DirtyAt(c)'  BY <1>4 DEF DirtyAt, RecoverAt, Settled, Recovering
  <2>2. Target(c)' = PageCount(c)  BY <1>2, <1>3 DEF Target, PageCount
  <2>3. /\ dirty[c] # {} /\ PageCount(c) \in Count(file) .. NPages
        /\ \A p \in dirty[c] : p <= PageCount(c)
        /\ \A p \in Page : (p > Count(file) /\ p <= PageCount(c)) => p \in dirty[c]
    BY <1>0, <1>1 DEF DirtyAt, Settled
  <2>4. \A q \in Page : Restored(q)'.tx < ntx'  BY <1>3, <1>5, <1>7, <1>8, <1>b, SMTT(30)
  <2>5. FlushAt(c)'
    <3>1. FlushBegun(c)' /\ FlushRecords(c)'
      BY <1>2, <1>3, <1>4, <2>2, <2>3, <2>4 DEF FlushBegun, FlushRecords, ToJournal
    <3> QED  BY <1>4, <3>1 DEF FlushAt
  <2>6. CacheAt(c)'  BY <1>0, <1>1, <1>3, <1>4 DEF CacheAt, Settled, Flushing
  <2> QED  BY <2>1, <2>5, <2>6
<1>11. HotAt(c)' /\ pc'[c] \in Writing  BY <1>2, <1>4 DEF HotAt, Settled, Writing, Flushing
<1>12. Committed' = Committed
  <2>1. RestoredCount = Count(file) /\ RestoredCount' = Count(file)
    BY <1>1, <1>2 DEF RestoredCount
  <2> QED  BY <1>5, <1>7, <2>1, SameCommitted
<1> QED  BY <1>0, <1>4, <1>9, <1>10, <1>11, <1>12, WriterStep

\* flush_locked records one pre-image.
LEMMA WriteRecordKeeps ==
  ASSUME IInv, NEW c \in Conn, write_record(c)
  PROVE  (HotInv /\ DiskInv /\ ConnInv)' /\ Committed' = Committed
<1>0. pc[c] = "journal" /\ pc[c] \in Writing  BY DEF write_record, Writing, Flushing
<1>1. /\ TypeOK /\ DiskInv /\ journal.live /\ level[c] = Exclusive /\ FlushAt(c) /\ CacheAt(c)
      /\ journal.pre \in [Page -> Content] /\ journal.count \in Page
      /\ Recorded(journal) \subseteq Page
      /\ \A p \in Page : Restored(p) = IF p \in Recorded(journal) THEN journal.pre[p] ELSE file[p]
  BY <1>0, WriterKnows
<1>2. PICK p \in left[c] : /\ journal' = [journal EXCEPT !.pre[p] = file[p]]
                           /\ left' = [left EXCEPT ![c] = @ \ {p}]
  BY DEF write_record
<1>3. UNCHANGED <<level, file, maybe, ghost, pc, hot, txLock, dirty, size, cache, ntx>>
  BY DEF write_record
<1>4. /\ p \in dirty[c] /\ p \in Page /\ p <= journal.count /\ ~journal.synced
      /\ left'[c] = left[c] \ {p} /\ left[c] \subseteq dirty[c]
  BY <1>0, <1>1, <1>2 DEF FlushAt, FlushBegun, FlushRecords, Flushing, TypeOK
<1>5. /\ journal'.pre[p] = file[p] /\ \A q \in Page : q # p => journal'.pre[q] = journal.pre[q]
      /\ journal'.live = journal.live /\ journal'.count = journal.count
      /\ journal'.synced = journal.synced
  BY <1>1, <1>2, <1>4 DEF TypeOK, Journal
<1>6. \A q \in Page : /\ Durable(q)
                      /\ q \in Recorded(journal) => journal.pre[q] = file[q]
                      /\ q > journal.count => file[q] = NoPage
                      /\ Restored(q) = file[q]
  BY <1>1, <1>4 DEF DiskInv
<1>7. file[p] # NoPage  BY <1>1, <1>4, <1>6, SMTT(30) DEF DiskInv
<1>8. Recorded(journal') = Recorded(journal) \cup {p}
  BY <1>4, <1>5, <1>7 DEF Recorded
<1>a. \A q \in Page : q \in Recorded(journal') => journal'.pre[q] = file[q]
  BY <1>5, <1>6, <1>8
<1>b. \A q \in Page : Restored(q)' = file[q]
  BY <1>3, <1>5, <1>a DEF Restored
<1>c. \A q \in Page : Durable(q)'  BY <1>3, <1>6 DEF Durable
<1>9. DiskInv'
  <2>1. \A q \in Page : journal'.pre[q].tx <= ntx'
    <3>1. file[p].tx <= ntx  BY <1>1, <1>4 DEF DiskInv
    <3> QED  BY <1>1, <1>3, <1>5, <3>1 DEF DiskInv
  <2>2. Restored(1)'.count = journal'.count  BY <1>1, <1>5, <1>6, <1>b, Contents, SMTT(30) DEF DiskInv
  <2>3. \A q \in Page : /\ q \in Recorded(journal') => q <= journal'.count
                        /\ q <= journal'.count => Restored(q)' # NoPage
    BY <1>1, <1>4, <1>5, <1>6, <1>8, <1>b, SMTT(30) DEF DiskInv
  <2>4. \A q \in Page : file'[q] \in maybe'[q] /\ \A x \in maybe'[q] : x.tx <= ntx'
    BY <1>1, <1>3 DEF DiskInv
  <2>5. \A q \in Page : q > journal'.count => file'[q] = NoPage  BY <1>3, <1>5, <1>6
  <2>6. \A q \in Page : q \in Recorded(journal') => journal'.pre[q] = file'[q]  BY <1>3, <1>a
  <2>7. ghost' = {} /\ journal'.live /\ journal'.count \in Page  BY <1>1, <1>3, <1>5 DEF DiskInv
  <2> QED  BY <1>c, <2>1, <2>2, <2>3, <2>4, <2>5, <2>6, <2>7 DEF DiskInv
<1>10. (FlushAt(c) /\ RecoverAt(c) /\ DirtyAt(c) /\ CacheAt(c))'
  <2>0. pc'[c] = "journal"  BY <1>0, <1>3
  <2>1. RecoverAt(c)' /\ DirtyAt(c)'  BY <2>0 DEF DirtyAt, RecoverAt, Settled, Recovering
  <2>2. Target(c)' = Target(c)  BY <1>3, <1>5 DEF Target
  <2>3. \A q \in Page : q <= journal.count => Restored(q)'.tx < ntx'
    BY <1>0, <1>1, <1>3, <1>6, <1>b DEF FlushAt, FlushBegun, Flushing
  <2>4. \A q \in dirty[c] : q <= journal.count => (q \in left'[c] \/ q \in Recorded(journal'))
    BY <1>0, <1>1, <1>4, <1>8 DEF FlushAt, FlushRecords
  <2>5. FlushAt(c)'
    <3>1. FlushBegun(c) /\ FlushRecords(c)  BY <1>0, <1>1 DEF FlushAt, Flushing
    <3>2. FlushBegun(c)'  BY <1>3, <1>4, <1>5, <2>2, <2>3, <3>1 DEF FlushBegun
    <3>3. FlushRecords(c)'  BY <1>3, <1>4, <1>5, <2>4, <3>1 DEF FlushRecords
    <3> QED  BY <2>0, <3>2, <3>3 DEF FlushAt
  <2>6. CacheAt(c)'  BY <1>1, <1>3 DEF CacheAt
  <2> QED  BY <2>1, <2>5, <2>6
<1>11. HotAt(c)' /\ pc'[c] \in Writing
  BY <1>0, <1>1, <1>3, <1>5 DEF HotAt, Settled
<1>12. Committed' = Committed
  <2>1. RestoredCount = journal.count /\ RestoredCount' = journal.count
    BY <1>1, <1>5 DEF RestoredCount
  <2> QED  BY <1>1, <1>6, <1>b, <2>1, SameCommitted
<1>13. \A d \in Conn : d # c => Same(d)  BY <1>1, <1>2, <1>3 DEF Same, TypeOK
<1> QED  BY <1>1, <1>9, <1>10, <1>11, <1>12, <1>13, WriterStep

\* The journal is fsynced before the first page is written.
LEMMA JournalSyncKeeps ==
  ASSUME Dependable, IInv, NEW c \in Conn, JournalSync(c)
  PROVE  (HotInv /\ DiskInv /\ ConnInv)' /\ Committed' = Committed
<1>0. pc[c] = "journal" /\ pc[c] \in Writing /\ left[c] = {}
  BY DEF JournalSync, Goto, Writing, Flushing
<1>1. /\ TypeOK /\ DiskInv /\ journal.live /\ level[c] = Exclusive /\ FlushAt(c) /\ CacheAt(c)
      /\ journal.count \in Page
      /\ \A p \in Page : Restored(p) = IF p \in Recorded(journal) THEN journal.pre[p] ELSE file[p]
  BY <1>0, WriterKnows
<1>2. /\ journal'.pre = journal.pre /\ journal'.live = journal.live /\ journal'.count = journal.count
      /\ journal'.synced /\ ~journal.synced
  BY <1>0, <1>1 DEF JournalSync, TypeOK, Journal, Dependable, FlushAt, FlushRecords
<1>3. UNCHANGED <<level, file, maybe, ghost, hot, txLock, dirty, size, cache, ntx>>
  BY DEF JournalSync
<1>4. pc'[c] = "pages" /\ left'[c] = dirty[c] /\ \A d \in Conn : d # c => Same(d)
  BY <1>1, <1>3 DEF JournalSync, Goto, TypeOK, Same
<1>5. Recorded(journal') = Recorded(journal)  BY <1>2 DEF Recorded
<1>6. \A q \in Page : Restored(q)' = Restored(q) /\ Durable(q)' = Durable(q)
  BY <1>2, <1>3, <1>5 DEF Restored, Durable
<1>7. \A q \in Page : Restored(q) = file[q] /\ (q > journal.count => file[q] = NoPage)
  BY <1>1, <1>2 DEF DiskInv
<1>9. DiskInv'
  BY <1>1, <1>2, <1>3, <1>5, <1>6, Contents, SMTT(30) DEF DiskInv
<1>10. (FlushAt(c) /\ RecoverAt(c) /\ DirtyAt(c) /\ CacheAt(c))'
  <2>1. RecoverAt(c)' /\ DirtyAt(c)'  BY <1>4 DEF DirtyAt, RecoverAt, Settled, Recovering
  <2>2. Target(c)' = Target(c)  BY <1>2, <1>3 DEF Target
  <2>3. FlushAt(c)'
    <3>1. FlushBegun(c) /\ FlushRecords(c)  BY <1>0, <1>1 DEF FlushAt, Flushing
    <3>2. FlushBegun(c)'  BY <1>2, <1>3, <1>4, <1>6, <2>2, <3>1 DEF FlushBegun
    <3>3. FlushPages(c)'
      BY <1>0, <1>2, <1>3, <1>4, <1>5, <1>6, <1>7, <3>1 DEF FlushRecords, FlushPages
    <3> QED  BY <1>4, <3>2, <3>3 DEF FlushAt
  <2>4. CacheAt(c)'  BY <1>0, <1>1, <1>3, <1>4 DEF CacheAt, Settled, Flushing
  <2> QED  BY <2>1, <2>3, <2>4
<1>11. HotAt(c)' /\ pc'[c] \in Writing
  BY <1>1, <1>2, <1>4 DEF HotAt, Settled, Writing, Flushing
<1>12. Committed' = Committed
  <2>1. RestoredCount = journal.count /\ RestoredCount' = journal.count
    BY <1>1, <1>2 DEF RestoredCount
  <2> QED  BY <1>1, <1>6, <2>1, SameCommitted
<1> QED  BY <1>1, <1>4, <1>9, <1>10, <1>11, <1>12, WriterStep

\* flush_locked writes one dirty page to the main file.
LEMMA WriteDirtyKeeps ==
  ASSUME IInv, NEW c \in Conn, write_dirty(c)
  PROVE  (HotInv /\ DiskInv /\ ConnInv)' /\ Committed' = Committed
<1>0. pc[c] = "pages" /\ pc[c] \in Writing /\ pc[c] \in Flushing
  BY DEF write_dirty, Writing, Flushing
<1>1. /\ TypeOK /\ DiskInv /\ journal.live /\ level[c] = Exclusive /\ FlushAt(c) /\ CacheAt(c)
      /\ journal.pre \in [Page -> Content] /\ journal.count \in Page
      /\ Recorded(journal) \subseteq Page
      /\ \A p \in Page : Restored(p) = IF p \in Recorded(journal) THEN journal.pre[p] ELSE file[p]
  BY <1>0, WriterKnows
<1>2. PICK p \in left[c] : /\ write_page(p, [tx |-> ntx, count |-> PageCount(c)])
                           /\ left' = [left EXCEPT ![c] = @ \ {p}]
  BY DEF write_dirty
<1>3. UNCHANGED <<level, journal, ghost, pc, hot, txLock, dirty, size, cache, ntx>>
  BY DEF write_dirty
<1>a. FlushBegun(c) /\ FlushPages(c)  BY <1>0, <1>1 DEF FlushAt
<1>4. /\ p \in dirty[c] /\ p \in Page /\ left'[c] = left[c] \ {p} /\ left[c] \subseteq dirty[c]
      /\ journal.synced
  BY <1>0, <1>1, <1>2, <1>a DEF FlushBegun, FlushPages, TypeOK
<1>5. PageCount(c) = Target(c)
  <2>1. CASE 1 \in dirty[c]  BY <2>1 DEF PageCount, Target
  <2>2. CASE 1 \notin dirty[c]
    <3>1. 1 <= journal.count  BY <1>1, PagerConstants, SMTT(30) DEF Page
    <3>2. file[1] = Restored(1)  BY <1>a, <2>2, <3>1, Contents DEF FlushPages
    <3> QED  BY <1>1, <2>2, <3>2 DEF PageCount, Target, Count, DiskInv
  <2> QED  BY <2>1, <2>2
<1> DEFINE new == [tx |-> ntx, count |-> Target(c)]
<1>6. /\ file'[p] = new /\ maybe'[p] = maybe[p] \cup {new}
      /\ \A q \in Page : q # p => file'[q] = file[q] /\ maybe'[q] = maybe[q]
  BY <1>1, <1>2, <1>4, <1>5 DEF write_page, TypeOK
<1>7. p <= journal.count => p \in Recorded(journal)
  BY <1>4, <1>a DEF FlushPages
<1>8. \A q \in Page : q <= journal.count =>
        Restored(q)' = Restored(q) /\ (q \notin Recorded(journal) => Durable(q)' = Durable(q))
  BY <1>1, <1>3, <1>6, <1>7 DEF Restored, Durable
<1>b. Target(c)' = Target(c)  BY <1>3 DEF Target
<1>9. DiskInv'
  <2>1. \A q \in Page : file'[q] \in maybe'[q] /\ \A x \in maybe'[q] : x.tx <= ntx'
    <3>1. new.tx <= ntx  BY <1>1, SMTT(30) DEF TypeOK
    <3> QED  BY <1>1, <1>3, <1>4, <1>6, <3>1, SMTT(30) DEF DiskInv
  <2>2. 1 <= journal.count  BY <1>1, PagerConstants, SMTT(30) DEF Page
  <2>3. Restored(1)'.count = journal.count  BY <1>1, <1>8, <2>2, Contents DEF DiskInv
  <2>4. \A q \in Page : /\ journal.pre[q].tx <= ntx
                        /\ q \in Recorded(journal) => q <= journal.count
                        /\ q <= journal.count => Restored(q)' # NoPage
                        /\ (q <= journal.count /\ q \notin Recorded(journal)) => Durable(q)'
    BY <1>1, <1>8, SMTT(30) DEF DiskInv
  <2>5. ghost = {} /\ journal.synced /\ journal.live /\ journal.count \in Page
    BY <1>1, <1>4 DEF DiskInv
  <2> QED  BY <1>3, <2>1, <2>3, <2>4, <2>5 DEF DiskInv
<1>10. (FlushAt(c) /\ RecoverAt(c) /\ DirtyAt(c) /\ CacheAt(c))'
  <2>0. pc'[c] = "pages"  BY <1>0, <1>3
  <2>1. RecoverAt(c)' /\ DirtyAt(c)'  BY <2>0 DEF DirtyAt, RecoverAt, Settled, Recovering
  <2>2. \A q \in dirty'[c] \ left'[c] : file'[q] = [tx |-> ntx', count |-> Target(c)']
    <3> SUFFICES ASSUME NEW q \in dirty[c], q \notin left'[c] PROVE file'[q] = new  BY <1>3, <1>b
    <3>1. q \in Page  BY <1>1 DEF TypeOK
    <3>2. CASE q = p  BY <1>6, <3>2
    <3>3. CASE q # p
      <4>1. file[q] = new  BY <1>4, <1>a, <3>3 DEF FlushPages
      <4> QED  BY <1>6, <3>1, <3>3, <4>1
    <3> QED  BY <3>2, <3>3
  <2>3. \A q \in Page : (q \notin dirty'[c] \ left'[c] /\ q <= journal'.count) => file'[q] = Restored(q)'
    <3>1. \A q \in Page : (q \notin dirty[c] \ left[c] /\ q <= journal.count) => file[q] = Restored(q)
      BY <1>a DEF FlushPages
    <3> QED  BY <1>3, <1>4, <1>6, <1>8, <3>1
  <2>4. \A q \in Page : (q \notin dirty'[c] \ left'[c] /\ q > journal'.count) => file'[q] = NoPage
    BY <1>3, <1>4, <1>6, <1>a DEF FlushPages
  <2>5. \A q \in Page : q <= journal'.count => Restored(q)'.tx < ntx'
    BY <1>3, <1>8, <1>a DEF FlushBegun
  <2>6. FlushAt(c)'
    <3>1. FlushBegun(c)'  BY <1>3, <1>4, <1>a, <1>b, <2>5 DEF FlushBegun
    <3>2. FlushPages(c)'  BY <1>3, <1>a, <2>2, <2>3, <2>4 DEF FlushPages
    <3> QED  BY <2>0, <3>1, <3>2 DEF FlushAt
  <2>7. CacheAt(c)'
    BY <1>0, <1>1, <1>3, <1>4, <1>6 DEF CacheAt
  <2> QED  BY <2>1, <2>6, <2>7
<1>11. HotAt(c)' /\ pc'[c] \in Writing
  BY <1>0, <1>1, <1>3 DEF HotAt, Settled
<1>12. Committed' = Committed
  <2>1. RestoredCount = journal.count /\ RestoredCount' = journal.count
    BY <1>1, <1>3 DEF RestoredCount
  <2> QED  BY <1>1, <1>8, <2>1, SameCommitted
<1>13. \A d \in Conn : d # c => Same(d)  BY <1>1, <1>2, <1>3 DEF Same, TypeOK
<1> QED  BY <1>1, <1>9, <1>10, <1>11, <1>12, <1>13, WriterStep

\* The main file is fsynced before the journal goes.
LEMMA MainSyncKeeps ==
  ASSUME Dependable, IInv, NEW c \in Conn, MainSync(c)
  PROVE  (HotInv /\ DiskInv /\ ConnInv)' /\ Committed' = Committed
<1>0. pc[c] = "pages" /\ pc[c] \in Writing /\ pc[c] \in Flushing /\ left[c] = {}
  BY DEF MainSync, Goto, Writing, Flushing
<1>1. /\ TypeOK /\ DiskInv /\ journal.live /\ level[c] = Exclusive /\ FlushAt(c) /\ CacheAt(c)
      /\ journal.count \in Page
  BY <1>0, WriterKnows
<1>3. UNCHANGED <<level, file, journal, ghost, hot, txLock, dirty, size, cache, left, ntx>>
  BY DEF MainSync
<1>4. pc'[c] = "unlink" /\ \A d \in Conn : d # c => Same(d)
  BY <1>1, <1>3 DEF MainSync, Goto, TypeOK, Same
<1>5. \A q \in Page : Durable(q)'
  BY <1>3 DEF MainSync, sync_main, Durable, Dependable
<1>6. \A q \in Page : Restored(q)' = Restored(q)
  BY <1>3 DEF Restored
<1>9. DiskInv'
  <2>1. \A q \in Page : file'[q] \in maybe'[q] /\ \A x \in maybe'[q] : x.tx <= ntx
    BY <1>1, <1>3, <1>5, SMTT(30) DEF DiskInv, Durable
  <2>2. 1 \in Page  BY PagerConstants, SMTT(30) DEF Page
  <2>3. Restored(1)'.count = journal.count  BY <1>1, <1>6, <2>2 DEF DiskInv
  <2>4. \A q \in Page : /\ journal.pre[q].tx <= ntx
                        /\ q \in Recorded(journal) => q <= journal.count
                        /\ q <= journal.count => Restored(q)' # NoPage
    BY <1>1, <1>6 DEF DiskInv
  <2>5. ghost = {} /\ journal.synced  BY <1>0, <1>1 DEF DiskInv, FlushAt, FlushPages
  <2> QED  BY <1>1, <1>3, <1>5, <2>1, <2>3, <2>4, <2>5 DEF DiskInv
<1>10. (FlushAt(c) /\ RecoverAt(c) /\ DirtyAt(c) /\ CacheAt(c))'
  <2>1. RecoverAt(c)' /\ DirtyAt(c)'  BY <1>4 DEF DirtyAt, RecoverAt, Settled, Recovering
  <2>2. Target(c)' = Target(c)  BY <1>3 DEF Target
  <2>3. FlushAt(c)'
    <3>1. FlushBegun(c) /\ FlushPages(c)  BY <1>0, <1>1 DEF FlushAt
    <3>2. FlushBegun(c)'  BY <1>3, <1>6, <2>2, <3>1 DEF FlushBegun
    <3>3. FlushPages(c)'  BY <1>3, <1>6, <2>2, <3>1 DEF FlushPages
    <3> QED  BY <1>0, <1>3, <1>4, <1>5, <3>2, <3>3 DEF FlushAt
  <2>4. CacheAt(c)'  BY <1>0, <1>1, <1>3, <1>4 DEF CacheAt, Settled, Flushing
  <2> QED  BY <2>1, <2>3, <2>4
<1>11. HotAt(c)' /\ pc'[c] \in Writing
  BY <1>1, <1>3, <1>4 DEF HotAt, Settled, Writing, Flushing
<1>12. Committed' = Committed
  BY <1>1, <1>3, <1>6, SameCommitted DEF RestoredCount
<1> QED  BY <1>1, <1>4, <1>9, <1>10, <1>11, <1>12, WriterStep
=============================================================================
