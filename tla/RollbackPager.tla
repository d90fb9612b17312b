---------------------------- MODULE RollbackPager ----------------------------
(***************************************************************************)
(* Pager (pager/mod.rs, pager/journal.rs) in rollback-journal mode: the    *)
(* commit protocol of Pager::flush, hot-journal recovery in Pager::open,   *)
(* BEGIN IMMEDIATE / EXCLUSIVE, ROLLBACK and the page cache, for several   *)
(* connections with one process each.  A process may die, and the machine  *)
(* may lose power, between any two file operations.                        *)
(*                                                                         *)
(* A page's content is abstracted to the flush that wrote it and the page  *)
(* count that flush left in the database header; only page 1's count is    *)
(* ever read.                                                              *)
(***************************************************************************)
EXTENDS LockLadder, FiniteSets

CONSTANTS
  NPages,       \* bound: the largest page number
  InitPages,    \* pages in the initial database
  MaxTx,        \* bound: flushes that get as far as the journal
  Sync,         \* PRAGMA synchronous: "off", "normal" or "full"
  DurableUnlink,\* does an unlink survive a power loss without a directory sync?
  IOErrors,     \* may a file operation inside flush fail?
  CrashInOpen   \* may a writer die while another open is between probe and lock?

ASSUME PagerConstants ==
  /\ NPages \in Nat /\ InitPages \in 1 .. NPages /\ MaxTx \in Nat
  /\ Sync \in {"off", "normal", "full"}
  /\ {DurableUnlink, IOErrors, CrashInOpen} \subseteq BOOLEAN

Page    == 1 .. NPages
Content == [tx : 0 .. MaxTx, count : 0 .. NPages]
NoPage  == [tx |-> 0, count |-> 0]           \* beyond the end of the file; not cached

VARIABLES
  file,      \* file[p]: page p of the main file as the operating system shows it
  maybe,     \* maybe[p]: the contents of page p that a power loss may leave
  journal,   \* the -journal file
  ghost,     \* unlinked journals that a power loss may bring back
  pc,        \* pc[c]: where connection c is
  hot,       \* hot[c]: open's journal_is_hot
  txLock,    \* txLock[c]: tx_lock_level
  dirty,     \* dirty[c]: page numbers of the dirty map
  size,      \* size[c]: the page count on the page 1 of that map, when it holds one
  cache,     \* cache[c][p]: page_cache, NoPage when p is not cached
  left,      \* left[c]: pages the running loop of c has still to do
  ntx        \* flushes that got as far as the journal

disk == <<file, maybe, journal, ghost>>
conn == <<pc, hot, txLock, dirty, size, cache, left>>
vars == <<level, disk, conn, ntx>>

\* A journal: whether there is one (with its magic, so that it is hot when no
\* writer is alive), the page count before the transaction, the pre-images
\* recorded so far (NoPage: none) and whether it has been fsynced.
Journal == [live : BOOLEAN, count : 0 .. NPages, pre : [Page -> Content], synced : BOOLEAN]

NoPages == [p \in Page |-> NoPage]

NoJournal == [live |-> FALSE, count |-> 0, pre |-> NoPages, synced |-> FALSE]

Recorded(j) == {p \in Page : j.pre[p] # NoPage}

Count(f) == f[1].count

Init ==
  /\ LadderInit
  /\ file = [p \in Page |-> IF p <= InitPages THEN [tx |-> 0, count |-> InitPages] ELSE NoPage]
  /\ maybe = [p \in Page |-> {file[p]}]
  /\ journal = NoJournal /\ ghost = {}
  /\ pc = [c \in Conn |-> "closed"]
  /\ hot = [c \in Conn |-> FALSE]
  /\ txLock = [c \in Conn |-> Shared]
  /\ dirty = [c \in Conn |-> {}]
  /\ size = [c \in Conn |-> 0]
  /\ cache = [c \in Conn |-> NoPages]
  /\ left = [c \in Conn |-> {}]
  /\ ntx = 0

Goto(c, here, there) == pc[c] = here /\ pc' = [pc EXCEPT ![c] = there]

\* The next page of a loop over sorted page numbers.
NextOf(S, p) == p \in S /\ \A q \in S : p <= q

-----------------------------------------------------------------------------
(* The file system.                                                        *)

write_page(p, content) ==
  /\ file' = [file EXCEPT ![p] = content]
  /\ maybe' = [maybe EXCEPT ![p] = @ \cup {content}]

sync_main == maybe' = [p \in Page |-> {file[p]}]

delete_journal ==
  /\ journal' = NoJournal
  /\ ghost' = IF DurableUnlink THEN {} ELSE ghost \cup {journal}

-----------------------------------------------------------------------------
(* Pager::open.  The journal is probed first, the SHARED lock comes after.  *)

ProbeJournal(c) ==
  /\ Goto(c, "closed", "probed")
  /\ hot' = [hot EXCEPT ![c] = journal.live]
  /\ UNCHANGED <<level, disk, txLock, dirty, size, cache, left, ntx>>

\* An open that fails drops the lock guard and with it every lock.
Dropped(c) ==
  /\ pc' = [pc EXCEPT ![c] = "closed"]
  /\ level' = [level EXCEPT ![c] = Unlocked]
  /\ hot' = [hot EXCEPT ![c] = FALSE]
  /\ txLock' = [txLock EXCEPT ![c] = Shared]
  /\ dirty' = [dirty EXCEPT ![c] = {}]
  /\ size' = [size EXCEPT ![c] = 0]
  /\ cache' = [cache EXCEPT ![c] = NoPages]
  /\ left' = [left EXCEPT ![c] = {}]
  /\ UNCHANGED <<disk, ntx>>

\* An open that never looks at what it probed.
lock_shared_IgnoresHot(c) ==
  /\ Rise(c)
  /\ Goto(c, "probed", "ready")
  /\ UNCHANGED <<disk, hot, txLock, dirty, size, cache, left, ntx>>

lock_shared(c) ==
  /\ Rise(c)
  /\ Goto(c, "probed", IF hot[c] THEN "check" ELSE "ready")
  /\ UNCHANGED <<disk, hot, txLock, dirty, size, cache, left, ntx>>

lock_shared_refused(c) == pc[c] = "probed" /\ Refused(c) /\ Dropped(c)

check_reserved(c) ==
  /\ pc[c] = "check"
  /\ IF \E d \in Others(c) : level[d] >= Reserved
       THEN Dropped(c)
       ELSE /\ pc' = [pc EXCEPT ![c] = "recover"]
            /\ UNCHANGED <<level, disk, hot, txLock, dirty, size, cache, left, ntx>>

\* recover_hot_journal reads the whole journal under EXCLUSIVE; another open may
\* have rolled it back, or its writer finished, since the probe.
ReadJournal(c) ==
  /\ pc[c] = "recover" /\ level[c] = Exclusive
  /\ IF ~journal.live
       THEN Dropped(c)
       ELSE /\ pc' = [pc EXCEPT ![c] = "replay"]
            /\ left' = [left EXCEPT ![c] = Recorded(journal)]
            /\ UNCHANGED <<level, disk, hot, txLock, dirty, size, cache, ntx>>

\* Recovery's loop body: one checksum-valid record is written back.
recover(c) ==
  /\ pc[c] = "replay"
  /\ \E p \in left[c] :
       /\ NextOf(left[c], p)
       /\ write_page(p, journal.pre[p])
       /\ left' = [left EXCEPT ![c] = @ \ {p}]
  /\ UNCHANGED <<level, journal, ghost, pc, hot, txLock, dirty, size, cache, ntx>>

Truncate(c) ==
  /\ left[c] = {}
  /\ Goto(c, "replay", "recsync")
  /\ file' = [p \in Page |-> IF p <= journal.count THEN file[p] ELSE NoPage]
  /\ maybe' = [p \in Page |-> maybe[p] \cup {file'[p]}]
  /\ UNCHANGED <<level, journal, ghost, hot, txLock, dirty, size, cache, left, ntx>>

SyncRecovered(c) ==
  /\ Goto(c, "recsync", "recdone")
  /\ sync_main
  /\ UNCHANGED <<level, file, journal, ghost, hot, txLock, dirty, size, cache, left, ntx>>

DeleteRecovered(c) ==
  /\ Goto(c, "recdone", "ready")
  /\ delete_journal
  /\ level' = [level EXCEPT ![c] = Shared]
  /\ hot' = [hot EXCEPT ![c] = FALSE]
  /\ UNCHANGED <<file, maybe, txLock, dirty, size, cache, left, ntx>>

-----------------------------------------------------------------------------
(* A transaction: reads, writes to the dirty map, BEGIN and ROLLBACK.       *)

\* PageSource::read_page on a page that is neither dirty nor cached.
read_page(c, p) ==
  /\ pc[c] = "ready"
  /\ p \notin dirty[c] /\ cache[c][p] = NoPage /\ file[p] # NoPage
  /\ cache' = [cache EXCEPT ![c][p] = file[p]]
  /\ UNCHANGED <<level, disk, pc, hot, txLock, dirty, size, left, ntx>>

\* The page count this connection reads on page 1.
PageCount(c) == IF 1 \in dirty[c] THEN size[c] ELSE Count(file)

\* A write that leaves the old page in the cache.
get_page_mut_KeepsCache(c, p) ==
  /\ pc[c] = "ready" /\ ntx < MaxTx
  /\ p <= PageCount(c) /\ p \notin dirty[c]
  /\ dirty' = [dirty EXCEPT ![c] = @ \cup {p}]
  /\ size' = [size EXCEPT ![c] = PageCount(c)]
  /\ UNCHANGED <<level, disk, pc, hot, txLock, cache, left, ntx>>

get_page_mut(c, p) ==
  /\ pc[c] = "ready" /\ ntx < MaxTx
  /\ p <= PageCount(c) /\ p \notin dirty[c]
  /\ cache' = [cache EXCEPT ![c][p] = NoPage]
  /\ dirty' = [dirty EXCEPT ![c] = @ \cup {p}]
  /\ size' = [size EXCEPT ![c] = PageCount(c)]
  /\ UNCHANGED <<level, disk, pc, hot, txLock, left, ntx>>

\* allocate_page with an empty freelist: a new last page, and page 1 rewritten.
allocate_page(c) ==
  /\ pc[c] = "ready" /\ ntx < MaxTx
  /\ PageCount(c) < NPages
  /\ dirty' = [dirty EXCEPT ![c] = @ \cup {1, PageCount(c) + 1}]
  /\ size' = [size EXCEPT ![c] = PageCount(c) + 1]
  /\ cache' = [cache EXCEPT ![c][1] = NoPage]
  /\ UNCHANGED <<level, disk, pc, hot, txLock, left, ntx>>

\* set_level(Reserved): one rung up from SHARED, or down from where an earlier
\* refused climb stopped.  Refused: the error is returned, nothing changes.
begin_immediate(c) ==
  /\ pc[c] = "ready"
  /\ IF level[c] > Reserved THEN Fall(c, Reserved)
     ELSE IF level[c] = Reserved THEN UNCHANGED level
     ELSE Rise(c)
  /\ txLock' = [txLock EXCEPT ![c] = Reserved]
  /\ UNCHANGED <<disk, pc, hot, dirty, size, cache, left, ntx>>

begin_exclusive(c) ==
  /\ Goto(c, "ready", "begin")
  /\ UNCHANGED <<level, disk, hot, txLock, dirty, size, cache, left, ntx>>

begin_exclusive_done(c) ==
  /\ level[c] = Exclusive
  /\ Goto(c, "begin", "ready")
  /\ txLock' = [txLock EXCEPT ![c] = Exclusive]
  /\ UNCHANGED <<level, disk, hot, dirty, size, cache, left, ntx>>

\* One rung of set_level(Exclusive), for begin_exclusive, flush or recovery.
Climb(c) ==
  /\ pc[c] \in {"begin", "flush", "recover"} /\ level[c] < Exclusive
  /\ Rise(c)
  /\ UNCHANGED <<disk, conn, ntx>>

\* A climb that waits for the lock instead of returning the error.
ClimbRefused_Waits(c) ==
  /\ pc[c] \in {"begin", "flush", "recover"} /\ level[c] < Exclusive
  /\ Refused(c)
  /\ UNCHANGED vars

\* A refused rung returns the error with `?`: the rungs already climbed stay
\* held, unless the failing call is open, whose guard is dropped.  PENDING is
\* only refused while another open's lock_shared is probing that byte.
ClimbRefused(c) ==
  /\ pc[c] \in {"begin", "flush", "recover"} /\ level[c] < Exclusive
  /\ Refused(c)
  /\ level[c] = Reserved => \E d \in Others(c) : pc[d] = "probed"
  /\ IF pc[c] = "recover"
       THEN Dropped(c)
       ELSE /\ pc' = [pc EXCEPT ![c] = "ready"]
            /\ UNCHANGED <<level, disk, hot, txLock, dirty, size, cache, left, ntx>>

release_tx_lock(c) ==
  IF txLock[c] > Shared
    THEN /\ level' = [level EXCEPT ![c] = Shared]
         /\ txLock' = [txLock EXCEPT ![c] = Shared]
    ELSE UNCHANGED <<level, txLock>>

rollback(c) ==
  /\ pc[c] = "ready"
  /\ dirty' = [dirty EXCEPT ![c] = {}]
  /\ size' = [size EXCEPT ![c] = 0]
  /\ release_tx_lock(c)
  /\ UNCHANGED <<disk, pc, hot, cache, left, ntx>>

Close(c) == pc[c] = "ready" /\ Dropped(c)

-----------------------------------------------------------------------------
(* Pager::flush.                                                           *)

\* A COMMIT with nothing to write only gives back what BEGIN locked.
flush_clean(c) ==
  /\ pc[c] = "ready" /\ dirty[c] = {}
  /\ release_tx_lock(c)
  /\ UNCHANGED <<disk, pc, hot, dirty, size, cache, left, ntx>>

flush(c) ==
  /\ dirty[c] # {} /\ ntx < MaxTx
  /\ Goto(c, "ready", "flush")
  /\ UNCHANGED <<level, disk, hot, txLock, dirty, size, cache, left, ntx>>

\* The pre-images flush_locked records: of the dirty pages that exist on disk.
\* There is at least one: a transaction that only appends also rewrites page 1.
ToJournal(c) == {p \in dirty[c] : p <= Count(file)}

\* JournalWriter::create: the header (with a fresh nonce, so that records of a
\* stale journal no longer check) over whatever journal there is.
JournalCreate(c) ==
  /\ level[c] = Exclusive /\ ntx < MaxTx
  /\ Goto(c, "flush", "journal")
  /\ journal' = [live |-> TRUE, count |-> Count(file), pre |-> NoPages, synced |-> FALSE]
  /\ left' = [left EXCEPT ![c] = ToJournal(c)]
  /\ ntx' = ntx + 1
  /\ UNCHANGED <<level, file, maybe, ghost, hot, txLock, dirty, size, cache>>

write_record(c) ==
  /\ pc[c] = "journal"
  /\ \E p \in left[c] :
       /\ NextOf(left[c], p)
       /\ journal' = [journal EXCEPT !.pre[p] = file[p]]
       /\ left' = [left EXCEPT ![c] = @ \ {p}]
  /\ UNCHANGED <<level, file, maybe, ghost, pc, hot, txLock, dirty, size, cache, ntx>>

\* A commit that never fsyncs its journal.
JournalSync_Never(c) ==
  /\ left[c] = {}
  /\ Goto(c, "journal", "pages")
  /\ left' = [left EXCEPT ![c] = dirty[c]]
  /\ UNCHANGED <<level, file, maybe, journal, ghost, hot, txLock, dirty, size, cache, ntx>>

\* The journal is on disk before any page it protects is written.
JournalSync(c) ==
  /\ left[c] = {}
  /\ Goto(c, "journal", "pages")
  /\ journal' = [journal EXCEPT !.synced = Sync # "off"]
  /\ left' = [left EXCEPT ![c] = dirty[c]]
  /\ UNCHANGED <<level, file, maybe, ghost, hot, txLock, dirty, size, cache, ntx>>

write_dirty(c) ==
  /\ pc[c] = "pages"
  /\ \E p \in left[c] :
       /\ NextOf(left[c], p)
       /\ write_page(p, [tx |-> ntx, count |-> PageCount(c)])
       /\ left' = [left EXCEPT ![c] = @ \ {p}]
  /\ UNCHANGED <<level, journal, ghost, pc, hot, txLock, dirty, size, cache, ntx>>

\* A commit that never fsyncs the main file, whatever PRAGMA synchronous says.
MainSync_Never(c) ==
  /\ left[c] = {}
  /\ Goto(c, "pages", "unlink")
  /\ UNCHANGED <<level, file, maybe, journal, ghost, hot, txLock, dirty, size, cache, left, ntx>>

MainSync(c) ==
  /\ left[c] = {}
  /\ Goto(c, "pages", "unlink")
  /\ IF Sync = "full" THEN sync_main ELSE UNCHANGED maybe
  /\ UNCHANGED <<level, file, journal, ghost, hot, txLock, dirty, size, cache, left, ntx>>

\* The end of flush: the journal is deleted, which commits; the dirty map is
\* emptied and the ladder goes back to SHARED.
DeleteJournal(c) ==
  /\ Goto(c, "unlink", "ready")
  /\ delete_journal
  /\ dirty' = [dirty EXCEPT ![c] = {}]
  /\ size' = [size EXCEPT ![c] = 0]
  /\ level' = [level EXCEPT ![c] = Shared]
  /\ txLock' = [txLock EXCEPT ![c] = Shared]
  /\ UNCHANGED <<file, maybe, hot, cache, left, ntx>>

\* A file operation of flush_locked fails: the error is returned, the ladder
\* goes back to SHARED, and the dirty map and the journal stay as they are.
FlushFails(c) ==
  /\ IOErrors
  /\ pc[c] \in {"journal", "pages", "unlink"} \/ (pc[c] = "flush" /\ level[c] = Exclusive)
  /\ pc' = [pc EXCEPT ![c] = "ready"]
  /\ level' = [level EXCEPT ![c] = Shared]
  /\ txLock' = [txLock EXCEPT ![c] = Shared]
  /\ left' = [left EXCEPT ![c] = {}]
  /\ UNCHANGED <<disk, hot, dirty, size, cache, ntx>>

-----------------------------------------------------------------------------
(* Failures of a process and of the machine.                               *)

\* The process of c dies anywhere; the kernel drops its locks.
Crash(c) ==
  /\ pc[c] # "closed"
  /\ CrashInOpen \/ \A d \in Others(c) : pc[d] # "probed"
  /\ Dropped(c)

\* What a power loss leaves of a journal: all of it when it was fsynced,
\* otherwise the records of a prefix, or not even a header.
Survivors(j) ==
  IF j.synced THEN {j}
  ELSE {NoJournal} \cup {[j EXCEPT !.pre = [p \in Page |-> IF p <= k THEN j.pre[p] ELSE NoPage]]
                            : k \in 0 .. NPages}

\* Every process dies; the file keeps any mixture of the writes since its last
\* sync, and a journal whose unlink had not reached the disk is back.
PowerLoss ==
  /\ \E c \in Conn : pc[c] # "closed"
  /\ file' \in {f \in [Page -> UNION {maybe[p] : p \in Page}] : \A p \in Page : f[p] \in maybe[p]}
  /\ maybe' = [p \in Page |-> {file'[p]}]
  /\ journal' \in IF journal.live THEN Survivors(journal) ELSE {NoJournal} \cup ghost
  /\ ghost' = {}
  /\ level' = [c \in Conn |-> Unlocked]
  /\ pc' = [c \in Conn |-> "closed"]
  /\ hot' = [c \in Conn |-> FALSE]
  /\ txLock' = [c \in Conn |-> Shared]
  /\ dirty' = [c \in Conn |-> {}]
  /\ size' = [c \in Conn |-> 0]
  /\ cache' = [c \in Conn |-> NoPages]
  /\ left' = [c \in Conn |-> {}]
  /\ UNCHANGED ntx

-----------------------------------------------------------------------------
\* What a connection does once an operation has begun.
Advance(c) ==
  \/ lock_shared(c) \/ lock_shared_refused(c) \/ check_reserved(c)
  \/ ReadJournal(c) \/ recover(c) \/ Truncate(c) \/ SyncRecovered(c) \/ DeleteRecovered(c)
  \/ Climb(c) \/ ClimbRefused(c) \/ begin_exclusive_done(c)
  \/ JournalCreate(c) \/ write_record(c) \/ JournalSync(c)
  \/ write_dirty(c) \/ MainSync(c) \/ DeleteJournal(c)

\* What the layer above may ask for next.
Request(c) ==
  \/ ProbeJournal(c) \/ Close(c)
  \/ \E p \in Page : read_page(c, p) \/ get_page_mut(c, p)
  \/ allocate_page(c)
  \/ begin_immediate(c) \/ begin_exclusive(c)
  \/ flush_clean(c) \/ flush(c) \/ rollback(c)

Next == (\E c \in Conn : Advance(c) \/ Request(c) \/ FlushFails(c) \/ Crash(c)) \/ PowerLoss

Spec == Init /\ [][Next]_vars

\* An operation that has begun runs on: no call of the pager blocks, so the
\* operating system's scheduling of its thread is all this asks for.
FairSpec == Spec /\ \A c \in Conn : WF_vars(Advance(c))

-----------------------------------------------------------------------------
(* Properties.                                                             *)

Busy == {"probed", "check", "recover", "replay", "recsync", "recdone",
         "begin", "flush", "journal", "pages", "unlink"}

\* The pager's state: every variable keeps its type, whatever crashes.
TypeOK ==
  /\ LadderTypeOK
  /\ file \in [Page -> Content]
  /\ maybe \in [Page -> SUBSET Content]
  /\ journal \in Journal /\ ghost \subseteq Journal
  /\ pc \in [Conn -> Busy \cup {"closed", "ready"}]
  /\ hot \in [Conn -> BOOLEAN]
  /\ txLock \in [Conn -> LockLevel]
  /\ dirty \in [Conn -> SUBSET Page]
  /\ size \in [Conn -> 0 .. NPages]
  /\ cache \in [Conn -> [Page -> Content]]
  /\ left \in [Conn -> SUBSET Page]
  /\ ntx \in 0 .. MaxTx

\* The database as an open that honours a hot journal would find it.
Restored(p) == IF journal.live /\ p \in Recorded(journal) THEN journal.pre[p] ELSE file[p]
RestoredCount == IF journal.live THEN journal.count ELSE Count(file)
Committed == [p \in 1 .. RestoredCount |-> Restored(p).tx]

\* The database as a connection that reads the main file finds it.
OnDisk == [p \in 1 .. Count(file) |-> file[p].tx]

Store == INSTANCE AtomicStore WITH db <- Committed

\* A flush is all or nothing and stays (Pager::flush, recover_hot_journal):
\* through crashes and power losses between any two file operations, those of
\* recovery included, what recovery restores changes only by whole transactions,
\* at the moment the journal is deleted.
AtomicDurable == Store!AtomicSpec

\* A hot journal is never ignored (Pager's doc comment): a connection that is
\* open and has nothing of its own to show finds the committed database in the
\* main file, never pages that still have to be rolled back.
ReadersSeeCommitted ==
  \A c \in Conn : (pc[c] = "ready" /\ dirty[c] = {}) => OnDisk = Committed

\* A database is never cut short (SynchronousMode, recover_hot_journal's
\* truncate): whatever a crash interrupts, every page that the header of the
\* recovered database counts is in the file or in the journal.
NoMissingPage == \A p \in DOMAIN Committed : Restored(p) # NoPage

\* page_cache is never stale and never holds a dirty page (get_page_mut's
\* invalidate): the SHARED lock kept for life stops everyone else from writing.
CacheCoherent ==
  \A c \in Conn, p \in Page : cache[c][p] # NoPage => cache[c][p] = file[p] /\ p \notin dirty[c]

\* Every pager call returns: it ends in success, in an error, or with the
\* process; neither a refused lock nor a vanished journal makes it wait.
CallsReturn == \A c \in Conn : (pc[c] \in Busy) ~> (pc[c] \in {"closed", "ready"})

\* ROLLBACK gives back every lock that BEGIN took (Pager::rollback).
RollbackReleases == [][\A c \in Conn : rollback(c) => level'[c] = Shared]_vars
=============================================================================
