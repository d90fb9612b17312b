----------------------------- MODULE ModeSwitch -----------------------------
(***************************************************************************)
(* Pager::set_journal_mode (pager/mod.rs): a pager that changes between    *)
(* the rollback journal and the write-ahead log, commits in either mode,   *)
(* and recreates a log that has vanished; its process may die between any  *)
(* two file operations, and a file operation of the switch may fail, which *)
(* returns to the caller with what was done so far.  A reader in another   *)
(* process may hold a mark, and a stock SQLite connection may close, which *)
(* copies the log into the main file and deletes -wal and -shm (#422).     *)
(*                                                                         *)
(* What a commit does to the files of its own mode is the subject of       *)
(* RollbackPager and WalPager, and is one step here: a rollback commit is  *)
(* atomic, and a log ends in a whole transaction.  The resume hint is left *)
(* out: it is used only against the very header it was taken from, and     *)
(* WalPager checks that it then says what a scan would say.  No            *)
(* transaction holds more than SHARED when the mode changes.               *)
(***************************************************************************)
EXTENDS Naturals, Sequences, FiniteSets, FiniteSetsExt

CONSTANTS
  NPages,     \* pages of the database
  MaxTx,      \* bound: transactions that commit
  MaxFaults,  \* bound: deaths of the pager's process, and file operations that fail
  UnderPager, \* may a stock connection delete the log under an open pager?
  OtherReader \* may another process open the database to read?

ASSUME ModeConstants ==
  /\ NPages \in Nat \ {0} /\ MaxTx \in Nat /\ MaxFaults \in Nat
  /\ {UnderPager, OtherReader} \subseteq BOOLEAN

Page == 1 .. NPages
\* Generations of -shm: the one at the path, one held open by the pager's
\* process and one held open by the reader may all differ.
Inode == 1 .. 3

VARIABLES
  \* The files, and the pager's process.
  file,      \* file[p]: page p of the main file
  wal,       \* << >> without a -wal file, otherwise <<its frames>>
  path,      \* the inode of -shm, 0 when there is none
  inode,     \* inode[i]: mxFrame and nBackfill in inode i, deleted or not
  step,      \* what the pager does next
  mode,      \* journal_mode
  held,      \* which of wal_lock and wal_shm it holds
  fd,        \* the inode of -shm that they have open, 0 without them
  wal_pages, \* the overlay of pages from the log
  cached,    \* the page cache
  dirty,     \* the pages of its open transaction
  safe,      \* the frames a checkpoint pass may copy
  todo,      \* the pages it still has to copy
  \* The other process, and what has happened.
  reader,    \* << >>, or <<the other process's reader>>
  committed, \* committed[p]: the transaction whose page p was committed last
  tx,        \* transactions committed
  faults,    \* deaths of the pager's process, and file operations that failed
  misnamed   \* has a write of the mode into page 1 failed?

memory == <<wal_pages, cached, dirty>>
pass   == <<safe, todo>>
others == <<reader, committed, tx, faults, misnamed>>
modes  == <<file, wal, path, inode, step, mode, held, fd, memory, pass, others>>

\* A page is the transaction that wrote it; page 1 also names the mode
\* (the version bytes at offset 18).
Content == [tx : Nat, ver : {"legacy", "wal", "none"}]
Frame   == [page : Page, content : Content]
Frames  == IF wal = << >> THEN << >> ELSE wal[1]

\* Contents of some of the pages: the dirty map, the overlay, the cache.
SomePages(f) == DOMAIN f \subseteq Page /\ \A p \in DOMAIN f : f[p] \in Content
Over(f, g)  == [p \in DOMAIN f \cup DOMAIN g |-> IF p \in DOMAIN f THEN f[p] ELSE g[p]]
NotIn(f, p) == [q \in DOMAIN f \ {p} |-> f[q]]
None        == [p \in {} |-> 0]

\* What set_journal_mode does next on its way to WAL mode and back, and what
\* flush does next in WAL mode.
ToWal     == {"fresh shm", "say wal"}
ToJournal == {"pass", "copy", "delete wal", "delete shm", "say legacy"}
Logging   == {"recreate shm", "append", "publish"}
Steps     == {"closed", "idle"} \cup ToWal \cup ToJournal \cup Logging
\* The steps of a mode switch, and of recreating the log, before page 1's turn.
Fallible  == {"fresh shm", "recreate shm", "pass", "copy", "delete wal", "delete shm"}

\* The files, the pager and the reader are what their declarations say; the
\* process has -shm open exactly as long as wal_lock or wal_shm needs it.
ModeTypeOK ==
  /\ file \in [Page -> Content] /\ committed \in [Page -> Nat]
  /\ wal = << >> \/ (wal \in Seq(Seq(Frame)) /\ Len(wal) = 1)
  /\ path \in {0} \cup Inode /\ inode \in [Inode -> [mx : Nat, backfill : Nat]]
  /\ step \in Steps /\ mode \in {"legacy", "wal"}
  /\ held \subseteq {"wal_lock", "wal_shm"} /\ fd \in {0} \cup Inode /\ (fd = 0) = (held = {})
  /\ SomePages(wal_pages) /\ SomePages(cached) /\ SomePages(dirty)
  /\ safe \in Nat /\ todo \subseteq Page
  /\ \A i \in DOMAIN reader : i = 1 /\ reader[i].fd \in {0} \cup Inode /\ reader[i].mark \in Nat
  /\ tx \in Nat /\ faults \in Nat /\ misnamed \in BOOLEAN

-----------------------------------------------------------------------------
\* The pages of the first n frames, each with the content of its last frame.
FramesOf(p, n) == {i \in DOMAIN Frames : i <= n /\ Frames[i].page = p}
committed_pages(n) ==
  [p \in {q \in Page : FramesOf(q, n) # {}} |-> Frames[Max(FramesOf(p, n))].content]
read_wal_pages == committed_pages(Len(Frames))

\* The -shm file of a process: the one descriptor it still holds for the path,
\* whatever file the path names by now.
open_shm_shared == IF fd # 0 THEN fd ELSE path

\* wal_lock and wal_shm afterwards; the last of them closes the descriptor.
Hold(h, i) == held' = h /\ fd' = IF h = {} THEN 0 ELSE i

\* create_or_open_write keeps the file at the path, or makes one.  Its bytes
\* become fresh_shm_bytes: a reader's mark becomes READ_MARK_UNUSED there, which
\* bounds a checkpoint no more than 0 does.
ShmToWrite == IF path # 0 THEN path
              ELSE Min(Inode \ ({fd} \cup {reader[i].fd : i \in DOMAIN reader}))
fresh_shm_bytes == [mx |-> 0, backfill |-> 0]
WriteFreshShm ==
  /\ path' = ShmToWrite
  /\ inode' = [inode EXCEPT ![ShmToWrite] = fresh_shm_bytes]
  /\ reader' = [i \in DOMAIN reader |->
                  IF reader[i].fd = ShmToWrite THEN [reader[i] EXCEPT !.mark = 0] ELSE reader[i]]

\* Pager::read_page.
read_page(p) == CASE p \in DOMAIN dirty                               -> dirty[p]
                  [] p \in DOMAIN wal_pages \ DOMAIN dirty            -> wal_pages[p]
                  [] p \in DOMAIN cached \ (DOMAIN wal_pages \cup DOMAIN dirty) -> cached[p]
                  [] OTHER                                            -> file[p]

-----------------------------------------------------------------------------
Open ==
  /\ step = "closed" /\ step' = "idle"
  /\ Hold(IF path = 0 THEN {} ELSE {"wal_lock"}, path)
  /\ wal_pages' = read_wal_pages
  /\ mode' = file[1].ver
  /\ UNCHANGED <<file, wal, path, inode, cached, dirty, pass, others>>

\* Pager::read_page of a page that only the main file has.
Read(p) ==
  /\ step = "idle" /\ p \notin UNION {DOMAIN dirty, DOMAIN wal_pages, DOMAIN cached}
  /\ cached' = Over([q \in {p} |-> file[p]], cached)
  /\ UNCHANGED <<file, wal, path, inode, step, mode, held, fd, wal_pages, dirty, pass, others>>

get_page_mut(p) ==
  /\ step = "idle" /\ tx < MaxTx /\ p \notin DOMAIN dirty
  /\ cached' = NotIn(cached, p)
  /\ LET old == IF p \in DOMAIN wal_pages THEN wal_pages[p] ELSE file[p]
     IN  dirty' = Over([q \in {p} |-> [old EXCEPT !.tx = tx + 1]], dirty)
  /\ UNCHANGED <<file, wal, path, inode, step, mode, held, fd, wal_pages, pass, others>>

rollback ==
  /\ step = "idle" /\ DOMAIN dirty # {}
  /\ dirty' = None
  /\ UNCHANGED <<file, wal, path, inode, step, mode, held, fd, wal_pages, cached, pass, others>>

Committing ==
  /\ tx' = tx + 1
  /\ committed' = [p \in Page |-> IF p \in DOMAIN dirty THEN tx + 1 ELSE committed[p]]
  /\ UNCHANGED <<reader, faults, misnamed>>

\* flush in rollback-journal mode: EXCLUSIVE is refused while a reader is open.
flush_locked ==
  /\ step = "idle" /\ DOMAIN dirty # {} /\ mode = "legacy" /\ reader = << >>
  /\ file' = [p \in Page |-> IF p \in DOMAIN dirty THEN dirty[p] ELSE file[p]]
  /\ dirty' = None
  /\ Committing
  /\ UNCHANGED <<wal, path, inode, step, mode, held, fd, wal_pages, cached, pass>>

\* flush in WAL mode: opens -shm unless it is cached, then the log, or creates
\* one when it has vanished.
flush_wal_locked ==
  /\ step = "idle" /\ DOMAIN dirty # {} /\ mode = "wal"
  /\ IF path = 0 THEN UNCHANGED <<held, fd>>
                 ELSE Hold(held \cup {"wal_shm"}, open_shm_shared)
  /\ \/ wal # << >> /\ step' = "append" /\ UNCHANGED wal
     \/ wal = << >> /\ step' = "recreate shm" /\ wal' = << << >> >>
  /\ UNCHANGED <<file, path, inode, mode, memory, pass, others>>

\* recreate_wal_locked, after WalWriter::create.
recreate_wal_locked ==
  /\ step = "recreate shm" /\ step' = "append"
  /\ WriteFreshShm
  /\ Hold(held \cup {"wal_shm"}, IF fd # 0 THEN fd ELSE ShmToWrite)
  /\ UNCHANGED <<file, wal, mode, memory, pass, committed, tx, faults, misnamed>>

\* WalWriter::append_frame for every dirty page in ascending order, and sync.
append_frames ==
  /\ step = "append" /\ step' = "publish"
  /\ \E pages \in [1 .. Cardinality(DOMAIN dirty) -> DOMAIN dirty] :
       /\ \A i, j \in DOMAIN pages : i < j => pages[i] < pages[j]
       /\ wal' = <<wal[1] \o [i \in 1 .. Cardinality(DOMAIN dirty) |->
                                [page |-> pages[i], content |-> dirty[pages[i]]]]>>
  /\ Committing
  /\ UNCHANGED <<file, path, inode, mode, held, fd, memory, pass>>

\* publish_mx_frame that leaves the overlay as it was.
publish_mx_frame_NoOverlay ==
  /\ step = "publish" /\ step' = "idle"
  /\ inode' = IF "wal_shm" \in held THEN [inode EXCEPT ![fd].mx = Len(Frames)] ELSE inode
  /\ dirty' = None
  /\ UNCHANGED <<file, wal, path, mode, held, fd, wal_pages, cached, pass, others>>

\* Without wal_shm there is no -shm file to publish in.
publish_mx_frame ==
  /\ step = "publish" /\ step' = "idle"
  /\ inode' = IF "wal_shm" \in held THEN [inode EXCEPT ![fd].mx = Len(Frames)] ELSE inode
  /\ wal_pages' = Over(dirty, wal_pages) /\ dirty' = None
  /\ UNCHANGED <<file, wal, path, mode, held, fd, cached, pass, others>>

-----------------------------------------------------------------------------
\* set_journal_mode, in either direction, refuses a pending transaction.
MaySwitch(m) == step = "idle" /\ DOMAIN dirty = {} /\ mode # m

\* switch_journal_to_wal: the log first, then -shm.
switch_journal_to_wal ==
  /\ MaySwitch("wal") /\ step' = "fresh shm"
  /\ wal' = << << >> >>
  /\ UNCHANGED <<file, path, inode, mode, held, fd, memory, pass, others>>

write_fresh_shm ==
  /\ step = "fresh shm" /\ step' = "say wal"
  /\ WriteFreshShm
  /\ Hold(held \ {"wal_shm"}, fd)
  /\ UNCHANGED <<file, wal, mode, memory, pass, committed, tx, faults, misnamed>>

\* switch_wal_to_journal gives up its own mark, then makes passes.
switch_wal_to_journal ==
  /\ MaySwitch("legacy") /\ step' = "pass"
  /\ Hold(held \ {"wal_lock"}, fd)
  /\ UNCHANGED <<file, wal, path, inode, mode, memory, pass, others>>

\* What a pass of checkpoint_passive may copy: the marks it sees are those
\* locked by other processes on the file this process has open, except 0.
MarksSeen == {i \in DOMAIN reader : path # 0 /\ reader[i].fd = open_shm_shared}
SafeFrame == Min({Len(Frames)} \cup ({reader[i].mark : i \in MarksSeen} \ {0}))
AlreadyBackfilled == IF path = 0 THEN 0 ELSE inode[open_shm_shared].backfill

\* A pass that can copy frames reads the latest content of each page.
begin_pass ==
  /\ step = "pass" /\ step' = "copy"
  /\ Frames # << >> /\ SafeFrame > AlreadyBackfilled
  /\ safe' = SafeFrame /\ todo' = DOMAIN committed_pages(SafeFrame)
  /\ UNCHANGED <<file, wal, path, inode, mode, held, fd, memory, others>>

copy_page ==
  /\ step = "copy"
  /\ \E p \in todo : /\ \A q \in todo : p <= q
                     /\ file' = [file EXCEPT ![p] = committed_pages(safe)[p]]
                     /\ todo' = todo \ {p}
  /\ UNCHANGED <<wal, path, inode, step, mode, held, fd, memory, safe, others>>

publish_backfill ==
  /\ step = "copy" /\ todo = {}
  /\ inode' = IF path = 0 THEN inode ELSE [inode EXCEPT ![open_shm_shared].backfill = safe]
  /\ step' = IF safe = Len(Frames) THEN "delete wal" ELSE "pass"
  /\ UNCHANGED <<file, wal, path, mode, held, fd, memory, pass, others>>

\* end_pass that takes a pass without progress for a complete one.
end_pass_Any ==
  /\ step = "pass" /\ (Frames = << >> \/ SafeFrame <= AlreadyBackfilled)
  /\ step' = "delete wal"
  /\ UNCHANGED <<file, wal, path, inode, mode, held, fd, memory, pass, others>>

\* A pass with nothing to copy is complete, or the last of MAX_PASSES.
end_pass ==
  /\ step = "pass" /\ (Frames = << >> \/ SafeFrame <= AlreadyBackfilled)
  /\ step' = IF Frames = << >> \/ AlreadyBackfilled = Len(Frames) THEN "delete wal" ELSE "idle"
  /\ UNCHANGED <<file, wal, path, inode, mode, held, fd, memory, pass, others>>

delete_wal ==
  /\ step = "delete wal" /\ step' = "delete shm"
  /\ wal' = << >>
  /\ UNCHANGED <<file, path, inode, mode, held, fd, memory, pass, others>>

delete_shm ==
  /\ step = "delete shm" /\ step' = "say legacy"
  /\ path' = 0
  /\ Hold(held \ {"wal_shm"}, fd)
  /\ wal_pages' = None
  /\ UNCHANGED <<file, wal, inode, mode, cached, dirty, pass, others>>

\* patch_page1 that keeps page 1 in the cache.
patch_page1_Cached(m) ==
  /\ step = (IF m = "wal" THEN "say wal" ELSE "say legacy") /\ step' = "idle"
  /\ file' = [file EXCEPT ![1].ver = m]
  /\ mode' = m
  /\ UNCHANGED <<wal, path, inode, held, fd, memory, pass, others>>

\* The end of set_journal_mode: journal_mode is assigned, and then page 1, read
\* afresh, gets its version bytes.
patch_page1(m) ==
  /\ step = (IF m = "wal" THEN "say wal" ELSE "say legacy") /\ step' = "idle"
  /\ file' = [file EXCEPT ![1].ver = m]
  /\ mode' = m
  /\ cached' = NotIn(cached, 1)
  /\ UNCHANGED <<wal, path, inode, held, fd, wal_pages, dirty, pass, others>>

-----------------------------------------------------------------------------
(* File operations that fail: the call returns the error to its caller, and *)
(* what it had done before stays done.                                      *)

Fault == faults < MaxFaults /\ faults' = faults + 1

\* An operation of switch_journal_to_wal, switch_wal_to_journal or
\* recreate_wal_locked: when the sync of a fresh -shm fails, its bytes are there.
\* Between the deletes of -wal and -shm this leaves an overlay without a log.
switch_fails ==
  /\ step \in Fallible /\ step' = "idle"
  /\ \/ UNCHANGED <<path, inode, reader>>
     \/ step \in {"fresh shm", "recreate shm"} /\ WriteFreshShm
  /\ Fault
  /\ UNCHANGED <<file, wal, mode, held, fd, memory, pass, committed, tx, misnamed>>

\* The read, the write or the sync of page 1: journal_mode stays assigned, and
\* the cached page 1 stays, whether its version bytes were written or not.
patch_page1_fails(m) ==
  /\ step = (IF m = "wal" THEN "say wal" ELSE "say legacy") /\ step' = "idle"
  /\ file' \in {file, [file EXCEPT ![1].ver = m]}
  /\ mode' = m
  /\ Fault /\ misnamed' = TRUE
  /\ UNCHANGED <<wal, path, inode, held, fd, memory, pass, reader, committed, tx>>

-----------------------------------------------------------------------------
\* Dropping the pager, and what is left of it when its process dies.
Forget ==
  /\ step' = "closed" /\ mode' = "legacy" /\ Hold({}, 0)
  /\ wal_pages' = None /\ cached' = None /\ dirty' = None /\ safe' = 0 /\ todo' = {}
  /\ UNCHANGED <<file, wal, path, inode, reader, committed, tx, misnamed>>

Close == step = "idle" /\ Forget /\ UNCHANGED faults

Die == step # "closed" /\ Forget /\ Fault

\* Pager::open in the other process, at any moment.
OpenReader ==
  /\ OtherReader /\ reader = << >>
  /\ reader' = <<[fd |-> path, mark |-> IF path = 0 THEN 0 ELSE inode[path].mx,
                  wal_pages |-> read_wal_pages, snapshot |-> committed]>>
  /\ UNCHANGED <<file, wal, path, inode, step, mode, held, fd, memory, pass, committed, tx, faults, misnamed>>

CloseReader ==
  /\ reader # << >> /\ reader' = << >>
  /\ UNCHANGED <<file, wal, path, inode, step, mode, held, fd, memory, pass, committed, tx, faults, misnamed>>

\* A stock connection copies the log and deletes -wal and -shm on close, when
\* it has the database to itself, and under an open pager as #422 reports.
StockClose ==
  /\ step = "closed" \/ (UnderPager /\ step = "idle")
  /\ reader = << >> /\ wal # << >> /\ path # 0
  /\ file' = [p \in Page |-> IF p \in DOMAIN read_wal_pages THEN read_wal_pages[p] ELSE file[p]]
  /\ inode' = [inode EXCEPT ![path].backfill = Len(Frames)]
  /\ wal' = << >> /\ path' = 0
  /\ UNCHANGED <<step, mode, held, fd, memory, pass, others>>

ModeInit ==
  /\ file = [p \in Page |-> [tx |-> 0, ver |-> IF p = 1 THEN "legacy" ELSE "none"]]
  /\ wal = << >> /\ path = 0 /\ inode = [i \in Inode |-> fresh_shm_bytes]
  /\ step = "closed" /\ mode = "legacy" /\ held = {} /\ fd = 0
  /\ wal_pages = None /\ cached = None /\ dirty = None /\ safe = 0 /\ todo = {}
  /\ reader = << >> /\ committed = [p \in Page |-> 0] /\ tx = 0
  /\ faults = 0 /\ misnamed = FALSE

ModeNext ==
  \/ Open \/ rollback \/ flush_locked \/ flush_wal_locked \/ recreate_wal_locked
  \/ append_frames \/ publish_mx_frame \/ switch_journal_to_wal \/ write_fresh_shm
  \/ switch_wal_to_journal \/ begin_pass \/ copy_page \/ publish_backfill \/ end_pass
  \/ delete_wal \/ delete_shm \/ switch_fails \/ Close \/ Die \/ OpenReader \/ CloseReader \/ StockClose
  \/ \E p \in Page : Read(p) \/ get_page_mut(p)
  \/ \E m \in {"legacy", "wal"} : patch_page1(m) \/ patch_page1_fails(m)

ModeSpec == ModeInit /\ [][ModeNext]_modes

-----------------------------------------------------------------------------
\* What a process that opens the database reads is what was committed last.
FilesSayCommitted == \A p \in Page : Over(read_wal_pages, file)[p].tx = committed[p]

\* Whatever call is under way or has failed, a process that opened the database
\* now would read what was committed last: no step of a mode switch (creating the
\* log, copying it, deleting it, patching page 1) leaves a committed page out of
\* both files, and no frame left in a log hides a later rollback commit.  This
\* ends when the write of page 1 fails: a pager in a mode that page 1 does not
\* name commits into a log that the next pager does not go on with.
CommittedKept == misnamed \/ FilesSayCommitted

\* Between calls, failed ones among them, the pager itself reads what was committed
\* last, or what its open transaction wrote, through wal_pages and the page cache:
\* neither survives a mode switch to hide what the main file says, and an overlay
\* left behind when -shm cannot be deleted says the same.
PagerReadsCommitted ==
  step = "idle" /\ ~misnamed => \A p \in Page \ DOMAIN dirty : read_page(p).tx = committed[p]

\* Between calls the pager is in the mode that page 1 names, both on disk and as it
\* reads it, unless the read, write or sync of page 1 in set_journal_mode has failed
\* after journal_mode was assigned: a CheckpointIncomplete, and an error of any
\* other step, leave the mode as it was, and page 1 written back by a later commit
\* cannot undo a switch.
ModeIsOnPage1 ==
  step = "idle" /\ ~misnamed => file[1].ver = mode /\ read_page(1).ver = mode

\* A pager changes its mode together with page 1: the version bytes are on disk when
\* set_journal_mode returns, also when it returns an error.
ModeAndPage1 == step = "idle" => file[1].ver = mode

\* switch_wal_to_journal copies every frame into the main file before it deletes
\* the log.
LogCopiedFirst ==
  step = "delete wal" => \A p \in DOMAIN read_wal_pages : file[p] = read_wal_pages[p]

\* The reader of the other process keeps reading what was committed when it
\* opened.
ReaderKeepsSnapshot ==
  \A i \in DOMAIN reader : \A p \in Page :
    Over(reader[i].wal_pages, file)[p].tx = reader[i].snapshot[p]
=============================================================================
