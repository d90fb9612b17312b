------------------------------ MODULE WalPager ------------------------------
(***************************************************************************)
(* Pager in WAL mode (pager/mod.rs, pager/wal.rs, pager/checkpoint.rs) and *)
(* the locks, marks and counters of the -shm file (vfs/shm.rs): opening at *)
(* a reader mark, commits that append frames to the -wal file, and PASSIVE *)
(* checkpoints that copy frames into the main file, by processes that may  *)
(* die and on a machine that may lose power.  The database stays in WAL    *)
(* mode: -wal and -shm exist throughout.                                   *)
(*                                                                         *)
(* A page's content is the number of the transaction that wrote it.  The   *)
(* checksum that chains a frame to all frames before it is abstracted to   *)
(* those frames themselves, so the file is a sequence of frames that       *)
(* verify, followed by a number of frames that do not.                     *)
(***************************************************************************)
EXTENDS Naturals, Sequences, FiniteSetsExt

CONSTANTS
  Conn,           \* pagers, each in a process of its own
  Writers,        \* those of them that may write; the others only read
  Checkpointer,   \* processes that call checkpoint_passive and have no pager
  NoProc,         \* no process
  NPages,         \* pages of the database
  NSlots,         \* reader slots of -shm (four in the code)
  MaxTx,          \* bound: transactions that get as far as writing frames
  Sync,           \* PRAGMA synchronous: "full", or "any" (set_synchronous may change it)
  WholeRuns,      \* does an interrupted write leave all frames of its run or none?
  PagersCheckpoint, \* may a process that has a pager call checkpoint_passive?
  EarlyCheckpoint, \* may a checkpoint read frames that are not synced yet?
  Immediate,      \* do transactions begin with BEGIN IMMEDIATE?
  PowerFails      \* may the machine lose power?

ASSUME WalConstants ==
  /\ NPages \in Nat \ {0} /\ NSlots \in Nat \ {0} /\ MaxTx \in Nat
  /\ NoProc \notin Conn \cup Checkpointer
  /\ Conn \cap Checkpointer = {} /\ Writers \subseteq Conn
  /\ Sync \in {"full", "any"}
  /\ {WholeRuns, PagersCheckpoint, EarlyCheckpoint, Immediate, PowerFails} \subseteq BOOLEAN
  \* A checkpoint by a pager's process closes a handle of the main file, which
  \* drops the process's locks on it; nothing but BEGIN IMMEDIATE needs them here.
  /\ ~ (Immediate /\ PagersCheckpoint)

Process == Conn \cup Checkpointer
Page    == 1 .. NPages
Slot    == 1 .. NSlots
Tx      == 0 .. MaxTx
Frame   == [page : Page, tx : Tx, commit : BOOLEAN]

VARIABLES
  file,      \* file[p]: page p of the main file as the operating system shows it
  maybe,     \* maybe[p]: the contents of page p that a power loss may leave
  wal,       \* the frames of -wal that verify, in order
  junk,      \* the number of whole frames behind them that do not
  synced,    \* frames of wal that have been fsynced
  mxFrame,   \* -shm: mxFrame
  nBackfill, \* -shm: nBackfill
  mark,      \* -shm: aReadMark
  readLock,  \* readLock[s]: the process that holds the lock byte of slot s
  writeLock, \* the process that holds WAL_WRITE_LOCK
  pc,        \* pc[c]: where connection c is
  slot,      \* slot[c]: the slot of its WalReadLock, 0 when it has none
  pin,       \* pin[c]: the mark that c published
  overlay,   \* overlay[c]: wal_pages
  dirty,     \* dirty[c]: page numbers of the dirty map, while it is flushed
  reserved,  \* reserved[c]: tx_lock_level is RESERVED
  hint,      \* hint[c]: wal_resume, as the frames its checksum covers
  writer,    \* writer[c]: the WalWriter of the running flush, likewise
  ck,        \* the running checkpoint
  ntx,       \* transactions that got as far as writing frames
  sees,      \* sees[c]: the database when c opened it, with what c committed since
  acked      \* transactions whose flush has returned success

logVars  == <<wal, junk, synced>>
shmVars  == <<mxFrame, nBackfill, mark, readLock, writeLock>>
connVars == <<pc, slot, pin, overlay, dirty, reserved, hint, writer, sees>>
vars == <<file, maybe, logVars, shmVars, connVars, ck, ntx, acked>>

-----------------------------------------------------------------------------
(* Reading a write-ahead log.                                              *)

\* The unfinished tail counts.
CommitEndUnchecked(w) == Len(w)

\* The frames up to the last commit frame: the others are an unfinished tail.
CommitEnd(w) == Max({0} \cup {i \in DOMAIN w : w[i].commit})

\* The last of the frames 1 .. n that holds page p.
LastFrame(w, n, p) == Max({i \in 1 .. n : w[i].page = p})

committed_pages(w) ==
  LET n == CommitEnd(w)
  IN  [p \in {w[i].page : i \in 1 .. n} |-> w[LastFrame(w, n, p)].tx]

\* The database that a pager with the overlay o finds over the main file f.
Over(o, f) == [p \in Page |-> IF p \in DOMAIN o THEN o[p] ELSE f[p]]

\* Whole frames in the file, whether they verify or not.
FramesInFile == Len(wal) + junk

NoFrames == << >>
NoHint   == << >>      \* a hint that covers no frame is as good as none
Nowhere  == [p \in {} |-> 0]

Idle == [by |-> NoProc, at |-> "idle", valid |-> 0,
         next |-> 1, safe |-> 0, todo |-> {}]

\* A mark beyond every frame: READ_MARK_UNUSED.
Unused == MaxTx * NPages + 1

Init ==
  /\ file = [p \in Page |-> 0]
  /\ maybe = [p \in Page |-> {0}]
  /\ wal = NoFrames /\ junk = 0 /\ synced = 0
  /\ mxFrame = 0 /\ nBackfill = 0
  /\ mark = [s \in Slot |-> Unused]
  /\ readLock = [s \in Slot |-> NoProc]
  /\ writeLock = NoProc
  /\ pc = [c \in Conn |-> "closed"]
  /\ slot = [c \in Conn |-> 0]
  /\ pin = [c \in Conn |-> 0]
  /\ overlay = [c \in Conn |-> Nowhere]
  /\ dirty = [c \in Conn |-> {}]
  /\ reserved = [c \in Conn |-> FALSE]
  /\ hint = [c \in Conn |-> NoHint]
  /\ writer = [c \in Conn |-> NoFrames]
  /\ ck = Idle
  /\ ntx = 0
  /\ sees = [c \in Conn |-> [p \in Page |-> 0]]
  /\ acked = {}

\* c is in no call: a pager's process has one thread.
Ready(c) == pc[c] = "ready" /\ ck.by # c

Goto(c, here, there) == pc[c] = here /\ pc' = [pc EXCEPT ![c] = there]

-----------------------------------------------------------------------------
(* Pager::open: the reader mark is published before the log is read.       *)

\* claim_wal_read_lock takes the first slot whose lock byte is free.
ClaimSlot(c) ==
  /\ Goto(c, "closed", "claimed")
  /\ \E s \in Slot :
       /\ readLock[s] = NoProc
       /\ \A t \in 1 .. (s - 1) : readLock[t] # NoProc
       /\ readLock' = [readLock EXCEPT ![s] = c]
       /\ slot' = [slot EXCEPT ![c] = s]
  /\ UNCHANGED <<file, maybe, logVars, mxFrame, nBackfill, mark, writeLock,
                 pin, overlay, dirty, reserved, hint, writer, sees, ck, ntx, acked>>

PublishMark(c) ==
  /\ Goto(c, "claimed", "marked")
  /\ mark' = [mark EXCEPT ![slot[c]] = mxFrame]
  /\ pin' = [pin EXCEPT ![c] = mxFrame]
  /\ UNCHANGED <<file, maybe, logVars, mxFrame, nBackfill, readLock, writeLock,
                 slot, overlay, dirty, reserved, hint, writer, sees, ck, ntx, acked>>

read_wal_pages(c) ==
  /\ Goto(c, "marked", "ready")
  /\ overlay' = [overlay EXCEPT ![c] = committed_pages(wal)]
  /\ sees' = [sees EXCEPT ![c] = Over(committed_pages(wal), file)]
  /\ UNCHANGED <<file, maybe, logVars, shmVars, slot, pin, dirty, reserved, hint,
                 writer, ck, ntx, acked>>

-----------------------------------------------------------------------------
(* Transactions.  What a transaction writes stays in its process until it  *)
(* is flushed, so the pages it made dirty are an input of the flush.       *)

begin_immediate(c) ==
  /\ Immediate /\ Ready(c) /\ c \in Writers
  /\ \A d \in Conn \ {c} : ~ reserved[d]
  /\ reserved' = [reserved EXCEPT ![c] = TRUE]
  /\ UNCHANGED <<file, maybe, logVars, shmVars, pc, slot, pin, overlay, dirty,
                 hint, writer, sees, ck, ntx, acked>>

\* ROLLBACK; a flush with nothing to write does the same.
rollback(c) ==
  /\ Ready(c) /\ c \in Writers
  /\ reserved' = [reserved EXCEPT ![c] = FALSE]
  /\ UNCHANGED <<file, maybe, logVars, shmVars, pc, slot, pin, overlay, dirty, hint,
                 writer, sees, ck, ntx, acked>>

\* The write lock is taken whoever holds it.
claim_write_lock_unguarded(c, D) ==
  /\ Ready(c) /\ Goto(c, "ready", "flush")
  /\ c \in Writers /\ D # {} /\ ntx < MaxTx
  /\ writeLock' = c
  /\ dirty' = [dirty EXCEPT ![c] = D]
  /\ UNCHANGED <<file, maybe, logVars, mxFrame, nBackfill, mark, readLock, slot, pin,
                 overlay, reserved, hint, writer, sees, ck, ntx, acked>>

\* A flush of the dirty pages D takes the write lock.
claim_write_lock(c, D) ==
  /\ Ready(c) /\ Goto(c, "ready", "flush")
  /\ c \in Writers /\ D # {} /\ ntx < MaxTx
  /\ writeLock = NoProc
  /\ writeLock' = c
  /\ dirty' = [dirty EXCEPT ![c] = D]
  /\ UNCHANGED <<file, maybe, logVars, mxFrame, nBackfill, mark, readLock, slot, pin,
                 overlay, reserved, hint, writer, sees, ck, ntx, acked>>

\* A refused flush returns an error, and RESERVED is given up all the same.
claim_write_lock_refused(c) ==
  /\ Ready(c) /\ c \in Writers
  /\ writeLock # NoProc
  /\ reserved' = [reserved EXCEPT ![c] = FALSE]
  /\ UNCHANGED <<file, maybe, logVars, shmVars, pc, slot, pin, overlay, dirty,
                 hint, writer, sees, ck, ntx, acked>>

\* The frames the writer takes as already there: those of the resume hint when
\* the file has its size, else those that a scan of the file verifies.
open_existing(c) == IF Len(hint[c]) = FramesInFile THEN hint[c] ELSE wal

\* The page numbers of the dirty map, sorted.
Ascending(D) ==
  {s \in UNION {[1 .. n -> D] : n \in 0 .. NPages} :
     /\ \A i, j \in DOMAIN s : i < j => s[i] < s[j]
     /\ \A p \in D : \E i \in DOMAIN s : s[i] = p}

\* The run of frames of a flush (there is one): one for each dirty page in
\* ascending order, the last one with the commit mark.
append_frames(c) ==
  {[i \in DOMAIN s |-> [page |-> s[i], tx |-> ntx + 1, commit |-> i = Len(s)]] :
     s \in Ascending(dirty[c])}

\* The frames r are written behind the frames base.  They verify only if base
\* is what the file really holds.
Land(base, r) ==
  /\ wal' = IF base = wal THEN wal \o r ELSE wal
  /\ junk' = IF base = wal THEN (IF junk > Len(r) THEN junk - Len(r) ELSE 0) ELSE junk + Len(r)
  /\ UNCHANGED synced

\* WalWriter::sync's write_at of all the frames of the transaction.
sync_write(c) ==
  /\ Goto(c, "flush", "written")
  /\ \E r \in append_frames(c) :
       /\ Land(open_existing(c), r)
       /\ writer' = [writer EXCEPT ![c] = open_existing(c) \o r]
  /\ ntx' = ntx + 1
  /\ UNCHANGED <<file, maybe, shmVars, slot, pin, overlay, dirty, reserved, hint,
                 sees, ck, acked>>

\* The fsync is forgotten.
sync_fsync_forgotten(c) ==
  /\ Goto(c, "written", "synced")
  /\ hint' = [hint EXCEPT ![c] = writer[c]]
  /\ UNCHANGED <<file, maybe, logVars, shmVars, slot, pin, overlay, dirty, reserved,
                 writer, sees, ck, ntx, acked>>

\* WalWriter::sync's fsync; the resume hint is taken after it.
sync_fsync(c) ==
  /\ Goto(c, "written", "synced")
  /\ synced' = Len(wal)
  /\ hint' = [hint EXCEPT ![c] = writer[c]]
  /\ UNCHANGED <<file, maybe, wal, junk, shmVars, slot, pin, overlay, dirty, reserved,
                 writer, sees, ck, ntx, acked>>

\* With synchronous below FULL sync is not called, so the frames stay in memory.
sync_skipped(c) ==
  /\ Sync = "any"
  /\ Goto(c, "flush", "synced")
  /\ \E r \in append_frames(c) :
       /\ writer' = [writer EXCEPT ![c] = open_existing(c) \o r]
       /\ hint' = [hint EXCEPT ![c] = open_existing(c) \o r]
  /\ ntx' = ntx + 1
  /\ UNCHANGED <<file, maybe, logVars, shmVars, slot, pin, overlay, dirty, reserved,
                 sees, ck, acked>>

\* mxFrame is published, the write lock released, and the dirty pages move into
\* the overlay.
publish_mx_frame(c) ==
  LET mine == [p \in dirty[c] |-> ntx]
  IN  /\ Goto(c, "synced", "ready")
      /\ mxFrame' = Len(writer[c])
      /\ writeLock' = NoProc
      /\ overlay' = [overlay EXCEPT ![c] =
                       [p \in dirty[c] \cup DOMAIN @ |-> IF p \in dirty[c] THEN ntx ELSE @[p]]]
      /\ sees' = [sees EXCEPT ![c] = Over(mine, @)]
      /\ dirty' = [dirty EXCEPT ![c] = {}]
      /\ reserved' = [reserved EXCEPT ![c] = FALSE]
      /\ writer' = [writer EXCEPT ![c] = NoFrames]
      /\ acked' = acked \cup {ntx}
      /\ UNCHANGED <<file, maybe, logVars, nBackfill, mark, readLock, slot, pin,
                     hint, ck, ntx>>

\* The write of a flush that is cut short leaves some first part of its frames,
\* unless runs are whole.
CutShort(c) ==
  \/ UNCHANGED <<logVars, ntx>>
  \/ /\ ~ WholeRuns
     /\ \E r \in append_frames(c) : \E k \in 1 .. Len(r) :
          Land(open_existing(c), SubSeq(r, 1, k))
     /\ ntx' = ntx + 1

\* The resume hint is taken before the frames are in the file.
FlushFailsHinted(c) ==
  /\ pc[c] \in {"flush", "written", "synced"}
  /\ pc' = [pc EXCEPT ![c] = "ready"]
  /\ \E r \in append_frames(c) : hint' = [hint EXCEPT ![c] = open_existing(c) \o r]
  /\ IF pc[c] = "flush" THEN CutShort(c) ELSE UNCHANGED <<logVars, ntx>>
  /\ writeLock' = NoProc
  /\ dirty' = [dirty EXCEPT ![c] = {}]
  /\ reserved' = [reserved EXCEPT ![c] = FALSE]
  /\ writer' = [writer EXCEPT ![c] = NoFrames]
  /\ UNCHANGED <<file, maybe, mxFrame, nBackfill, mark, readLock, slot, pin, overlay,
                 sees, ck, acked>>

\* A file operation of flush fails: the write lock is released and the error
\* returned.  The dirty map is kept: the next flush may take those pages or not.
FlushFails(c) ==
  /\ pc[c] \in {"flush", "written", "synced"}
  /\ pc' = [pc EXCEPT ![c] = "ready"]
  /\ IF pc[c] = "flush" THEN CutShort(c) ELSE UNCHANGED <<logVars, ntx>>
  /\ writeLock' = NoProc
  /\ dirty' = [dirty EXCEPT ![c] = {}]
  /\ reserved' = [reserved EXCEPT ![c] = FALSE]
  /\ writer' = [writer EXCEPT ![c] = NoFrames]
  /\ UNCHANGED <<file, maybe, mxFrame, nBackfill, mark, readLock, slot, pin, overlay,
                 hint, sees, ck, acked>>

\* What is left of the connections C: nothing in memory and no lock.
Gone(C) ==
  /\ pc' = [c \in Conn |-> IF c \in C THEN "closed" ELSE pc[c]]
  /\ slot' = [c \in Conn |-> IF c \in C THEN 0 ELSE slot[c]]
  /\ pin' = [c \in Conn |-> IF c \in C THEN 0 ELSE pin[c]]
  /\ overlay' = [c \in Conn |-> IF c \in C THEN Nowhere ELSE overlay[c]]
  /\ dirty' = [c \in Conn |-> IF c \in C THEN {} ELSE dirty[c]]
  /\ reserved' = [c \in Conn |-> reserved[c] /\ c \notin C]
  /\ hint' = [c \in Conn |-> IF c \in C THEN NoHint ELSE hint[c]]
  /\ writer' = [c \in Conn |-> IF c \in C THEN NoFrames ELSE writer[c]]
  /\ sees' = [c \in Conn |-> IF c \in C THEN [p \in Page |-> 0] ELSE sees[c]]
  /\ readLock' = [s \in Slot |-> IF readLock[s] \in C THEN NoProc ELSE readLock[s]]
  /\ writeLock' = IF writeLock \in C THEN NoProc ELSE writeLock

\* A pager is dropped.
Close(c) ==
  /\ Ready(c)
  /\ Gone({c})
  /\ UNCHANGED <<file, maybe, logVars, mxFrame, nBackfill, mark, ck, ntx, acked>>

\* The process of a connection dies, possibly in the middle of its write.
Crash(c) ==
  /\ pc[c] # "closed"
  /\ IF pc[c] = "flush" THEN CutShort(c) ELSE UNCHANGED <<logVars, ntx>>
  /\ Gone({c})
  /\ ck' = IF ck.by = c THEN Idle ELSE ck
  /\ UNCHANGED <<file, maybe, mxFrame, nBackfill, mark, acked>>

-----------------------------------------------------------------------------
(* checkpoint_passive.                                                     *)

CkptGoto(here, next) == ck.at = here /\ ck' = next

\* What a checkpoint leaves alone, apart from -shm and the main file.
CkptRest == UNCHANGED <<logVars, connVars, writeLock, mxFrame, mark, ntx, acked>>

\* The checkpoint lock is claimed and the whole -wal file read; total_frames
\* follows from its size.
claim_wal_checkpoint_lock(a) ==
  /\ \/ a \in Checkpointer
     \/ a \in Conn /\ PagersCheckpoint /\ pc[a] = "ready"
  /\ EarlyCheckpoint \/ synced = Len(wal)
  /\ FramesInFile > 0
  /\ CkptGoto("idle", [by |-> a, at |-> "probe", valid |-> Len(wal),
                       next |-> 1, safe |-> FramesInFile, todo |-> {}])
  /\ CkptRest /\ UNCHANGED <<file, maybe, readLock, nBackfill>>

\* The marks are not looked at.
active_reader_mark_ignored ==
  LET s    == ck.next
      live == readLock[s] \notin {NoProc, ck.by}
  IN  /\ s \in Slot
      /\ CkptGoto("probe", [ck EXCEPT !.next = s + 1])
      /\ readLock' = [readLock EXCEPT ![s] = IF live THEN @ ELSE NoProc]
      /\ CkptRest /\ UNCHANGED <<file, maybe, nBackfill>>

\* active_reader_marks tries to lock the next slot.  A lock of another process
\* refuses it, and the mark counts unless it is 0; otherwise the lock byte is
\* unlocked again, which drops a lock that this process itself held there.
active_reader_mark ==
  LET s    == ck.next
      live == readLock[s] \notin {NoProc, ck.by}
  IN  /\ s \in Slot
      /\ CkptGoto("probe",
           [ck EXCEPT !.next = s + 1,
                      !.safe = IF live /\ mark[s] > 0 /\ mark[s] < @ THEN mark[s] ELSE @])
      /\ readLock' = [readLock EXCEPT ![s] = IF live THEN @ ELSE NoProc]
      /\ CkptRest /\ UNCHANGED <<file, maybe, nBackfill>>

\* The frames that the pass copies: those it read, up to the safe one.
Copied == SubSeq(wal, 1, IF ck.valid < ck.safe THEN ck.valid ELSE ck.safe)

\* Every pass copies and publishes.
CkptAlways ==
  /\ ck.next = NSlots + 1
  /\ CkptGoto("probe", [ck EXCEPT !.at = "write", !.todo = DOMAIN committed_pages(Copied)])
  /\ CkptRest /\ UNCHANGED <<file, maybe, readLock, nBackfill>>

\* A pass that cannot move nBackfill forward does nothing.
CkptDecide ==
  /\ ck.next = NSlots + 1
  /\ CkptGoto("probe",
       IF ck.safe <= nBackfill THEN Idle
       ELSE [ck EXCEPT !.at = "write", !.todo = DOMAIN committed_pages(Copied)])
  /\ CkptRest /\ UNCHANGED <<file, maybe, readLock, nBackfill>>

CkptWrite ==
  /\ ck.todo # {}
  /\ LET p == Min(ck.todo)
         v == committed_pages(Copied)[p]
     IN  /\ CkptGoto("write", [ck EXCEPT !.todo = @ \ {p}])
         /\ file' = [file EXCEPT ![p] = v]
         /\ maybe' = [maybe EXCEPT ![p] = @ \cup {v}]
  /\ CkptRest /\ UNCHANGED <<readLock, nBackfill>>

\* The main file is not synced before nBackfill is published.
CkptNoSync ==
  /\ ck.todo = {}
  /\ CkptGoto("write", [ck EXCEPT !.at = "publish"])
  /\ CkptRest /\ UNCHANGED <<file, maybe, readLock, nBackfill>>

CkptSync ==
  /\ ck.todo = {}
  /\ CkptGoto("write", [ck EXCEPT !.at = "publish"])
  /\ maybe' = [p \in Page |-> {file[p]}]
  /\ CkptRest /\ UNCHANGED <<file, readLock, nBackfill>>

publish_backfill ==
  /\ CkptGoto("publish", Idle)
  /\ nBackfill' = ck.safe
  /\ CkptRest /\ UNCHANGED <<file, maybe, readLock>>

\* The checkpoint ends early: a file operation fails, or its process dies.
CkptFails ==
  /\ ck.at # "idle" /\ ck' = Idle
  /\ CkptRest /\ UNCHANGED <<file, maybe, readLock, nBackfill>>

-----------------------------------------------------------------------------
\* The published values of a counter of -shm that a power loss may leave: the
\* file is never synced after its creation.
Earlier(n) == {0, n} \cup {i \in DOMAIN wal : i < n /\ wal[i].commit}

\* Everyone dies.  The log keeps its synced frames and a first part of the
\* others, the main file any mixture of its unsynced writes.
PowerLoss ==
  /\ PowerFails
  /\ \E n \in synced .. Len(wal) :
       /\ WholeRuns => n \in {0} \cup {i \in DOMAIN wal : wal[i].commit}
       /\ wal' = SubSeq(wal, 1, n)
       /\ junk' \in IF n = Len(wal) THEN {junk}
                    ELSE IF WholeRuns THEN {0} ELSE 0 .. (FramesInFile - n)
       /\ synced' = n
  /\ file' \in {f \in [Page -> Tx] : \A p \in Page : f[p] \in maybe[p]}
  /\ maybe' = [p \in Page |-> {file'[p]}]
  /\ mxFrame' \in Earlier(mxFrame)
  /\ nBackfill' \in Earlier(nBackfill)
  /\ Gone(Conn)
  /\ ck' = Idle
  /\ UNCHANGED <<mark, ntx, acked>>

-----------------------------------------------------------------------------
Open(c) == ClaimSlot(c) \/ PublishMark(c) \/ read_wal_pages(c)

Flush(c) ==
  \/ (\E D \in SUBSET Page : claim_write_lock(c, D)) \/ claim_write_lock_refused(c)
  \/ sync_write(c) \/ sync_fsync(c) \/ sync_skipped(c)
  \/ publish_mx_frame(c) \/ FlushFails(c)

Checkpoint ==
  \/ \E a \in Process : claim_wal_checkpoint_lock(a)
  \/ active_reader_mark \/ CkptDecide
  \/ CkptWrite \/ CkptSync \/ publish_backfill \/ CkptFails

Next ==
  \/ \E c \in Conn : Open(c) \/ begin_immediate(c) \/ rollback(c) \/ Flush(c) \/ Close(c) \/ Crash(c)
  \/ Checkpoint
  \/ PowerLoss

Spec == Init /\ [][Next]_vars

-----------------------------------------------------------------------------
(* Properties.                                                             *)

\* The state of the pagers, of -wal, -shm and the checkpoint keeps its type.
TypeOK ==
  /\ file \in [Page -> Tx] /\ maybe \in [Page -> SUBSET Tx]
  /\ wal \in Seq(Frame) /\ junk \in Nat /\ synced \in 0 .. Len(wal)
  /\ mxFrame \in Nat /\ nBackfill \in Nat /\ mark \in [Slot -> Nat]
  /\ readLock \in [Slot -> Conn \cup {NoProc}] /\ writeLock \in Conn \cup {NoProc}
  /\ pc \in [Conn -> {"closed", "claimed", "marked", "ready",
                      "flush", "written", "synced"}]
  /\ slot \in [Conn -> Slot \cup {0}] /\ pin \in [Conn -> Nat]
  /\ overlay \in [Conn -> UNION {[S -> Tx] : S \in SUBSET Page}]
  /\ dirty \in [Conn -> SUBSET Page] /\ reserved \in [Conn -> BOOLEAN]
  /\ hint \in [Conn -> Seq(Frame)] /\ writer \in [Conn -> Seq(Frame)]
  /\ ck \in [by : Process \cup {NoProc}, at : {"idle", "probe", "write", "publish"},
            valid : Nat, next : 1 .. (NSlots + 1), safe : Nat, todo : SUBSET Page]
  /\ ntx \in Tx /\ sees \in [Conn -> [Page -> Tx]] /\ acked \subseteq Tx

\* c is open and in no call, so it may read next.
IsOpen(c) == pc[c] = "ready"

\* A reader keeps its snapshot (claim_wal_read_lock: a checkpointer never
\* backfills past the frame count this reader is relying on): whatever others
\* commit and checkpoint, the overlay and the main file together show the
\* database of when the connection was opened.
SnapshotKept == \A c \in Conn \ Writers : IsOpen(c) => Over(overlay[c], file) = sees[c]

\* The same for every connection whose mark is not 0; a writer's snapshot is the
\* database of when it was opened with its own commits.
PinnedSnapshotKept ==
  \A c \in Conn : IsOpen(c) /\ pin[c] > 0 => Over(overlay[c], file) = sees[c]

\* nBackfill tells the truth (CheckpointResult::backfilled_frames): the pages of
\* the frames it counts are in the main file, in that version or a newer one,
\* and no power loss can take them from there.
BackfillOnDisk ==
  \A i \in DOMAIN wal : i <= nBackfill => \A v \in maybe[wal[i].page] : v >= wal[i].tx

\* The frames of the transaction that the commit frame i ends.
EndedBy(i) == {j \in 1 .. i : \A k \in j .. (i - 1) : ~ wal[k].commit}

\* The transactions of the log, as its commit marks divide it.
Log == { [tx |-> wal[i].tx, writes |-> {<<wal[j].page, wal[j].tx>> : j \in EndedBy(i)}] :
         i \in {j \in DOMAIN wal : wal[j].commit} }

\* The database is what its log says (checkpoint.rs: copies committed WAL frames):
\* a pager that opens now finds every page as the last transaction of the log
\* left it, and nothing of a transaction that the log does not have.
DatabaseIsTheLog ==
  LET writes == UNION {e.writes : e \in Log}
  IN  Over(committed_pages(wal), file) =
        [p \in Page |-> Max({0} \cup {w[2] : w \in {x \in writes : x[1] = p}})]

Store == INSTANCE LoggedStore WITH log <- Log

\* A commit is all or nothing and stays once flush has returned (flush_wal_locked,
\* WalWriter::sync, open_existing): through crashes, failing writes and power
\* losses the log gains and loses whole transactions only, and never loses
\* one that was acknowledged.
WholeTransactions == Store!LoggedSpec

\* A resume hint is trusted only where a scan of the file would find the same
\* end (WalWriter::open_existing): the chain of checksums never forks.
HintAgrees == \A c \in Conn : Len(hint[c]) = FramesInFile => hint[c] = wal

\* One transaction at a time appends to the log (flush_wal_locked: WAL's only
\* writer-side mutual exclusion): from the choice of the frame to append at until
\* mxFrame is published, the write lock is the flush's own, whoever dies meanwhile.
SingleWriter ==
  \A c \in Conn : pc[c] \in {"flush", "written", "synced"} => writeLock = c

\* nBackfill never goes back while the machine is up (checkpoint_passive: includes
\* frames backfilled by any prior checkpoint), though marks and frames change
\* between the pass's decision and its publication.
BackfillNeverRetreats == [][nBackfill' >= nBackfill \/ PowerLoss]_vars

\* BEGIN IMMEDIATE blocks a concurrent writer immediately (begin_immediate): while
\* one connection holds RESERVED no other one begins a flush.
ImmediateBlocksWriters ==
  [][\A c, d \in Conn : reserved[c] /\ c # d => ~ (pc[d] = "ready" /\ pc'[d] = "flush")]_vars
=============================================================================
