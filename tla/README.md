# A verification of db-storage

This directory is a TLA+ development of the storage crate in `../src`: modules
that model its components, TLC configurations that check them on small
instances, and TLAPS proofs of the results that matter most for every size.

## The system and its parts

`db-storage` holds two storage engines behind one crate.

**`row`** reads and writes SQLite-format database files.

| part | source | what it does | state it owns |
|---|---|---|---|
| lock ladder | `row/vfs/lock.rs`, `row/vfs/fcntl.rs` | UNLOCKED .. EXCLUSIVE over `fcntl` byte ranges | level per handle; kernel locks per process |
| WAL index locks | `row/vfs/shm.rs` | write, checkpoint and reader-mark locks of `-shm` | slots, marks, `mxFrame`, `nBackfill` |
| VFS | `row/vfs/{mod,unix,memory,page_source}.rs` | files, pages at offsets, error mapping | file contents |
| pager | `row/pager/mod.rs` | dirty map, page cache, commit, BEGIN/ROLLBACK, journal mode | everything between b-trees and files |
| rollback journal | `row/pager/journal.rs` | pre-images, hot-journal recovery | `-journal` |
| write-ahead log | `row/pager/wal.rs` | frames, checksums, commit marks | `-wal` |
| checkpoint | `row/pager/checkpoint.rs` | backfills WAL frames into the main file | main file, `nBackfill` |
| freelist | `row/pager/freelist.rs`, `Pager::{allocate,deallocate}_page` | trunk pages and leaves | page 1 fields, trunk pages |
| b-trees | `row/btree/**` | cursors, insert, delete, split, collapse for tables and indexes | pages |
| records | `row/record/**` | varints, serial types, encode and decode | none |
| header, format | `row/header.rs`, `row/format.rs` | the 100-byte header | page 1 |
| schema | `row/schema/**`, `row/btree/{master,schema}.rs` | `sqlite_master`, DDL reading | rows of page 1's tree |
| integrity check | `row/integrity.rs` | walks every tree and the freelist | none |

**`column`** is a read-only Parquet reader over memory-mapped files: footer and
Thrift parsing, page decoding, encodings, decompression, nesting.  It has no
concurrent state; its algorithms are pure functions of the file's bytes.

The parts meet in the pager: every b-tree operation is a sequence of `read_page`,
`get_page_mut`, `allocate_page` and `deallocate_page` calls ended by `flush` or
`rollback`; the pager turns them into file operations under the lock ladder.

## Modules

| module | models |
|---|---|
| `LockLadder` | the promise of the ladder: one level per connection, raised one rung at a time |
| `FileLock` | `FileLockState` at the grain of single `F_SETLK` calls, with processes that die |
| `FileLockProofs` | mutual exclusion, refinement of `LockLadder`, and what the probe and a refusal mean, for any number of connections |
| `AtomicStore` | the promise of a pager: the database changes by whole transactions, and stays |
| `RollbackPager` | `Pager` in journal mode: open and recovery, cache, BEGIN, flush, ROLLBACK, crash, power loss |
| `RollbackPagerSteps`, `RollbackPagerProofs` | `RollbackPager` implements `AtomicStore`, and its readers and caches are right: the invariant, what the ladder gives and the steps that do not commit; the commit and the theorems |
| `PageAllocator` | the promise of page allocation: pages in use and free pages, none of them both |
| `Freelist` | `allocate_page`, `deallocate_page`, flush and rollback over trunk pages; `check_freelist` |
| `FreelistProofs` | no page leaks, the refinement of `PageAllocator`, and a silent `check_freelist`, for any database size |
| `LruCache` | the promise of a cache: the least recently used page goes first |
| `PageCache` | the page cache with its lazy heap and recycled buffers |
| `PageCacheProofs` | capacity, eviction, recycling and refinement of `LruCache` |
| `LoggedStore` | the promise of a write-ahead log: whole transactions, the acknowledged ones for good |
| `WalPager` | `Pager` in WAL mode with the `-wal` and `-shm` files, and passive checkpoints |
| `WalPagerLog`, `WalPagerProofs` | the write lock, `nBackfill`, the main file with the log, and resume hints; the refinement of `LoggedStore`, what `nBackfill` counts, and snapshots |
| `ModeSwitch` | `set_journal_mode` both ways, commits in both modes, a log that vanishes and is recreated, deaths, failing file operations |
| `ModeSwitchProofs` | page 1 names the mode the pager is in, and commits are kept and read through every switch, for any database |
| `RowStore` | the promise of a b-tree: an ordered map with a cursor |
| `BtreePages` | pages, cells with their lengths, overflow chains, page allocation and cursors, shared by both trees |
| `TableBtree`, `IndexBtree` | the two b-trees |
| `LeafPage` | the bytes of a leaf page: splices, freeblocks, fragments |
| `Catalog` | `sqlite_master`, `sqlite_sequence`, `sqlite_stat1`, the schema cookie; the integrity check |
| `Records`, `Ddl`, `DbHeader`, `Rendering` | varints and records; the DDL reader; the 100-byte header and page 1; list, query and CSV rendering, all as operators |
| `RowFormats` | what those four promise, over bounded inputs |
| `ParquetEncoding`, `ParquetRead`, `ParquetFile` | the Parquet reader: byte formats, compression and decimals; metadata, pages and columns; an open file and its nested rows |
| `ParquetWriter`, `ParquetFormat` | a reference writer of Parquet files, and what reading its files must give back |
| `MCFileLock`, `MCRollbackPager`, `MCPageCache`, `MCWalPager`, `MCTableBtree`, `MCIndexBtree`, `MCFormats` | instances for TLC |

### LockLadder and FileLock

`level[c]` is `FileLockState::level`; `held[p][r]` is what the kernel holds for
process `p` on PENDING_BYTE, RESERVED_BYTE or the SHARED range; `target[c]` is the
argument of the `set_level` that `c` is inside of, and `probe[c]` its position in the
three calls of UNLOCKED's `step_up`.  Each `fcntl_lock` call is a step of its own, so
calls of other processes fall between any two of them.  A refused call leaves
`set_level` where it is (`step_up_refused`), the death of a process drops all of
its locks (`Exit`).

### RollbackPager

Each connection is a process of its own (`FileLock` shows why that is needed) and
runs the pager's calls as sequences of file operations; `pc[c]` is the position.
A page's content is the number of the flush that wrote it and the page count that
flush put into the header: that is all that the protocol's correctness can depend
on.  `file` is what the operating system shows, `maybe[p]` what page `p` may be
after a power loss (every content written since the last sync of the main file).
The journal is its header's page count, its pre-images and whether it was synced;
a torn record ends the usable part of a journal (`recover` stops at the first
checksum that does not match), so an unsynced journal keeps a prefix of its records.

`Crash(c)` ends one process anywhere.  An `open` that fails on a file operation
ends in the same state, so it is not an action of its own.  `FlushFails(c)` is a
failing file operation of `flush_locked`.  `PowerLoss` ends everybody and leaves a
mixture of the unsynced writes.

Four constants name assumptions on the environment, so that the runs can show
what each of them is worth: `Sync` (PRAGMA synchronous), `DurableUnlink` (an
unlink reaches the disk without a sync of the directory), `IOErrors` (file
operations of flush may fail), and `CrashInOpen` (a writer may die while another
`open` stands between its journal probe and its SHARED lock).

### Freelist

`db` is the database as the running transaction sees it, `saved` as the file has it:
`flush` copies one to the other and `rollback` back.  The two freelist fields and
the page count are fields of page 1; `buf[p]` is page `p` read as a trunk.  Two fields are
history: `used`, the pages that callers own, and `chain`, the trunks.  An allocation takes the
newest leaf of the head trunk, else the trunk itself, else extends the file.

### PageCache

`entries[p]` is the tick of page `p`, `heap` the `(tick, page)` records with the stale
ones among them, `slot[p]` and `held[r]` the buffers that the cache and its callers point
to, so the number of pointers to a buffer is `Rc`'s count.  One `read_page` is
one step: it holds the only reference to the pager.

### WalPager

`wal` is the sequence of frames that verify and `junk` the number of whole frames behind
them that do not: the checksum of a frame covers all frames before it, so a scan stops
at the first that does not fit.  `hint[c]` and `writer[c]`, which in the code are an
offset and a checksum, are the frames that this checksum covers.  A hint is trusted when its
length is that of the file.  A flush is a step each for the write lock, the write of
all frames in one `pwrite`, the fsync, and the publication of `mxFrame`; opening is a step each for
the slot's lock, its mark and the reading of the log; a checkpoint is a step for reading the log,
one for each slot it probes, its decision, each page, the sync and `nBackfill`.
`-shm` is never synced, so a power loss leaves some value that its counters had.

The database stays in WAL mode.  Constants name what the environment may do:
`Sync` as above; `WholeRuns` (an interrupted write leaves all of its frames or none);
`EarlyCheckpoint` (a checkpoint may start between a commit's write and its fsync);
`PagersCheckpoint` (the process of a pager may checkpoint); `Immediate`
(transactions begin with BEGIN IMMEDIATE); `PowerFails`.  `Writers` are the pagers that
write.  An assumption keeps `Immediate` and `PagersCheckpoint` apart, since such a
checkpoint also closes a second handle of the main file, which drops RESERVED.

### ModeSwitch

`WalPager` and `RollbackPager` stay in one mode; `ModeSwitch` is about what lies between.
A page is the transaction that wrote it and, for page 1, the mode its version bytes name.
`file` and `wal` are the main file and the log; `inode[i]` holds the counters of one generation of
`-shm` and `path` says which of them the path names now, because a process
keeps one descriptor (`fd`) for as long as `wal_lock` or `wal_shm` holds it, deleted or
not (`open_shm_shared`).  `step` is where the pager stands between two file operations of `set_journal_mode` or of
a WAL commit: creating the log, writing a fresh `-shm`, each pass of the checkpoint page by page, the two deletes,
and the patch of page 1.  `wal_pages`, `cached` and `dirty` are the three places in which `read_page`
looks before the main file.  A commit's own file operations are one step here, since the other two modules
check them.  The pager's process may die at every step, and a file operation of a switch may fail
(`switch_fails`, `patch_page1_fails`): the call returns the error, and what it did before stays done.  `set_journal_mode` assigns
`journal_mode` before it reads, writes and syncs page 1, so a failure there leaves the two apart; `misnamed` records it.
Both are bounded together by `MaxFaults`.  Failures inside a commit's own writes are left to the other two modules.  A reader of another process may hold a mark; and a stock
connection may copy and delete the log while the database is closed, or, with `UnderPager`, under an idle pager
(the case `recreate_wal_locked` is written for).

### The b-trees

`BtreePages` has a database as a sequence of pages, each a leaf with cells, an interior page with
children and separators, or a page of an overflow chain, and a set of free pages.  Cells have the lengths
that the code computes (`local_payload_size`, varints, the file header in front of page 1), so a page
splits when the code would split it.  Keys and payloads are only names with a length.
One call is one step: a call holds the pager mutably, and its buffered pages are rolled back together.
A cursor is a stack of pages with the number of steps taken on each; it borrows the pager, so no write happens while it is
open, and a write closes it in the model.

`TableBtree` translates `insert_row` (leaf splits into two or three by bytes, parents by the median byte, root splits),
`delete_row` (an emptied leaf is freed and its ancestors collapse, an only child moves into the root),
`free_btree_pages`, `count_table_rows` and `TableCursor`.  `IndexBtree` translates `insert_entry`
(splits by count), `delete_entry` (a promoted entry is replaced by its predecessor, past subtrees
that deletes have drained) and `IndexCursor`.  Both are shown to implement `RowStore`; an index delete may also be
refused, when the predecessor it swaps in is longer than the entry it replaces and its page is full (`RefusedSwap`),
and an index whose call was refused half way is not followed further.  `lost` records
the chains that the code leaks: that of a duplicate rowid in `insert_row`, which encodes the cell before it looks, and that
of an entry replaced by its predecessor.

### LeafPage

The bytes behind the header, cell by cell.  `insert_into_leaf` splices when the gap is large enough and rebuilds
otherwise; `splice_delete_cell` gives bytes to the gap, to a freeblock (merging with its
neighbours) or, below four bytes, to the fragment counter.  The instance has five
cells and room for four of them, a `Wide` equal to the page (so that a content start of 65536, stored as 0, occurs) and a
counter that saturates.

### Catalog

A database is `sqlite_master` with the trees its rows name, a set of free pages and the cookie; trees are what
`RowStore` promises.  CREATE and DROP, inserts into AUTOINCREMENT tables, ANALYZE and CREATE INDEX are steps made of
the calls of `master.rs` and `schema.rs`; their order across calls is that of the callers' contracts.
`run_integrity_check` is an operator over a database.  Four steps damage the file behind the
program's back (an index entry lost, repeated or swapped with its neighbour, a row lost) so that the check has something to report.

### Formats

Records, DDL, header, rendering and Parquet are pure functions, so a behaviour is one input
(`subject`) and the one step that reads it back; the properties say what that step finds.  An encoder is checked against its decoder; where the
crate has only a decoder, `ParquetWriter`, `RowFormats` and `ParquetFormat` write what the format's definition says.
Bytes are numbers.  The 64-bit words of a record are functions from bits; a 64-bit integer of a Parquet column is its eight bytes, with
sums and products that wrap as they do in a release build.  Lengths, counts and levels in a Parquet file are numbers of at most 28 bits (`VarintBits`).
A row of `sqlite_master` that does not decode or has not five values fails every reader of the schema.  DDL text is a sequence of tokens (quotes, commas,
comment marks, words), since only they decide where a definition ends.

## Runs

| run | checks | shows |
|---|---|---|
| `file_lock` | `MutualExclusion`, `LevelMatchesLocks`, `ReservedProbeExact`, `LadderSpec`, `RefusalIsContention`, `SetLevelReturns` | three processes: exclusion, levels that match kernel locks, refinement of the ladder, no spurious refusal, every call returns |
| `rollback_pager` | `ReadersSeeCommitted`, `CacheCoherent`, `NoMissingPage`, `AtomicDurable` | two processes, three pages, two commits, all crashes: atomic and durable commits |
| `rollback_live` | `CallsReturn` | every pager call returns, with failing file operations and crashes |
| `freelist` | `NothingLeaks`, `ChecksOk`, `AllocatesPages` | no page is lost or handed out twice, and the integrity check is silent |
| `page_cache` | `EvictionFindsVictim`, `NobodySeesRecycling`, `EvictsLeastRecent` | the lazy heap evicts what an LRU cache would |
| `wal_snapshot` | `PinnedSnapshotKept`, `BackfillOnDisk` | a writer, a reader and a checkpointer: snapshots above mark 0 are kept, `nBackfill` tells the truth |
| `wal_writers` | `SingleWriter`, `HintAgrees`, `WholeTransactions` | two writers: one at a time, hints that do not mislead, whole transactions through crashes and power losses |
| `wal_power` | `DatabaseIsTheLog`, `BackfillNeverRetreats` | one pager and a checkpointer with power losses, writes cut short and commits below FULL: the main file and the log together are what the log says, and `nBackfill` only grows |
| `table_btree` | `RefinesRowStore`, `PagesOwnedOnce`, `SearchTree` | every sequence of two writes and any reads on five trees of up to four levels: an ordered map, no page lost or owned twice beyond the known leak, separators that route to every row |
| `index_btree` | `RefinesRowStore`, `PagesOwnedOnce` | the same for two writes on six indexes of up to three levels, with promoted entries, short and long, and drained subtrees; the one delete that may be refused is the one whose predecessor does not fit |
| `formats` | leaf page: `PageSound`; catalog: `CatalogSound`, `CheckTellsTruth`, `CountersTell`; journal mode: `CommittedKept`, `PagerReadsCommitted`, `ModeIsOnPage1`; formats: `RecordsReadBack`, `SchemaReadsBack`, `RowsPrinted`, `ParquetReadsBack` | what the file says after any sequence of steps is what was put there, in the leaf page, the catalog and the two journal modes, and what one function writes another reads back |
| `wal_normal` | `WholeTransactions` | *violated*: below FULL the frames are never written |

The violated run is a disagreement between the code and its own comment, quoted under `findings` in
`PROJECT.json`.  `formats` runs the three machines and the inputs side by side: each behaviour is one of the machines or
one input, and the others stay in their initial states.

Eight properties of `formats` are conjunctions, and each conjunct is a definition of its own with its own comment and its own
mutant: `PageSound` (`CellsIntact`, `SpaceExact`, `FreeblocksApart`), `CheckTellsTruth` (`IntegrityOk`, `DamageReported`) and so on
in `Catalog`, `RowFormats` and `ParquetFormat`.  The type invariants are part of the inductive invariants where there are proofs;
those of `Freelist` and `WalPager` hold in the runs of these modules too, when added to them.

**What the assumptions are worth.**  Each line below shows what one assumption of a passing
run is worth, or one more place where a comment says more than the code does; TLC finds the property
violated in every one.  Four have a configuration of their own here; the others are the named
configuration with the constants and the property changed as given.

| configuration | property | what happens |
|---|---|---|
| `FileLock`, `Spec`, two connections | `PendingStopsReaders` | a reader that probed PENDING earlier still becomes SHARED |
| `FileLock`, `Spec`, two connections, `Process <- MCOneProcess`, `ProcOf <- OneProcess` | `MutualExclusion` | two connections of one process exclude nothing |
| `RollbackProbe.cfg` | `ReadersSeeCommitted` | `open` probes for a hot journal before it takes SHARED: a writer that dies in between leaves it a torn transaction |
| `RollbackProbe`, `Conn <- MCConn1`, `IOErrors = TRUE`, `CrashInOpen = FALSE` | `ReadersSeeCommitted` | a file operation of `flush_locked` fails: ROLLBACK clears the dirty map and leaves half of the pages and the journal |
| `RollbackPager`, `Conn <- MCConn1`, `MaxTx = 1`, `Sync = "normal"` | `NoMissingPage` | synchronous = NORMAL and a power loss: the header counts a page that the file lacks |
| `RollbackPager`, `Conn <- MCConn1`, `NPages = 2`, `MaxTx = 1`, `DurableUnlink = FALSE` | `AtomicDurable` | the unlink of the journal is not synced: a power loss brings it back |
| `RollbackPager`, `NPages = 2`, `MaxTx = 1` | `RollbackReleases` | a refused BEGIN EXCLUSIVE keeps RESERVED or PENDING, and ROLLBACK does not give it back |
| `Freelist`, `MaxPages = 3`, `DoubleFree = TRUE` | `RepeatReported` | a page freed twice is on the list twice, and the integrity check is silent |
| `PageCache`, one page, one reader, two buffers, `Capacity = 1`, `HeapLimit = 4`, `MaxTick = 18` | `HeapBounded` | without hits the heap is never rebuilt |
| `WalMarkZero.cfg` | `SnapshotKept` | a reader of an empty log has mark 0, which checkpoints skip |
| `WalSnapshot`, `Writers <- MCConn`, `Checkpointer <- MCNobody`, `PagersCheckpoint = TRUE`, `EarlyCheckpoint = FALSE` | `PinnedSnapshotKept` | a checkpoint unlocks the reader slot of its own process |
| `WalSnapshot`, `Conn <- MCConn1`, `NSlots = 1`, `PowerFails = TRUE` | `DatabaseIsTheLog` | a checkpoint copies frames that a power loss then takes from the log |
| `WalPower`, `Checkpointer <- MCNobody`, `Sync = "full"`, `PagersCheckpoint = FALSE`, `PowerFails = FALSE` | `WholeTransactions` | frames of a commit cut short are committed by the next one |
| `WalPower`, `Sync = "full"`, `PagersCheckpoint = FALSE` | `BackfillOnDisk` | `nBackfill` counts frames that do not verify |
| `WalSnapshot`, `Writers <- MCConn`, `Checkpointer <- MCNobody`, `Sync = "any"`, `EarlyCheckpoint = FALSE` | `HintAgrees` | below FULL a resume hint covers frames that are not there |
| `WalWriters`, `PowerFails = FALSE` | `ImmediateBlocksWriters` | BEGIN IMMEDIATE does not stop a commit of another connection |
| `ModeTwoFaults.cfg` | `LogCopiedFirst` | the process dies between the deletes of `-wal` and `-shm`, and another between creating the next log and writing its `-shm`: `nBackfill` of the old log makes the checkpoint believe that the new one is copied, and leaving WAL mode deletes it uncopied, where `pager/mod.rs:922` says "checkpoints every WAL frame into the main file" |
| `ModeTwoFaults`, `MaxFaults = 0`, `UnderPager = TRUE`, `OtherReader = FALSE` | `LogCopiedFirst` | the same with no death: a log deleted under an idle pager is recreated, but "against the new file" (`pager/mod.rs:849`) `open_shm_shared` still returns the descriptor of the deleted `-shm` |
| `ModeTwoFaults`, `MaxTx = 1`, `MaxFaults = 0` | `ReaderKeepsSnapshot` | a mode switch needs no more than SHARED, so a reader of another process sees pages of later commits |
| `ModeTwoFaults`, `MaxFaults = 1` | `ModeAndPage1` | the read, write or sync of page 1 fails after `journal_mode` was assigned (`pager/mod.rs:806`): the pager is in a mode that page 1 does not name, where `pager/mod.rs:789` says "The header-byte flip always hits disk immediately" |
| `ModeTwoFaults`, `MaxFaults = 1` | `FilesSayCommitted` | after such a failure the pager commits into the log; the next pager finds the old mode in page 1, and its switch to WAL creates the log anew, without the commit |
| `IndexBtree` | `StrictStore` | `delete_via_predecessor_swap` takes the predecessor out of its leaf, and then the page of the deleted entry has no room for it: the call fails with the predecessor in no page, where `index/delete.rs:28` says of live values that they "must never be discarded as a side effect" |
| `Formats` | `QuickCheckOrders` | quick_check does not see index keys out of order, where `integrity.rs:8` and `integrity.rs:132` say that it leaves out only the comparison with the table |
| `Formats` | `ColumnsAsWritten` | see the DDL reader under "What the models say about the code" |
| `Formats` | `DeclaredSizeChecked` | a page of another length than its header declares is accepted when it is uncompressed or Snappy, where `compression/mod.rs:51` says that the size is "validated against the actual decompressed length" |
| `IndexMixed.cfg` | `RefinesRowStore` | an index leaf is split by count: ten short and five long entries leave a half that does not fit, and the insert fails |

`ModeTwoFaults.cfg` and `Freelist.cfg` are run on `ModeSwitch` and `Freelist`, the others on the `MC` modules.

**Bounds.**  Three connections in `file_lock` let two wait on a third.  In
`rollback_pager`, two connections give every pair of roles (writer and reader,
writer and recoverer, two recoverers), two initial pages and a third to append give a page
that is journaled, one that is not and one that is dropped by the truncation, and
two commits let a stale journal of the first meet the second.  `NPages`, `MaxTx` are the
only caps; the proofs remove them.  In `freelist`, six pages and trunks of two leaves
give a chain of two trunks that fills up and empties.  In `page_cache`, a capacity of two with three pages
makes every miss an eviction, and a heap limit of three lets the heap be rebuilt with stale records in it;
`MaxTick` bounds only how long a behaviour is.  In the WAL runs two pages let a transaction have a
frame with and one without a commit mark and two transactions let a frame be superseded; two slots
let a reader and a writer be pinned at different marks.  The WAL runs divide the roles (two
writers without checkpoints, a writer and a reader with them, one pager with checkpoints and power losses), since
all of them at once are too many states for a run.
In `table_btree`, pages of 56 bytes hold two cells of one kind and one of another, so three-way splits,
interior splits and a root split happen within one insert, and deletes drain and collapse four
levels; the start trees stand for the histories that two writes are too few to build.  In `index_btree`, a leaf of 136 bytes
holds eight long entries, each with an overflow page, and an interior page six; short entries among the promoted ones let a full interior
page meet a predecessor that is longer than the entry it replaces, and 45 keys give three levels.  In `formats`: one fault and two commits let each step of a
switch be the last of a process, or fail, and a later call commit over it (`ModeTwoFaults` shows what a second fault
does); two tables, an index each and a cookie that wraps after few steps; integers at the
edges of every width and 256 words for varints; header lengths around 127 and 16383; tables of two columns
from 468 definitions, with comments in front, behind the type and at the end, and names and constraints that the reader takes for something else; page sizes 512 to 65536; rows of up to three printed values; and Parquet
columns of twelve kinds, with 64-bit integers at both ends of their range, instants before and after the epoch, and texts that are
not UTF-8, in up to two pages, three codecs and lists, maps and structs of up to two elements.

**Fairness.**  `FairSpec` of both systems is weak fairness of the steps inside a call
that has begun: no call blocks in the kernel (every lock is `F_SETLK`, never
`F_SETLKW`), so a thread inside a call only needs to be scheduled.  Nothing is assumed
of callers: no transaction need ever end and no connection be closed.

## Proofs

`FileLockProofs`: for any `Conn` and `Process`, with a process per connection.
The inductive invariant is `TypeOK`, `LevelMatchesLocks` (kernel locks are a function
of level and probe), `NoConflict` (the kernel never grants conflicting locks) and
`ProbeInside`.  Exclusion follows because the levels it forbids would be conflicting
locks; refinement because a granted call is a `Rise` that `MayReach` allows.  `ReservedProbeIsExact` and
`RefusalsAreContention` add `Strangers`: a process without a connection holds no lock, so a probe or a refused call has met
the level of another connection, and never what a dead process left behind.

`RollbackPagerSteps` and `RollbackPagerProofs`: for any number of connections, pages and transactions, under
`Dependable` (synchronous = FULL, durable unlinks, no failing file operation, no death
inside another open's probe window; each of the four has a line above
that shows what happens without it).  The inductive invariant `IInv` says, beside types:
where a connection is determines what it holds of the ladder (`LadderInv`); a live
journal is met only by its writer and its recoverer, and by nobody that reads
(`HotInv`); the main file and a live journal between them hold the database of
before the transaction, and a power loss can only touch what the journal restores
(`DiskInv`); how far each flush and each recovery has come (`FlushAt` with its parts
`FlushBegun`, `FlushRecords` and `FlushPages`, `RecoverAt`),
and that dirty map and cache fit the file (`DirtyAt`, `CacheAt`).  Every step of
a connection that writes finds all the others without a lock (`Alone`), so only its own
part of the invariant moves.  `DeleteJournalCommits` is the one step that changes
what recovery would restore, and it is a `Commit` of `AtomicStore`.

`PageCacheProofs`: for any pages, readers, capacity and heap limit.  The inductive invariant
adds to `TypeOK` and `WithinCapacity`: `Order` (every cached page has its record in the heap, no record is
newer than `tick`, and two cached pages have different ticks), so that the smallest record that
is not stale is the least recently used page; and `Buffers` (no two entries share a buffer, and
what a reader holds is what it asked for), so that a buffer with one pointer may be overwritten.
`CacheIsLru` is the refinement of `LruCache` step by step.

`ModeSwitchProofs`: for any number of pages, transactions and, at first, faults (deaths and failing file operations), with or without the reader and the
stock connection, as long as no write of the mode into page 1 has failed (`~ misnamed`; the `ModeAndPage1` line above shows what happens then).  `ModeIsOnPage1` is not inductive: page 1 may come from the main file, a frame, the overlay, the
cache or the dirty map.  The invariant `ModeInv` adds that each of them that has page 1 has the right version bytes there
(`DiskVersion`, `PagerVersion`: frames of page 1 exist only in WAL mode, so a page 1 in the overlay says "wal"),
what each step of a switch has already done (`CallInv`: on the way to WAL the log is empty, on the way back it is gone
before page 1 is patched, and the overlay with it), and that a pass copies pages that are in the log
(`CopyInv`).  There is one lemma `Keeps_...` per action.  `Page1NamesTheMode` needs no assumption on `UnderPager` or
`MaxFaults`: the configurations above that delete a log uncopied lose commits, but never the mode.

`SwitchKeepsCommitted`, `OverlayAndCacheAgree` and `CopiedBeforeDeleted` are about commits instead, for at most
one fault and a log that nobody deletes under a pager (`MaxFaults <= 1`, `~ UnderPager`; the two `LogCopiedFirst` lines
of the table above show what happens otherwise).  `KeptInv` says where each committed page is: in the log if it has a frame there, else in the
main file (`Kept`), and the overlay, the dirty map and the cache fit that (`Overlay`, `Written`, `CacheInv`).  The step it turns on is the deletion of
the log, which loses nothing only if all of it was copied.  The pager believes that when `nBackfill` equals the length of the log, so
`Counted` says that it then is, for the `-shm` that the path names and the pager has open (`Descriptor`); `Copying` carries a pass page by page up to
that point; and `Stale` names the moments at which `nBackfill` still counts a log that is gone: between the two deletes,
and after a fault there.  One fault can lead into `Stale`, and the next `-shm` is written before a frame is; it takes a second fault
to leave a new log beside an old counter.  When `-shm` cannot be deleted the call fails with the overlay still in place; the log was copied
by then, so overlay and main file say the same (`OverlayAndCacheAgree`).

`FreelistProofs`: for any number of pages and leaves per trunk, when no caller frees a page twice (`~ DoubleFree`).
The invariant `Sound`, of the connection's database and of the file's, says that head and next pointers spell the
chain (`Linked`), that no page is on it twice (`Once`), that every page is in use or free and page 1 counts the free
ones (`Accounted`).  `FreelistChecksOk` then computes what `check_freelist` does.  Its walk is a recursive function and its
count a fold, and neither can be reached by the library's induction theorems; both are determined by an equation, though, so
a closed form that satisfies the equation (the chain read backwards; the number of pages in the trunks counted so
far) is shown equal to them by a least counterexample (`Stepwise`, `SumIs`).

`WalPagerLog` and `WalPagerProofs`: for any connections, checkpointers, pages, slots and transactions.  `Base` (types,
`SingleWriter`, that a flush has pages to write and that a pass stays inside the log it has read) needs no assumption, and
neither do `OneWriterAppends` and `BackfillMovesForward`.  The others need more, and state it:

* `DatabaseIsItsLog` assumes `CopiesStay` (no pass copies frames that a power loss may still take).  Its invariant
  `FileFromLog` says that every version the main file has, or may have after a power loss, is in a committed transaction of the stable
  part of the log, so that an overlay built from the log covers it.
* `HintsNeverFork` assumes synchronous = FULL: every hint is then a first part of the log, and one as long as the file is the log.
* `LogsWholeTransactions` assumes `Durable` (FULL, and `WholeRuns`).  `WholeLog` says that the log ends with a commit frame
  and has nothing behind it, so that a `sync` appends one whole transaction to the `LoggedStore`, and every other step
  is an acknowledgement, a loss of what was not acknowledged, or a stutter.
* `BackfillIsOnDisk` assumes both.  Marks and `mxFrame` are commit points (`Marks`), so a pass ends at one, and it has copied, and
  before it publishes synced, everything up to there (`Pass`).
* `SnapshotsAreKept` assumes `Durable` and that no process with a pager checkpoints.  A slot's lock then stays with its
  reader, whose mark is not 0 (`SlotsHeld`), so a pass either respects the mark it finds there, or was started before and
  copies only pages that the reader's overlay covers: `Snapshot` follows the pass through its probes for this.

Each assumption has a line in the table above with a behaviour that breaks the property without it.

**Only model-checked.**  Liveness (`SetLevelReturns`, `CallsReturn`) needs fairness, which the prover does not handle.  The leaf page, the b-trees,
the catalog and the formats are recursive operators over data (trees of pages, byte sequences, tokens); what they
compute for every input takes induction over that data, and the prover accepts no recursive operator, so the runs
check them over bounded inputs.

## What the models say about the code

Beside the configurations above, translating the code brought up behaviour that the models
contain as it is, and that a maintainer may want to know:

* `insert_row` leaks the overflow chain of a refused duplicate rowid, and
  `delete_via_predecessor_swap` that of the entry it replaces (`lost` in the b-tree modules).
* The fragment counter of a page saturates at 255 (`SpaceExact` allows for it).
* `check_index` compares counts and orders only, so an entry that points to another row of equal count goes unreported;
  `DamageReported` is stated for the damage that it can see.
* The DDL reader masks comments and quotes where it looks for commas, and not where it reads a definition
  (`ColumnsAsWritten`; `ColumnsReadBack` says what holds all the same).  `column_name` takes the first word, so after a comma
  `-- x` and a new line makes a column `--`, with the real name in its type, and `"e f"` is a column `e`; a table constraint
  behind such a comment is one more column.  `column_type` says that it stops at a constraint keyword
  (`ddl_reader.rs:562`), but GENERATED and CONSTRAINT are not in its list and become part of the type.
  `is_table_constraint` takes a column whose name begins with UNIQUE, CHECK or CONSTRAINT for a constraint, and drops it;
  `column_collation` finds COLLATE in a string literal.
* Deltas of a DELTA_BINARY_PACKED page, and timestamps, are added and multiplied as `i64`.  The format's deltas wrap; a build with overflow checks panics on them
  (`encoding.rs:186`), and the models follow a build without.
* `read_int32_column` ignores the page's encoding; the Parquet inputs have delta pages for 64-bit columns only.
* `nested.rs` takes the first leaf of a struct as its driver, which is wrong when that leaf is inside a list;
  the nested inputs have no such struct.

## Not modelled, and why

* The WAL header, salts and checksums as bytes: `WalPager` takes a checksum for the frames it covers.
* BEGIN EXCLUSIVE in WAL mode, which takes the same locks of the main file as in journal mode.
* Mode switches concurrent with a writer of another process: the `ReaderKeepsSnapshot` line of the table above shows that the switch does not keep even readers
  out, so there is nothing left to check.
* A root on page 1 in the b-tree runs: `BtreePages` gives it its smaller capacity, the instances have their roots elsewhere.
* `fcntl.rs` (an FFI shim), the in-memory VFS, the memory map of `column`, error types and messages, and zstd, a library.
* The page at PENDING_BYTE, which `allocate_page` does not skip: it takes a database of 1 GiB.
