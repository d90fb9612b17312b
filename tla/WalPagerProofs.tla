---------------------------- MODULE WalPagerProofs ----------------------------
(***************************************************************************)
(* The pager in WAL mode, for any sets of connections and checkpointers,   *)
(* any number of pages, reader slots and transactions, when a commit is    *)
(* durable: whole transactions, what nBackfill counts, and the snapshots   *)
(* of readers.                                                             *)
(***************************************************************************)
EXTENDS WalPagerLog

USE ZenonT(30)

-----------------------------------------------------------------------------
(* Whole transactions, when moreover a write leaves all its frames or none.*)

\* The first m frames are synced and end with a commit frame.
CommitPoint(m) == m = 0 \/ (m \in 1 .. synced /\ wal[m].commit)

WholeLog ==
  /\ junk = 0
  /\ wal # << >> => wal[Len(wal)].commit
  /\ \A t \in acked : \E i \in 1 .. synced : wal[i].commit /\ wal[i].tx = t
  /\ \A c \in Conn :
       /\ pc[c] \in {"written", "synced"} => wal # << >> /\ wal[Len(wal)].tx = ntx
       /\ pc[c] = "synced" => synced = Len(wal)

Marks ==
  /\ CommitPoint(mxFrame)
  /\ \A s \in Slot : mark[s] = Unused \/ CommitPoint(mark[s])
  /\ \A c \in Conn : CommitPoint(pin[c])

-----------------------------------------------------------------------------
(* nBackfill.                                                              *)

\* No log is as long as the mark of an unused slot.
BelowUnused == Len(wal) <= ntx * NPages

\* A pass ends at a commit frame, and what it has copied is as new as the frames.
Pass ==
  /\ nBackfill <= Stable
  /\ ck.at # "idle" => /\ ck.safe \in 1 .. ck.valid
                       /\ wal[ck.safe].commit
  /\ ck.at = "write" =>
       \A i \in 1 .. ck.safe : wal[i].page \in ck.todo \/ file[wal[i].page] >= wal[i].tx
  /\ ck.at = "publish" =>
       \A i \in 1 .. ck.safe : \A v \in maybe[wal[i].page] : v >= wal[i].tx

-----------------------------------------------------------------------------
(* Snapshots, when no pager's own process checkpoints.                     *)

\* A slot belongs to the connection that holds its lock byte.
SlotsHeld ==
  /\ ck.at # "idle" => ck.by \in Checkpointer
  /\ \A c \in Conn :
       /\ pc[c] # "closed" => slot[c] \in Slot /\ readLock[slot[c]] = c
       /\ pc[c] \notin {"closed", "claimed"} => mark[slot[c]] = pin[c]

\* The overlay of c holds every page of the first n frames.
Covers(c, n) == \A i \in 1 .. Len(wal) : i <= n => wal[i].page \in DOMAIN overlay[c]

\* A connection at a mark: its overlay has the pages of the frames up to the mark,
\* and whatever the running pass still may copy.
Snapshot ==
  /\ ck.valid <= Len(wal)
  /\ \A c \in Conn : (pc[c] = "ready" \/ Flushing(c)) /\ pin[c] > 0 =>
       /\ Over(overlay[c], file) = sees[c]
       /\ Covers(c, pin[c])
       /\ ck.at = "probe" => slot[c] >= ck.next \/ ck.safe <= pin[c] \/ Covers(c, ck.valid)
       /\ ck.at = "write" => ck.todo \subseteq DOMAIN overlay[c]
-----------------------------------------------------------------------------
(* Whole transactions.                                                     *)

\* The assumptions: every commit writes and syncs its frames, and an interrupted
\* write leaves all of them or none.
Durable == Sync = "full" /\ WholeRuns

WholeInv == Base /\ LogOrdered /\ HintsAreFirstParts /\ WholeLog

\* The whole run of a flush is appended.
AppendsAll(c, r) ==
  /\ pc[c] = "flush" /\ pc'[c] = "written" /\ Appends(c, r, Len(r)) /\ Len(r) \in 1 .. Len(r)
  /\ junk' = 0 /\ acked' = acked

\* With these assumptions a connection's step does one of four things to the log
\* and to what is acknowledged.
LEMMA WholeSteps ==
  ASSUME Durable, Base, HintsAreFirstParts, junk = 0, NEW c \in Conn, ConnStep(c)
  PROVE  \/ \E r \in append_frames(c) : AppendsAll(c, r)
         \/ /\ wal' = wal /\ junk' = junk /\ ntx' = ntx /\ acked' = acked
            /\ synced' = Len(wal) /\ pc[c] = "written"
         \/ /\ wal' = wal /\ junk' = junk /\ synced' = synced /\ ntx' = ntx
            /\ pc'[c] \notin {"written", "synced"} /\ acked' = acked
         \/ /\ wal' = wal /\ junk' = junk /\ synced' = synced /\ ntx' = ntx
            /\ pc[c] = "synced" /\ pc'[c] = "ready" /\ acked' = acked \cup {ntx}
<1>0. TypeOK /\ ConnTypes /\ FlushHasWork /\ hint[c] \in Seq(Frame) /\ FirstPart(hint[c])
  BY TypeParts DEF Base, ConnTypes, HintsAreFirstParts, FirstPart
<1>1. CASE sync_write(c)
  <2>1. PICK r \in append_frames(c) : Land(open_existing(c), r)
    BY <1>1 DEF sync_write
  <2>2. open_existing(c) = wal
    BY <1>0, WholeHint DEF open_existing
  <2>3. pc[c] = "flush" /\ pc'[c] = "written" /\ ntx' = ntx + 1 /\ acked' = acked
    BY <1>0, <1>1, GotoFacts DEF sync_write
  <2>4. r \in Seq(Frame) /\ Len(r) > 0
    BY <1>0, <2>3, RunFacts DEF FlushHasWork, Flushing
  <2>5. Len(r) \in Nat /\ SubSeq(r, 1, Len(r)) = r
    BY <2>4, SubSeqAll, SeqDomain
  <2>6. Len(r) \in 1 .. Len(r) /\ ~ (0 > Len(r))
    BY <2>4, <2>5, SMTT(30)
  <2>7. wal' = wal \o r /\ junk' = 0 /\ synced' = synced
    BY <2>1, <2>2, <2>6 DEF Land
  <2> QED
    BY <2>3, <2>5, <2>6, <2>7 DEF AppendsAll, Appends
<1>2. CASE sync_fsync(c)
  BY <1>2 DEF sync_fsync, Goto
<1>3. CASE publish_mx_frame(c)
  <2>1. pc[c] = "synced" /\ pc'[c] = "ready"
    BY <1>0, <1>3, GotoFacts DEF publish_mx_frame
  <2> QED
    BY <1>3, <2>1 DEF publish_mx_frame, logVars
<1>4. CASE FlushFails(c)
  <2>1. pc'[c] = "ready"
    BY <1>0, <1>4 DEF FlushFails, ConnTypes
  <2> QED
    BY <1>4, <2>1 DEF FlushFails, CutShort, Durable, logVars
<1>5. CASE Crash(c)
  <2>1. pc'[c] = "closed"
    BY <1>5 DEF Crash, Gone
  <2> QED
    BY <1>5, <2>1 DEF Crash, CutShort, Durable, logVars
<1>6. CASE Close(c)
  <2>1. pc'[c] = "closed"
    BY <1>6 DEF Close, Gone
  <2> QED
    BY <1>6, <2>1 DEF Close, logVars
<1>7. CASE Open(c)
  <2>1. PICK there \in {"claimed", "marked", "ready"} : \E here : Goto(c, here, there)
    BY <1>7 DEF Open, ClaimSlot, PublishMark, read_wal_pages
  <2>2. pc'[c] = there
    BY <1>0, <2>1, GotoFacts
  <2> QED
    BY <1>7, <2>1, <2>2 DEF Open, ClaimSlot, PublishMark, read_wal_pages, logVars
<1>8. CASE begin_immediate(c) \/ rollback(c) \/ claim_write_lock_refused(c)
  BY <1>8 DEF begin_immediate, rollback, claim_write_lock_refused, Ready, logVars
<1>9. ASSUME NEW D \in SUBSET Page, claim_write_lock(c, D)
      PROVE  pc'[c] = "flush" /\ UNCHANGED <<wal, junk, synced, ntx, acked>>
  BY <1>0, <1>9, GotoFacts DEF claim_write_lock, logVars
<1>10. ~ sync_skipped(c)
  BY DEF sync_skipped, Durable
<1>11. CASE \E D \in SUBSET Page : claim_write_lock(c, D)
  BY <1>9, <1>11
<1> QED
  BY <1>1, <1>2, <1>3, <1>4, <1>5, <1>6, <1>7, <1>8, <1>10, <1>11 DEF ConnStep, Flush

\* The last frame after an append.
LEMMA LastAppended ==
  ASSUME Base, NEW c \in Conn, NEW r \in append_frames(c), AppendsAll(c, r)
  PROVE  /\ wal' # << >> /\ wal'[Len(wal')].commit /\ wal'[Len(wal')].tx = ntx'
         /\ Len(wal') = Len(wal) + Len(r) /\ Len(r) \in Nat /\ Len(r) > 0 /\ Len(wal) \in Nat
<1>1. Appends(c, r, Len(r)) /\ Len(r) \in 1 .. Len(r)
  BY DEF AppendsAll
<1>2. /\ wal' \in Seq(Frame) /\ Len(wal') = Len(wal) + Len(r) /\ Len(r) \in Nat /\ Len(r) > 0
      /\ Len(wal) \in Nat /\ ntx' = ntx + 1
  BY <1>1, AppendsFacts
<1>3. Len(wal') \in 1 .. Len(wal') /\ Len(wal') > Len(wal) /\ wal' # << >> /\ Len(wal') \notin 1 .. Len(wal)
  BY <1>2, SMTT(30)
<1>4. wal'[Len(wal')].tx = ntx + 1 /\ (wal'[Len(wal')].commit <=> Len(wal') = Len(wal) + Len(r))
  BY <1>1, <1>3, AppendedFrame
<1> QED
  BY <1>2, <1>3, <1>4

LEMMA WholeLogStep ==
  ASSUME Durable, WholeInv, [Next]_vars PROVE WholeLog'
<1>0. /\ TypeOK /\ SingleWriter /\ wal \in Seq(Frame) /\ Len(wal) \in Nat /\ synced \in Nat
      /\ synced <= Len(wal) /\ junk = 0 /\ Base /\ HintsAreFirstParts
  BY LogTypes DEF Base, WholeInv, WholeLog
<1>1. ASSUME NEW c \in Conn, ConnStep(c) PROVE WholeLog'
  <2>0. \A d \in Conn : d # c => pc'[d] = pc[d]
    BY <1>0, <1>1, HintSteps DEF Durable
  <2>1. ASSUME NEW r \in append_frames(c), AppendsAll(c, r) PROVE WholeLog'
    <3>1. wal' # << >> /\ wal'[Len(wal')].commit /\ wal'[Len(wal')].tx = ntx'
      BY <1>0, <2>1, LastAppended
    <3>2. \A d \in Conn : pc'[d] # "synced"
      <4> TAKE d \in Conn
      <4>1. CASE d = c
        BY <2>1, <4>1 DEF AppendsAll
      <4>2. CASE d # c
        BY <1>0, <2>0, <2>1, <4>2, OneFlushing DEF AppendsAll, Flushing
      <4> QED
        BY <4>1, <4>2
    <3>3. synced' = synced /\ acked' = acked /\ \A i \in 1 .. synced : wal'[i] = wal[i]
      <4>1. \A i \in 1 .. Len(wal) : wal'[i] = wal[i]
        BY <1>0, <2>1, AppendsFacts DEF AppendsAll
      <4>2. \A i \in 1 .. synced : i \in 1 .. Len(wal)
        BY <1>0, SMTT(30)
      <4> QED
        BY <2>1, <4>1, <4>2 DEF AppendsAll, Appends
    <3>4. \A t \in acked' : \E i \in 1 .. synced' : wal'[i].commit /\ wal'[i].tx = t
      BY <3>3 DEF WholeInv, WholeLog
    <3>5. junk' = 0
      BY <2>1 DEF AppendsAll
    <3> QED
      BY <3>1, <3>2, <3>4, <3>5 DEF WholeLog
  <2>2. CASE /\ wal' = wal /\ junk' = junk /\ ntx' = ntx /\ acked' = acked
             /\ synced' = Len(wal) /\ pc[c] = "written"
    <3>1. \A i \in 1 .. synced : i \in 1 .. synced'
      BY <1>0, <2>2, SMTT(30)
    <3>2. wal # << >> /\ wal[Len(wal)].tx = ntx
      BY <2>2 DEF WholeInv, WholeLog
    <3> QED
      BY <1>0, <2>2, <3>1, <3>2 DEF WholeInv, WholeLog
  <2>3. CASE /\ wal' = wal /\ junk' = junk /\ synced' = synced /\ ntx' = ntx
             /\ pc'[c] \notin {"written", "synced"} /\ acked' = acked
    BY <1>0, <2>0, <2>3 DEF WholeInv, WholeLog
  <2>4. CASE /\ wal' = wal /\ junk' = junk /\ synced' = synced /\ ntx' = ntx
             /\ pc[c] = "synced" /\ pc'[c] = "ready" /\ acked' = acked \cup {ntx}
    <3>1. wal # << >> /\ wal[Len(wal)].commit /\ wal[Len(wal)].tx = ntx /\ synced = Len(wal)
      BY <2>4 DEF WholeInv, WholeLog
    <3>2. Len(wal) \in 1 .. synced
      BY <1>0, <3>1, SMTT(30)
    <3> QED
      BY <1>0, <2>0, <2>4, <3>1, <3>2 DEF WholeInv, WholeLog
  <2> QED
    BY <1>0, <1>1, <2>1, <2>2, <2>3, <2>4, WholeSteps
<1>2. CASE Checkpoint \/ UNCHANGED vars
  <2>1. UNCHANGED <<wal, junk, synced, ntx, acked, pc>>
    BY <1>0, <1>2, PassSteps DEF CkptRest, logVars, connVars, vars
  <2> QED
    BY <2>1 DEF WholeInv, WholeLog
<1>3. CASE PowerLoss
  <2>1. /\ wal' \in Seq(Frame) /\ Len(wal') \in Nat /\ synced' = Len(wal') /\ Len(wal') >= synced
        /\ \A i \in 1 .. Len(wal') : wal'[i] = wal[i]
        /\ Len(wal') = 0 \/ wal[Len(wal')].commit
        /\ junk' = 0
    BY <1>0, <1>3, PowerLossLog DEF Durable
  <2>2. \A i \in 1 .. synced : i \in 1 .. synced'
    BY <1>0, <2>1, SMTT(30)
  <2>3. wal' # << >> => Len(wal') \in 1 .. Len(wal') /\ Len(wal') # 0
    BY <2>1, SMTT(30)
  <2>4. acked' = acked /\ \A c \in Conn : pc'[c] = "closed"
    BY <1>3 DEF PowerLoss, Gone
  <2> QED
    BY <2>1, <2>2, <2>3, <2>4 DEF WholeInv, WholeLog
<1> QED
  BY <1>1, <1>2, <1>3 DEF Next, ConnStep

LEMMA WholeAlways == ASSUME Durable PROVE Spec => []WholeInv
<1>0. Sync = "full"
  BY DEF Durable
<1>1. Init => WholeLog
  BY DEF Init, WholeLog, NoFrames
<1>2. Init => LogOrdered
  BY FileFromLogInit
<1>3. LogOrdered /\ WholeLog /\ (Base /\ HintsAreFirstParts) /\ [Next]_vars => (LogOrdered /\ WholeLog)'
  BY LogOrderedStep, WholeLogStep DEF WholeInv
<1>4. LogOrdered /\ WholeLog /\ (Base /\ HintsAreFirstParts) => WholeInv
  BY DEF WholeInv
<1> QED
  BY <1>0, <1>1, <1>2, <1>3, <1>4, HintsAlways, PTL DEF Spec

\* The transaction that the commit frame i ends.
Entry(i) == [tx |-> wal[i].tx, writes |-> {<<wal[j].page, wal[j].tx>> : j \in EndedBy(i)}]

LEMMA LogEntries ==
  /\ TypeOK => Log = {Entry(i) : i \in {j \in 1 .. Len(wal) : wal[j].commit}}
  /\ TypeOK' => Log' = {Entry(i)' : i \in {j \in 1 .. Len(wal') : wal'[j].commit}}
  /\ \A i : Entry(i).tx = wal[i].tx
  /\ wal' = wal => Log' = Log
<1>1. \A i : Entry(i).tx = wal[i].tx
  BY DEF Entry
<1>2. TypeOK => Log = {Entry(i) : i \in {j \in 1 .. Len(wal) : wal[j].commit}}
  BY LogTypes DEF Log, Entry
<1>3. TypeOK' => Log' = {Entry(i)' : i \in {j \in 1 .. Len(wal') : wal'[j].commit}}
  <2> SUFFICES ASSUME TypeOK'
               PROVE  Log' = {Entry(i)' : i \in {j \in 1 .. Len(wal') : wal'[j].commit}}
    OBVIOUS
  <2>1. wal' \in Seq(Frame)
    BY DEF TypeOK
  <2>2. DOMAIN wal' = 1 .. Len(wal')
    BY <2>1, SeqDomain
  <2> QED
    BY <2>2 DEF Log, Entry
<1>4. wal' = wal => Log' = Log
  <2> SUFFICES ASSUME wal' = wal PROVE Log' = Log
    OBVIOUS
  <2>1. \A i : EndedBy(i)' = EndedBy(i)
    BY DEF EndedBy
  <2>2. \A i : Entry(i)' = Entry(i)
    BY <2>1 DEF Entry
  <2>3. /\ Log = {Entry(i) : i \in {j \in DOMAIN wal : wal[j].commit}}
        /\ Log' = {Entry(i)' : i \in {j \in DOMAIN wal' : wal'[j].commit}}
    BY DEF Log, Entry
  <2> QED
    BY <2>2, <2>3
<1> QED
  BY <1>1, <1>2, <1>3, <1>4

\* A transaction depends only on the frames up to its last one.
LEMMA EntryStays ==
  ASSUME NEW i \in Nat, \A j \in 1 .. i : wal'[j] = wal[j], i > 0 PROVE Entry(i)' = Entry(i)
<1>1. ASSUME NEW j \in 1 .. i, NEW k \in j .. (i - 1) PROVE k \in 1 .. i
  BY SMTT(30)
<1>2. EndedBy(i)' = EndedBy(i)
  BY <1>1 DEF EndedBy
<1>3. \A j \in EndedBy(i) : wal'[j] = wal[j]
  BY DEF EndedBy
<1>4. i \in 1 .. i
  BY SMTT(30)
<1>5. {<<wal'[j].page, wal'[j].tx>> : j \in EndedBy(i)} = {<<wal[j].page, wal[j].tx>> : j \in EndedBy(i)}
  BY <1>3
<1> QED
  BY <1>2, <1>4, <1>5 DEF Entry

\* A power loss either leaves the log or takes the transactions from some number
\* on, none of them acknowledged.
LEMMA LosesWhole ==
  ASSUME Durable, WholeInv, PowerLoss
  PROVE  Log' = Log \/ \E t \in 1 .. MaxTx : Store!Lose(t)
<1> DEFINE n == Len(wal')
           C == {j \in 1 .. Len(wal) : wal[j].commit}
<1>0. /\ TypeOK /\ TypeOK' /\ Base /\ wal \in Seq(Frame) /\ Len(wal) \in Nat /\ synced \in Nat
      /\ synced <= Len(wal) /\ LogOrdered /\ WholeLog /\ ntx \in 0 .. MaxTx
      /\ \A i \in 1 .. Len(wal) : wal[i].tx \in Nat
  <2>1. Base'
    BY PowerLossBase DEF WholeInv
  <2> QED
    BY <2>1, LogTypes DEF Base, WholeInv, TypeOK, Tx
<1>1. /\ wal' \in Seq(Frame) /\ n \in Nat /\ n >= synced /\ n <= Len(wal)
      /\ \A i \in 1 .. n : wal'[i] = wal[i]
      /\ n = 0 \/ wal[n].commit
  BY <1>0, PowerLossLog DEF Durable
<1>2. acked' = acked
  BY DEF PowerLoss
<1>3. CASE n = Len(wal)
  <2>1. wal' = wal
    BY <1>0, <1>1, <1>3, SeqSame
  <2> QED
    BY <2>1, LogEntries
<1>4. CASE n # Len(wal)
  <2> DEFINE t == wal[n + 1].tx
  <2>1. n + 1 \in 1 .. Len(wal)
    BY <1>0, <1>1, <1>4, SMTT(30)
  <2>2. t \in Nat /\ t \in 1 .. ntx
    BY <1>0, <2>1 DEF LogOrdered
  <2>3. t \in 1 .. MaxTx
    BY <1>0, <2>2, Numbers, SMTT(30)
  <2>4. \A i \in C : IF i <= n THEN wal[i].tx < t ELSE ~ (wal[i].tx < t)
    <3> TAKE i \in C
    <3>1. i \in 1 .. Len(wal) /\ i \in Nat
      BY <1>0, SMTT(30)
    <3>2. CASE i <= n
      <4>1. i < n + 1
        BY <1>1, <3>1, <3>2, SMTT(30)
      <4> QED
        BY <1>0, <2>1, <3>1, <3>2, <4>1 DEF LogOrdered
    <3>3. CASE ~ (i <= n)
      <4>1. n + 1 <= i
        BY <1>1, <3>1, <3>3, SMTT(30)
      <4>2. t <= wal[i].tx /\ wal[i].tx \in Nat
        BY <1>0, <2>1, <3>1, <4>1 DEF LogOrdered
      <4>3. ~ (wal[i].tx < t)
        BY <2>2, <4>2, SMTT(30)
      <4> QED
        BY <3>3, <4>3
    <3> QED
      BY <3>2, <3>3
  <2>5. \A a \in acked : a < t
    <3> TAKE a \in acked
    <3>1. PICK i \in 1 .. synced : wal[i].commit /\ wal[i].tx = a
      BY <1>0 DEF WholeLog
    <3>2. i \in 1 .. Len(wal) /\ i <= n
      BY <1>0, <1>1, SMTT(30)
    <3> QED
      BY <2>4, <3>1, <3>2
  <2>6. \A i \in {j \in 1 .. n : wal'[j].commit} : i \in C /\ i <= n /\ Entry(i)' = Entry(i)
    <3> TAKE i \in {j \in 1 .. n : wal'[j].commit}
    <3>1. i \in 1 .. Len(wal) /\ i <= n /\ i \in Nat /\ i > 0 /\ \A j \in 1 .. i : j \in 1 .. n
      BY <1>0, <1>1, SMTT(30)
    <3>2. Entry(i)' = Entry(i)
      BY <1>1, <3>1, EntryStays
    <3> QED
      BY <1>1, <3>1, <3>2
  <2>7. \A i \in C : i <= n => i \in {j \in 1 .. n : wal'[j].commit}
    <3> TAKE i \in C
    <3>1. i <= n => i \in 1 .. n
      BY <1>0, <1>1, SMTT(30)
    <3> QED
      BY <1>1, <3>1
  <2>8. Log' = {Entry(i)' : i \in {j \in 1 .. n : wal'[j].commit}}
    BY <1>0, LogEntries
  <2>9. Log = {Entry(i) : i \in C}
    BY <1>0, LogEntries
  <2>10. Log' = {e \in Log : e.tx < t}
    <3> HIDE DEF C, t, n
    <3>1. ASSUME NEW e \in Log' PROVE e \in {x \in Log : x.tx < t}
      <4>1. PICK i \in {j \in 1 .. n : wal'[j].commit} : e = Entry(i)'
        BY <2>8, <3>1
      <4>2. i \in C /\ i <= n /\ e = Entry(i)
        BY <2>6, <4>1
      <4>3. e.tx < t
        BY <2>4, <4>2, LogEntries
      <4> QED
        BY <2>9, <4>2, <4>3
    <3>2. ASSUME NEW e \in Log, e.tx < t PROVE e \in Log'
      <4>1. PICK i \in C : e = Entry(i)
        BY <2>9, <3>2
      <4>2. i <= n
        BY <2>4, <3>2, <4>1, LogEntries
      <4>3. i \in {j \in 1 .. n : wal'[j].commit}
        BY <2>7, <4>2
      <4>4. e = Entry(i)'
        BY <2>6, <4>1, <4>3
      <4> QED
        BY <2>8, <4>3, <4>4
    <3> QED
      BY <3>1, <3>2
  <2>11. Store!Lose(t)
    BY <1>2, <2>5, <2>10 DEF Store!Lose
  <2> QED
    BY <2>3, <2>11
<1> QED
  BY <1>3, <1>4

\* The frames of a run that is appended behind a commit frame are one transaction.
LEMMA RunIsTransaction ==
  ASSUME Base, WholeLog, NEW c \in Conn, NEW r \in append_frames(c), AppendsAll(c, r),
         NEW m \in Nat, m = Len(wal')
  PROVE  Entry(m)' = Store!Transaction(ntx + 1, dirty[c])
<1> DEFINE n == Len(wal)
<1>0. /\ TypeOK /\ n \in Nat /\ Len(r) \in Nat /\ Len(r) > 0 /\ m = n + Len(r) /\ m \in Nat
      /\ Appends(c, r, Len(r)) /\ Len(r) \in 1 .. Len(r) /\ ntx < MaxTx
      /\ wal'[m].tx = ntx + 1
  <2>1. /\ Len(r) \in Nat /\ Len(r) > 0 /\ m = n + Len(r) /\ n \in Nat /\ wal'[m].tx = ntx'
    BY LastAppended
  <2>2. Appends(c, r, Len(r)) /\ Len(r) \in 1 .. Len(r) /\ ntx' = ntx + 1
    BY DEF AppendsAll, Appends
  <2>3. m \in Nat
    BY <2>1, SMTT(30)
  <2> QED
    BY <2>1, <2>2, <2>3, AppendsFacts DEF Base
<1>1. /\ \A i \in 1 .. n : wal'[i] = wal[i]
      /\ \A i \in 1 .. Len(r) : wal'[n + i] = r[i]
  BY <1>0, AppendsFacts
<1>2. /\ \A i \in 1 .. Len(r) : r[i].page \in dirty[c] /\ r[i].tx = ntx + 1 /\ (r[i].commit <=> i = Len(r))
      /\ \A p \in dirty[c] : \E i \in 1 .. Len(r) : r[i].page = p
  BY <1>0, RunFacts
<1>3. n > 0 => wal'[n].commit
  <2>1. n > 0 => n \in 1 .. n
    BY <1>0, SMTT(30)
  <2>2. n > 0 => wal # << >>
    BY <1>0, SMTT(30)
  <2> QED
    BY <1>1, <2>1, <2>2 DEF WholeLog
<1>4. ASSUME NEW j \in EndedBy(m)' PROVE \E i \in 1 .. Len(r) : j = n + i
  <2>1. j \in 1 .. m /\ \A k \in j .. (m - 1) : ~ wal'[k].commit
    BY DEF EndedBy
  <2>2. j > n
    <3> SUFFICES ASSUME ~ (j > n) PROVE FALSE
      OBVIOUS
    <3> HIDE DEF n
    <3>1. n \in j .. (m - 1) /\ n > 0
      BY <1>0, <2>1, SMTT(30)
    <3> QED
      BY <1>3, <2>1, <3>1
  <2> HIDE DEF n
  <2>3. j - n \in 1 .. Len(r) /\ j = n + (j - n)
    BY <1>0, <2>1, <2>2, SMTT(30)
  <2> QED
    BY <2>3
<1>5. ASSUME NEW i \in 1 .. Len(r) PROVE n + i \in EndedBy(m)'
  <2> HIDE DEF n
  <2>1. n + i \in 1 .. m
    BY <1>0, SMTT(30)
  <2>2. ASSUME NEW k \in (n + i) .. (m - 1) PROVE ~ wal'[k].commit
    <3>1. PICK h \in 1 .. Len(r) : k = n + h /\ h # Len(r)
      <4>1. k - n \in 1 .. Len(r) /\ k = n + (k - n) /\ k - n # Len(r)
        BY <1>0, SMTT(30)
      <4> QED
        BY <4>1
    <3> QED
      BY <1>1, <1>2, <3>1
  <2> QED
    BY <2>1, <2>2 DEF EndedBy
<1>6. {<<wal'[j].page, wal'[j].tx>> : j \in EndedBy(m)'} = dirty[c] \X {ntx + 1}
  <2> HIDE DEF n
  <2>1. ASSUME NEW j \in EndedBy(m)' PROVE <<wal'[j].page, wal'[j].tx>> \in dirty[c] \X {ntx + 1}
    <3>1. PICK i \in 1 .. Len(r) : j = n + i
      BY <1>4
    <3>2. wal'[j] = r[i]
      BY <1>1, <3>1
    <3>3. r[i].page \in dirty[c] /\ r[i].tx = ntx + 1
      BY <1>2
    <3>4. wal'[j].page \in dirty[c] /\ wal'[j].tx = ntx + 1
      BY <3>2, <3>3
    <3> QED
      BY <3>4
  <2>2. ASSUME NEW x \in dirty[c] \X {ntx + 1}
        PROVE  x \in {<<wal'[j].page, wal'[j].tx>> : j \in EndedBy(m)'}
    <3>1. PICK p \in dirty[c] : x = <<p, ntx + 1>>
      BY <2>2, SMTT(30)
    <3>2. PICK i \in 1 .. Len(r) : r[i].page = p
      BY <1>2
    <3>3. PICK j \in EndedBy(m)' : j = n + i
      BY <1>5
    <3>4. wal'[j].page = p /\ wal'[j].tx = ntx + 1
      <4>1. wal'[j] = r[i] /\ r[i].tx = ntx + 1
        BY <1>1, <1>2, <3>3
      <4> QED
        BY <3>2, <4>1
    <3>5. x = <<wal'[j].page, wal'[j].tx>>
      BY <3>1, <3>4
    <3> QED
      BY <3>5
  <2> QED
    BY <2>1, <2>2
<1> QED
  BY <1>0, <1>6 DEF Entry, Store!Transaction

LEMMA AppendsWhole ==
  ASSUME Durable, WholeInv, WholeInv', NEW c \in Conn, NEW r \in append_frames(c), AppendsAll(c, r)
  PROVE  Store!AppendTx(ntx + 1, dirty[c]) /\ ntx + 1 \in 1 .. MaxTx /\ dirty[c] \in SUBSET (1 .. NPages)
<1> DEFINE n == Len(wal)
           C == {j \in 1 .. n : wal[j].commit}
<1> PICK m \in Nat : m = Len(wal')
  <2>1. wal' \in Seq(Frame)
    BY DEF WholeInv, Base, TypeOK
  <2> QED
    BY <2>1, SeqDomain
<1> DEFINE D == {j \in 1 .. m : wal'[j].commit}
<1>0. /\ TypeOK /\ TypeOK' /\ Base /\ WholeLog /\ LogOrdered /\ n \in Nat /\ ntx \in Nat /\ ntx < MaxTx
      /\ \A i \in 1 .. n : wal[i].tx \in Nat
  BY LogTypes, AppendsFacts DEF WholeInv, Base, AppendsAll
<1>1. dirty[c] # {} /\ dirty[c] \in SUBSET (1 .. NPages)
  BY <1>0 DEF TypeOK, Base, FlushHasWork, Flushing, AppendsAll, Page
<1>2. ntx + 1 \in 1 .. MaxTx
  BY <1>0, Numbers, SMTT(30)
<1>3. Log = {Entry(i) : i \in C} /\ Log' = {Entry(i)' : i \in D}
  BY <1>0, LogEntries
<1>4. \A e \in Log : e.tx < ntx + 1
  <2>1. \A i \in 1 .. n : wal[i].tx < ntx + 1
    BY <1>0, SMTT(30) DEF LogOrdered
  <2> QED
    BY <1>3, <2>1, LogEntries
<1>5. /\ \A i \in 1 .. n : wal'[i] = wal[i]
      /\ m = n + Len(r) /\ Len(r) \in Nat /\ Len(r) > 0 /\ wal'[m].commit
  BY <1>0, LastAppended, AppendsFacts DEF AppendsAll
<1>6. Entry(m)' = Store!Transaction(ntx + 1, dirty[c])
  BY <1>0, RunIsTransaction
<1>7. \A i \in C : i \in D /\ Entry(i)' = Entry(i)
  <2> TAKE i \in C
  <2>1. i \in 1 .. n /\ i \in 1 .. m /\ i \in Nat /\ i > 0 /\ \A j \in 1 .. i : j \in 1 .. n
    BY <1>0, <1>5, SMTT(30)
  <2> QED
    BY <1>5, <2>1, EntryStays
<1>8. \A i \in D : i \in C \/ i = m
  <2> TAKE i \in D
  <2>1. CASE i \in 1 .. n
    BY <1>5, <2>1
  <2>2. CASE i \notin 1 .. n
    <3>1. wal'[i].commit <=> i = n + Len(r)
      BY <1>0, <2>2, AppendedFrame DEF AppendsAll
    <3> QED
      BY <1>5, <3>1
  <2> QED
    BY <2>1, <2>2
<1>9. m \in D
  <2>1. m \in 1 .. m
    BY <1>0, <1>5, SMTT(30)
  <2> QED
    BY <1>5, <2>1
<1>10. Log' = Log \cup {Store!Transaction(ntx + 1, dirty[c])}
  <2> HIDE DEF C, D, n
  <2>1. ASSUME NEW e \in Log' PROVE e \in Log \cup {Store!Transaction(ntx + 1, dirty[c])}
    <3>1. PICK i \in D : e = Entry(i)'
      BY <1>3, <2>1
    <3>2. CASE i \in C
      BY <1>3, <1>7, <3>1, <3>2
    <3>3. CASE i = m
      BY <1>6, <3>1, <3>3
    <3> QED
      BY <1>8, <3>2, <3>3
  <2>2. ASSUME NEW e \in Log PROVE e \in Log'
    <3>1. PICK i \in C : e = Entry(i)
      BY <1>3, <2>2
    <3> QED
      BY <1>3, <1>7, <3>1
  <2>3. Store!Transaction(ntx + 1, dirty[c]) \in Log'
    BY <1>3, <1>6, <1>9
  <2> QED
    BY <2>1, <2>2, <2>3
<1>11. acked' = acked
  BY DEF AppendsAll
<1> QED
  BY <1>1, <1>2, <1>4, <1>10, <1>11 DEF Store!AppendTx

\* flush_wal_locked, open_existing and WalWriter::sync implement a log of whole
\* transactions: sync's write is the step that appends one, the return of flush
\* acknowledges it, a power loss takes the newest ones that are not acknowledged,
\* and every other step, crashes and failing writes included, leaves it alone.
THEOREM LogsWholeTransactions == ASSUME Durable PROVE Spec => WholeTransactions
<1>1. Init => Store!LoggedInit
  <2> SUFFICES ASSUME Init PROVE Store!LoggedInit
    OBVIOUS
  <2>1. wal = << >> /\ acked = {}
    BY DEF Init, NoFrames
  <2>2. DOMAIN wal = {}
    BY <2>1, SMTT(30)
  <2>3. Log = {}
    BY <2>2 DEF Log
  <2> QED
    BY <2>1, <2>3 DEF Store!LoggedInit
<1>2. WholeInv /\ WholeInv' /\ [Next]_vars => [Store!LoggedNext]_<<Log, acked>>
  <2> SUFFICES ASSUME WholeInv, WholeInv', [Next]_vars
               PROVE  Store!LoggedNext \/ (Log' = Log /\ acked' = acked)
    OBVIOUS
  <2>0. Base /\ TypeOK /\ HintsAreFirstParts /\ LogOrdered /\ WholeLog /\ junk = 0
    BY DEF WholeInv, Base, WholeLog
  <2>1. ASSUME NEW c \in Conn, ConnStep(c) PROVE Store!LoggedNext \/ (Log' = Log /\ acked' = acked)
    <3>1. CASE \E r \in append_frames(c) : AppendsAll(c, r)
      BY <3>1, AppendsWhole DEF Store!LoggedNext
    <3>2. CASE wal' = wal /\ acked' = acked
      BY <3>2, LogEntries
    <3>3. CASE wal' = wal /\ pc[c] = "synced" /\ acked' = acked \cup {ntx}
      <4>1. wal # << >> /\ wal[Len(wal)].commit /\ wal[Len(wal)].tx = ntx
        BY <2>0, <3>3 DEF WholeLog
      <4>2. Len(wal) \in 1 .. Len(wal) /\ ntx \in 0 .. MaxTx
        <5>1. wal \in Seq(Frame) /\ Len(wal) \in Nat /\ ntx \in 0 .. MaxTx
          BY <2>0, LogTypes DEF TypeOK, Tx
        <5> QED
          BY <4>1, <5>1, SMTT(30)
      <4>3. ntx \in 1 .. MaxTx
        <5>1. ntx \in 1 .. ntx
          BY <2>0, <4>1, <4>2 DEF LogOrdered
        <5> QED
          BY <4>2, <5>1, Numbers, SMTT(30)
      <4>4. Entry(Len(wal)) \in Log /\ Entry(Len(wal)).tx = ntx
        BY <2>0, <4>1, <4>2, LogEntries
      <4>5. Store!Acknowledge(ntx)
        BY <3>3, <4>4, LogEntries DEF Store!Acknowledge
      <4> QED
        BY <4>3, <4>5 DEF Store!LoggedNext
    <3> QED
      BY <2>0, <2>1, <3>1, <3>2, <3>3, WholeSteps
  <2>2. CASE Checkpoint \/ UNCHANGED vars
    <3>1. wal' = wal /\ acked' = acked
      BY <2>0, <2>2, PassSteps DEF CkptRest, logVars, vars
    <3> QED
      BY <3>1, LogEntries
  <2>3. CASE PowerLoss
    <3>1. acked' = acked
      BY <2>3 DEF PowerLoss
    <3> QED
      BY <2>3, <3>1, LosesWhole DEF Store!LoggedNext
  <2> QED
    BY <2>1, <2>2, <2>3 DEF Next, ConnStep
<1> QED
  BY <1>1, <1>2, WholeAlways, PTL DEF Spec, WholeTransactions, Store!LoggedSpec

-----------------------------------------------------------------------------
(* Marks and counters of -shm.                                             *)

\* What is synced stays.
LEMMA SyncedStep ==
  ASSUME Base, [Next]_vars
  PROVE  \A i \in 1 .. synced : i \in 1 .. synced' /\ wal'[i] = wal[i]
<1>0. TypeOK /\ Len(wal) \in Nat /\ synced \in Nat /\ synced <= Len(wal) /\ wal \in Seq(Frame)
  BY LogTypes DEF Base
<1>1. ASSUME Extended, synced' \in {synced, Len(wal)}
      PROVE  \A i \in 1 .. synced : i \in 1 .. synced' /\ wal'[i] = wal[i]
  BY <1>0, <1>1, SMTT(30) DEF Extended
<1>2. CASE PowerLoss
  <2>1. /\ synced' = Len(wal') /\ Len(wal') \in Nat /\ Len(wal') >= synced
        /\ \A i \in 1 .. Len(wal') : wal'[i] = wal[i]
    BY <1>0, <1>2, PowerLossLog
  <2>2. \A i \in 1 .. synced : i \in 1 .. Len(wal')
    BY <1>0, <2>1, SMTT(30)
  <2> QED
    BY <2>1, <2>2
<1>3. ASSUME NEW c \in Conn, ConnStep(c) PROVE Extended /\ synced' \in {synced, Len(wal)}
  BY <1>3, ConnExtends, ConnLog DEF LogKept, Appends
<1>4. ASSUME Checkpoint \/ UNCHANGED vars PROVE Extended /\ synced' = synced
  <2>1. wal' = wal /\ synced' = synced
    BY <1>4, PassSteps DEF CkptRest, vars, logVars
  <2> QED
    BY <1>0, <2>1, SMTT(30) DEF Extended
<1> QED
  BY <1>1, <1>2, <1>3, <1>4 DEF Next, ConnStep

LEMMA CommitPointStays ==
  ASSUME Base, [Next]_vars, NEW m, CommitPoint(m)
  PROVE  m = 0 \/ (m \in 1 .. synced' /\ wal'[m].commit)
  BY SyncedStep DEF CommitPoint

\* Who changes mxFrame, the marks and the pins.
LEMMA MarkSteps ==
  ASSUME Base, NEW c \in Conn, ConnStep(c)
  PROVE  /\ mxFrame' = mxFrame \/ (pc[c] = "synced" /\ mxFrame' = Len(writer[c]))
         /\ \A s \in Slot : mark'[s] = mark[s] \/ mark'[s] = mxFrame
         /\ \A d \in Conn : pin'[d] = pin[d] \/ pin'[d] = mxFrame \/ pin'[d] = 0
<1>0. ShmTypes /\ ConnTypes
  BY TypeParts DEF Base
<1>1. CASE PublishMark(c)
  <2>1. mark' = [mark EXCEPT ![slot[c]] = mxFrame] /\ pin' = [pin EXCEPT ![c] = mxFrame] /\ mxFrame' = mxFrame
    BY <1>1 DEF PublishMark
  <2>2. \A s \in Slot : mark'[s] = mark[s] \/ mark'[s] = mxFrame
    BY <1>0, <2>1 DEF ShmTypes
  <2>3. \A d \in Conn : pin'[d] = pin[d] \/ pin'[d] = mxFrame
    BY <1>0, <2>1 DEF ConnTypes
  <2> QED
    BY <2>1, <2>2, <2>3
<1>2. CASE Close(c) \/ Crash(c)
  <2>1. mxFrame' = mxFrame /\ mark' = mark /\ Gone({c})
    BY <1>2 DEF Close, Crash
  <2>2. \A d \in Conn : pin'[d] = pin[d] \/ pin'[d] = 0
    BY <2>1 DEF Gone
  <2> QED
    BY <2>1, <2>2
<1>3. CASE publish_mx_frame(c)
  BY <1>3 DEF publish_mx_frame, Goto
<1>4. CASE ClaimSlot(c) \/ read_wal_pages(c) \/ begin_immediate(c) \/ rollback(c)
           \/ (\E D \in SUBSET Page : claim_write_lock(c, D)) \/ claim_write_lock_refused(c)
           \/ sync_write(c) \/ sync_fsync(c) \/ sync_skipped(c) \/ FlushFails(c)
  <2>1. mxFrame' = mxFrame /\ mark' = mark /\ pin' = pin
    BY <1>4 DEF ClaimSlot, read_wal_pages, begin_immediate, rollback, claim_write_lock,
                claim_write_lock_refused, sync_write, sync_fsync, sync_skipped, FlushFails, shmVars
  <2> QED
    BY <2>1
<1> QED
  BY <1>1, <1>2, <1>3, <1>4 DEF ConnStep, Open, Flush

LEMMA MarksStep == ASSUME Durable, WholeInv, Marks, [Next]_vars PROVE Marks'
<1>0. Base /\ TypeOK /\ HintsAreFirstParts /\ WholeLog /\ mxFrame \in Nat
      /\ Len(wal) \in Nat /\ synced \in Nat /\ synced <= Len(wal) /\ wal \in Seq(Frame)
  BY LogTypes DEF WholeInv, Base, TypeOK
<1> DEFINE P(m) == m = 0 \/ (m \in 1 .. synced' /\ wal'[m].commit)
<1>1. \A m : CommitPoint(m) => P(m)
  BY <1>0, CommitPointStays
<1>2. ASSUME P(mxFrame'), \A s \in Slot : mark'[s] = Unused \/ P(mark'[s]), \A c \in Conn : P(pin'[c])
      PROVE  Marks'
  BY <1>2 DEF Marks, CommitPoint
<1> HIDE DEF P
<1>3. /\ P(mxFrame) /\ P(0)
      /\ \A s \in Slot : mark[s] = Unused \/ P(mark[s])
      /\ \A c \in Conn : P(pin[c])
  BY <1>1 DEF Marks, P
<1>4. ASSUME NEW c \in Conn, ConnStep(c) PROVE Marks'
  <2>1. P(mxFrame')
    <3>1. CASE pc[c] = "synced" /\ mxFrame' = Len(writer[c])
      <4>1. writer[c] = wal /\ wal # << >> /\ wal[Len(wal)].commit /\ synced = Len(wal)
        BY <1>0, <3>1 DEF HintsAreFirstParts, WholeLog
      <4>2. Len(wal) \in 1 .. synced
        BY <1>0, <4>1, SMTT(30)
      <4>3. CommitPoint(Len(wal))
        BY <4>1, <4>2 DEF CommitPoint
      <4> QED
        BY <1>1, <3>1, <4>1, <4>3
    <3> QED
      BY <1>0, <1>3, <1>4, <3>1, MarkSteps
  <2> QED
    BY <1>0, <1>2, <1>3, <1>4, <2>1, MarkSteps
<1>5. CASE Checkpoint \/ UNCHANGED vars
  <2>1. mxFrame' = mxFrame /\ mark' = mark /\ pin' = pin
    BY <1>0, <1>5, PassSteps DEF CkptRest, connVars, shmVars, vars
  <2> QED
    BY <1>2, <1>3, <2>1
<1>6. CASE PowerLoss
  <2>1. mark' = mark /\ \A c \in Conn : pin'[c] = 0
    BY <1>6 DEF PowerLoss, Gone
  <2>2. mxFrame' \in Earlier(mxFrame)
    BY <1>6 DEF PowerLoss
  <2>3. CASE mxFrame' \in {0, mxFrame}
    BY <1>2, <1>3, <2>1, <2>3
  <2>4. CASE mxFrame' \in DOMAIN wal /\ mxFrame' < mxFrame /\ wal[mxFrame'].commit
    <3>1. DOMAIN wal = 1 .. Len(wal) /\ (mxFrame = 0 \/ mxFrame \in 1 .. synced)
      BY <1>0, SeqDomain DEF Marks, CommitPoint
    <3>2. mxFrame' \in 1 .. synced
      BY <1>0, <2>4, <3>1, SMTT(30)
    <3>3. CommitPoint(mxFrame')
      BY <2>4, <3>2 DEF CommitPoint
    <3> QED
      BY <1>1, <1>2, <1>3, <2>1, <3>3
  <2> QED
    BY <2>2, <2>3, <2>4 DEF Earlier
<1> QED
  BY <1>4, <1>5, <1>6 DEF Next, ConnStep

LEMMA MarksAlways == ASSUME Durable PROVE Spec => [](WholeInv /\ Marks)
<1>1. Init => Marks
  BY DEF Init, Marks, CommitPoint
<1>2. WholeInv /\ Marks /\ [Next]_vars => Marks'
  BY MarksStep
<1> QED
  BY <1>1, <1>2, WholeAlways, PTL DEF Spec

LEMMA Products ==
  ASSUME NEW a \in Nat, NEW b \in Nat, NEW n \in Nat
  PROVE  /\ a * n \in Nat /\ (a + 1) * n = a * n + n
         /\ a <= b => a * n <= b * n
<1>1. a * n \in Nat /\ (a + 1) * n = a * n + n
  BY SMTT(30)
<1>2. ASSUME a <= b PROVE a * n <= b * n
  <2>1. PICK d \in Nat : b = a + d
    <3>1. b - a \in Nat /\ b = a + (b - a)
      BY <1>2, SMTT(30)
    <3> QED
      BY <3>1
  <2>2. b * n = a * n + d * n /\ d * n \in Nat
    BY <2>1, SMTT(30)
  <2> QED
    BY <1>1, <2>2, SMTT(30)
<1> QED
  BY <1>1, <1>2

LEMMA BelowUnusedStep == ASSUME Base, BelowUnused, [Next]_vars PROVE BelowUnused'
<1>0. TypeOK /\ Len(wal) \in Nat /\ ntx \in Nat /\ NPages \in Nat
  BY LogTypes, Numbers DEF Base
<1>1. ntx * NPages \in Nat /\ (ntx + 1) * NPages = ntx * NPages + NPages
  BY <1>0, Products
<1>2. ASSUME wal' = wal, ntx' \in {ntx, ntx + 1} PROVE BelowUnused'
  <2>1. ntx' * NPages = ntx * NPages \/ ntx' * NPages = ntx * NPages + NPages
    BY <1>1, <1>2
  <2>2. Len(wal) <= ntx * NPages + NPages
    BY <1>0, <1>1, SMTT(30) DEF BelowUnused
  <2> QED
    BY <1>2, <2>1, <2>2 DEF BelowUnused
<1>3. ASSUME NEW c \in Conn, NEW r \in append_frames(c), NEW k \in 1 .. Len(r), Appends(c, r, k)
      PROVE  BelowUnused'
  <2>1. Len(wal') = Len(wal) + k /\ k <= NPages /\ k \in Nat /\ ntx' = ntx + 1
    BY <1>3, AppendsFacts
  <2>2. Len(wal) + k <= ntx * NPages + NPages
    BY <1>0, <1>1, <2>1, SMTT(30) DEF BelowUnused
  <2> QED
    BY <1>1, <2>1, <2>2 DEF BelowUnused
<1>4. CASE PowerLoss
  <2>1. Len(wal') <= Len(wal) /\ Len(wal') \in Nat /\ ntx' = ntx
    BY <1>0, <1>4, PowerLossLog DEF PowerLoss
  <2>2. Len(wal') <= ntx * NPages
    BY <1>0, <1>1, <2>1, SMTT(30) DEF BelowUnused
  <2> QED
    BY <2>1, <2>2 DEF BelowUnused
<1>5. ASSUME NEW c \in Conn, ConnStep(c) PROVE BelowUnused'
  BY <1>2, <1>3, <1>5, ConnLog DEF LogKept
<1>6. ASSUME Checkpoint \/ UNCHANGED vars PROVE BelowUnused'
  <2>1. wal' = wal /\ ntx' = ntx
    BY <1>6, PassSteps DEF CkptRest, vars, logVars
  <2> QED
    BY <1>2, <2>1
<1> QED
  BY <1>4, <1>5, <1>6 DEF Next, ConnStep

\* A mark that a pass can find below its own frame count is a reader's.
LEMMA UnusedIsHigh == ASSUME Base, BelowUnused PROVE Len(wal) < Unused
<1>1. ntx \in Nat /\ MaxTx \in Nat /\ ntx <= MaxTx /\ NPages \in Nat /\ Len(wal) \in Nat
  <2>1. ntx \in 0 .. MaxTx /\ Len(wal) \in Nat
    BY LogTypes DEF Base, TypeOK, Tx
  <2> QED
    BY <2>1, Numbers, SMTT(30)
<1>2. ntx * NPages <= MaxTx * NPages /\ ntx * NPages \in Nat /\ MaxTx * NPages \in Nat
  BY <1>1, Products
<1> QED
  BY <1>1, <1>2, SMTT(30) DEF BelowUnused, Unused

-----------------------------------------------------------------------------
(* The main file holds what nBackfill counts.                              *)

BackfillInv ==
  /\ WholeInv /\ Marks /\ FileFromLog
  /\ PassAdvances /\ BelowUnused /\ Pass /\ BackfillOnDisk

\* What a pass of a whole log copies: the frames up to its safe one.
LEMMA PassCopies ==
  ASSUME Base, Pass, ck.at # "idle"
  PROVE  /\ ck.safe \in Nat /\ ck.safe > 0 /\ ck.safe <= ck.valid /\ ck.safe \in 1 .. Len(wal)
         /\ Len(Copied) = ck.safe /\ CommitEnd(Copied) = ck.safe
         /\ \A i \in 1 .. ck.safe : i \in 1 .. Len(wal) /\ Copied[i] = wal[i]
<1>1. TypeOK /\ PassReadsLog /\ CkTypes /\ Len(wal) \in Nat
  BY TypeParts, LogTypes DEF Base
<1>2. ck.valid \in Nat /\ ck.valid <= Len(wal)
  <2>1. ck.valid \in Nat
    BY <1>1, SMTT(30) DEF CkTypes
  <2> QED
    BY <1>1, <2>1 DEF PassReadsLog
<1>3. ck.safe \in 1 .. ck.valid /\ wal[ck.safe].commit
  BY DEF Pass
<1>4. /\ ck.safe \in Nat /\ ck.safe > 0 /\ ck.safe <= ck.valid /\ ck.safe \in 1 .. Len(wal)
      /\ ck.safe \in 1 .. ck.safe /\ (ck.valid < ck.safe <=> FALSE)
  BY <1>1, <1>2, <1>3, SMTT(30)
<1>5. /\ Copied \in Seq(Frame) /\ Len(Copied) = ck.safe
      /\ \A i \in 1 .. ck.safe : Copied[i] = wal[i]
  BY <1>1, <1>4, CopiedFacts
<1>6. Copied[ck.safe].commit
  BY <1>3, <1>4, <1>5
<1>7. CommitEnd(Copied) \in 0 .. ck.safe /\ ck.safe <= CommitEnd(Copied)
  BY <1>4, <1>5, <1>6, CommitEndFacts
<1>8. CommitEnd(Copied) = ck.safe
  BY <1>4, <1>7, SMTT(30)
<1>9. \A i \in 1 .. ck.safe : i \in 1 .. Len(wal)
  BY <1>1, <1>4, SMTT(30)
<1> QED
  BY <1>4, <1>5, <1>8, <1>9

\* Those are all the pages of the frames up to the safe one, each in its newest
\* version there.
LEMMA PassPages ==
  ASSUME Base, LogOrdered, Pass, ck.at # "idle"
  PROVE  /\ DOMAIN committed_pages(Copied) = {wal[i].page : i \in 1 .. ck.safe}
         /\ \A i \in 1 .. ck.safe : committed_pages(Copied)[wal[i].page] >= wal[i].tx
<1>1. /\ CommitEnd(Copied) = ck.safe /\ Copied \in Seq(Frame) /\ TypeOK
      /\ \A i \in 1 .. ck.safe : i \in 1 .. Len(wal) /\ Copied[i] = wal[i]
  BY PassCopies, CopiedFacts DEF Base
<1>2. DOMAIN committed_pages(Copied) = {Copied[i].page : i \in 1 .. ck.safe}
  BY <1>1, CommittedPages
<1>3. {Copied[i].page : i \in 1 .. ck.safe} = {wal[i].page : i \in 1 .. ck.safe}
  BY <1>1
<1>4. ASSUME NEW i \in 1 .. ck.safe PROVE committed_pages(Copied)[wal[i].page] >= wal[i].tx
  <2>1. wal[i].page \in DOMAIN committed_pages(Copied)
    BY <1>2, <1>3
  <2>2. PICK l \in 1 .. ck.safe : /\ committed_pages(Copied)[wal[i].page] = Copied[l].tx
                                  /\ \A j \in 1 .. ck.safe : Copied[j].page = wal[i].page => j <= l
    <3>1. Copied \in Seq(Frame) /\ CommitEnd(Copied) = ck.safe
      BY <1>1
    <3>2. \E l \in 1 .. CommitEnd(Copied) :
            /\ Copied[l].page = wal[i].page /\ committed_pages(Copied)[wal[i].page] = Copied[l].tx
            /\ \A j \in 1 .. CommitEnd(Copied) : Copied[j].page = wal[i].page => j <= l
      BY <2>1, <3>1, CommittedPages
    <3> QED
      BY <3>1, <3>2
  <2>3. i <= l /\ Copied[l] = wal[l] /\ i \in 1 .. Len(wal) /\ l \in 1 .. Len(wal)
    BY <1>1, <2>2
  <2>4. wal[i].tx <= wal[l].tx /\ wal[i].tx \in Nat /\ wal[l].tx \in Nat
    BY <1>1, <2>3, LogTypes DEF LogOrdered
  <2>5. wal[l].tx >= wal[i].tx
    BY <2>4, SMTT(30)
  <2> QED
    BY <2>2, <2>3, <2>5
<1> QED
  BY <1>2, <1>3, <1>4

\* The parts of Pass and BackfillOnDisk that depend on the file.
LEMMA BackfillConnStep ==
  ASSUME BackfillInv, NEW c \in Conn, ConnStep(c) PROVE Pass' /\ BackfillOnDisk'
<1>0. /\ Base /\ TypeOK /\ Len(wal) \in Nat /\ nBackfill \in Nat /\ [Next]_vars /\ DOMAIN wal = 1 .. Len(wal)
      /\ wal' \in Seq(Frame)
  <2>1. Base
    BY DEF BackfillInv, WholeInv
  <2>2. [Next]_vars
    BY DEF Next, ConnStep
  <2>3. Extended
    BY <2>1, ConnExtends
  <2> QED
    BY <2>1, <2>2, <2>3, LogTypes DEF Base, TypeOK, Extended
<1>1. /\ file' = file /\ maybe' = maybe /\ nBackfill' = nBackfill /\ (ck' = ck \/ ck' = Idle)
      /\ Extended
  BY <1>0, ConnLog, ConnExtends
<1>2. /\ nBackfill <= Stable /\ Stable \in Nat /\ Stable' \in Nat /\ Stable <= Stable'
      /\ Stable <= Len(wal)
  BY <1>0, StableStep DEF BackfillInv, Pass
<1>3. nBackfill' <= Stable' /\ \A i \in 1 .. Len(wal') : i <= nBackfill => i \in 1 .. Len(wal)
  BY <1>0, <1>1, <1>2, SeqDomain, SMTT(30)
<1>4. DOMAIN wal' = 1 .. Len(wal') /\ \A i \in 1 .. Len(wal) : wal'[i] = wal[i]
  BY <1>0, <1>1, SeqDomain DEF Extended
<1>5. BackfillOnDisk'
  BY <1>0, <1>1, <1>3, <1>4 DEF BackfillInv, BackfillOnDisk
<1>6. CASE ck' = Idle
  BY <1>3, <1>5, <1>6, IdleFields DEF Pass
<1>7. CASE ck' = ck
  <2>1. CASE ck.at = "idle"
    BY <1>3, <1>5, <1>7, <2>1 DEF Pass
  <2>2. CASE ck.at # "idle"
    <3>1. ck.safe \in 1 .. Len(wal) /\ \A i \in 1 .. ck.safe : i \in 1 .. Len(wal)
      BY <1>0, <2>2, PassCopies DEF BackfillInv
    <3> QED
      BY <1>1, <1>3, <1>4, <1>5, <1>7, <3>1 DEF BackfillInv, Pass
  <2> QED
    BY <2>1, <2>2
<1> QED
  BY <1>1, <1>6, <1>7

LEMMA BackfillPassStep ==
  ASSUME BackfillInv, Checkpoint PROVE Pass' /\ BackfillOnDisk'
<1>0. /\ Base /\ LogOrdered /\ WholeLog /\ Pass /\ BackfillOnDisk /\ FileFromLog /\ Marks /\ TypeOK
      /\ Len(wal) \in Nat /\ DOMAIN wal = 1 .. Len(wal) /\ nBackfill \in Nat
      /\ maybe \in [Page -> SUBSET Tx] /\ file \in [Page -> Tx]
      /\ \A i \in 1 .. Len(wal) : wal[i].page \in Page /\ wal[i].tx \in Nat
      /\ ck.safe \in Nat /\ ck.valid \in Nat
  <2>1. CkTypes
    BY TypeParts DEF BackfillInv, WholeInv, Base
  <2>2. ck.safe \in Nat /\ ck.valid \in Nat
    BY <2>1, SMTT(30) DEF CkTypes
  <2> QED
    BY <2>2, LogTypes DEF BackfillInv, WholeInv, Base, TypeOK
<1>1. wal' = wal /\ synced' = synced /\ mark' = mark /\ Stable' = Stable
  BY <1>0, PassSteps DEF CkptRest, logVars, Stable
<1>2. CASE PassBegins
  <2>1. /\ ck'.at = "probe" /\ ck'.valid = Len(wal) /\ ck'.safe = FramesInFile /\ FramesInFile > 0
        /\ PassKeeps
    BY <1>2 DEF PassBegins
  <2>2. FramesInFile = Len(wal) /\ Len(wal) > 0
    BY <1>0, <2>1, SMTT(30) DEF FramesInFile, WholeLog
  <2>3. Len(wal) \in 1 .. Len(wal) /\ wal # << >>
    BY <1>0, <2>2, SMTT(30)
  <2>4. ck'.safe \in 1 .. ck'.valid /\ wal'[ck'.safe].commit
    BY <1>0, <1>1, <2>1, <2>2, <2>3 DEF WholeLog
  <2> QED
    BY <1>0, <1>1, <2>1, <2>4 DEF Pass, BackfillOnDisk, PassKeeps
<1>3. CASE PassProbes
  <2>1. /\ ck.at = "probe" /\ ck'.at = "probe" /\ ck'.valid = ck.valid /\ ck.next \in Slot
        /\ file' = file /\ maybe' = maybe /\ nBackfill' = nBackfill
        /\ ck'.safe = ck.safe \/ (ck'.safe = mark[ck.next] /\ mark[ck.next] > 0 /\ mark[ck.next] < ck.safe)
    BY <1>3 DEF PassProbes
  <2>2. ck.safe \in 1 .. ck.valid /\ wal[ck.safe].commit /\ ck.safe <= Len(wal)
    <3>1. ck.safe \in 1 .. Len(wal)
      BY <1>0, <2>1, PassCopies
    <3>2. ck.safe <= Len(wal)
      BY <1>0, <3>1, SMTT(30)
    <3> QED
      BY <1>0, <2>1, <3>2 DEF Pass
  <2>3. ck'.safe \in 1 .. ck.valid /\ wal[ck'.safe].commit
    <3>1. CASE ck'.safe = ck.safe
      BY <2>2, <3>1
    <3>2. CASE ck'.safe = mark[ck.next] /\ mark[ck.next] > 0 /\ mark[ck.next] < ck.safe
      <4>1. Len(wal) < Unused /\ Unused \in Nat
        <5>1. MaxTx * NPages \in Nat
          BY Numbers, Products
        <5>2. Unused \in Nat
          BY <5>1, SMTT(30) DEF Unused
        <5> QED
          BY <1>0, <5>2, UnusedIsHigh DEF BackfillInv
      <4>2. mark[ck.next] \in Nat
        BY <1>0, <2>1 DEF TypeOK
      <4>3. mark[ck.next] # Unused /\ mark[ck.next] # 0 /\ mark[ck.next] \in 1 .. ck.valid
        BY <1>0, <2>2, <3>2, <4>1, <4>2, SMTT(30)
      <4>4. wal[mark[ck.next]].commit
        BY <1>0, <2>1, <4>3 DEF Marks, CommitPoint
      <4> QED
        BY <3>2, <4>3, <4>4
    <3> QED
      BY <2>1, <3>1, <3>2
  <2> QED
    BY <1>0, <1>1, <2>1, <2>3 DEF Pass, BackfillOnDisk
<1>4. ck.at # "idle" => /\ ck.safe \in 1 .. ck.valid /\ wal[ck.safe].commit
                        /\ \A i \in 1 .. ck.safe : i \in 1 .. Len(wal)
  BY <1>0, PassCopies DEF Pass
<1>5. CASE PassDecides
  <2>1. /\ ck.at = "probe" /\ ck'.at = "write" /\ ck'.valid = ck.valid /\ ck'.safe = ck.safe
        /\ ck'.todo = DOMAIN committed_pages(Copied) /\ PassKeeps
    BY <1>5 DEF PassDecides
  <2>2. \A i \in 1 .. ck.safe : wal[i].page \in ck'.todo
    BY <1>0, <2>1, PassPages
  <2> QED
    BY <1>0, <1>1, <1>4, <2>1, <2>2 DEF Pass, BackfillOnDisk, PassKeeps
<1>6. ASSUME NEW p \in Page, PassWrites(p) PROVE Pass' /\ BackfillOnDisk'
  <2> DEFINE v == committed_pages(Copied)[p]
  <2>1. /\ ck.at = "write" /\ ck'.at = "write" /\ ck'.valid = ck.valid /\ ck'.safe = ck.safe
        /\ ck'.todo = ck.todo \ {p} /\ nBackfill' = nBackfill
        /\ file' = [file EXCEPT ![p] = v] /\ maybe' = [maybe EXCEPT ![p] = maybe[p] \cup {v}]
    BY <1>6 DEF PassWrites
  <2>2. \A i \in 1 .. ck.safe : wal[i].page = p => v >= wal[i].tx
    BY <1>0, <2>1, PassPages
  <2> HIDE DEF v
  <2>3. \A i \in 1 .. Len(wal) : i <= nBackfill => i \in 1 .. ck.safe
    <3>1. ck.safe > nBackfill
      BY <2>1 DEF BackfillInv, PassAdvances
    <3> QED
      BY <1>0, <3>1, SMTT(30)
  <2>4. \A q \in Page : /\ file'[q] = IF q = p THEN v ELSE file[q]
                        /\ maybe'[q] = IF q = p THEN maybe[p] \cup {v} ELSE maybe[q]
    BY <1>0, <2>1
  <2>5. \A i \in 1 .. ck.safe : wal[i].page \in ck'.todo \/ file'[wal[i].page] >= wal[i].tx
    BY <1>0, <1>4, <2>1, <2>2, <2>4 DEF Pass
  <2>6. ASSUME NEW i \in 1 .. Len(wal), i <= nBackfill, NEW u \in maybe'[wal[i].page] PROVE u >= wal[i].tx
    <3>1. \A w \in maybe[wal[i].page] : w >= wal[i].tx
      BY <1>0, <2>6 DEF BackfillOnDisk
    <3>2. CASE wal[i].page = p
      <4>1. v >= wal[i].tx
        BY <2>2, <2>3, <2>6, <3>2
      <4>2. u \in maybe[p] \cup {v}
        BY <2>4, <2>6, <3>2
      <4> QED
        BY <3>1, <3>2, <4>1, <4>2
    <3>3. CASE wal[i].page # p
      <4>1. u \in maybe[wal[i].page]
        BY <1>0, <2>4, <2>6, <3>3
      <4> QED
        BY <3>1, <4>1
    <3> QED
      BY <3>2, <3>3
  <2>7. BackfillOnDisk'
    BY <1>0, <1>1, <2>1, <2>6 DEF BackfillOnDisk
  <2> QED
    BY <1>0, <1>1, <1>4, <2>1, <2>5, <2>7 DEF Pass
<1>7. CASE PassSyncs
  <2>1. /\ ck.at = "write" /\ ck.todo = {} /\ ck'.at = "publish" /\ ck'.valid = ck.valid /\ ck'.safe = ck.safe
        /\ file' = file /\ nBackfill' = nBackfill /\ \A q \in Page : maybe'[q] = {file[q]}
    BY <1>7 DEF PassSyncs
  <2>2. \A i \in 1 .. ck.safe : file[wal[i].page] >= wal[i].tx
    BY <1>0, <2>1 DEF Pass
  <2>3. \A i \in 1 .. ck.safe : \A u \in maybe'[wal[i].page] : u >= wal[i].tx
    BY <1>0, <1>4, <2>1, <2>2
  <2>4. \A q \in Page : maybe'[q] \subseteq maybe[q]
    BY <1>0, <2>1 DEF FileFromLog
  <2>5. BackfillOnDisk'
    BY <1>0, <1>1, <2>1, <2>4 DEF BackfillOnDisk
  <2> QED
    BY <1>0, <1>1, <1>4, <2>1, <2>3, <2>5 DEF Pass
<1>8. CASE PassPublishes
  <2>1. ck.at = "publish" /\ nBackfill' = ck.safe /\ ck'.at = "idle" /\ file' = file /\ maybe' = maybe
    BY <1>8 DEF PassPublishes
  <2>2. ck.safe <= Stable
    <3>1. ck.valid <= Stable /\ ck.safe \in 1 .. ck.valid /\ Stable \in Nat
      <4>1. Stable \in Nat
        BY <1>0, LogTypes DEF Stable
      <4> QED
        BY <1>0, <1>4, <2>1, <4>1 DEF FileFromLog
    <3> QED
      BY <1>0, <3>1, SMTT(30)
  <2>3. \A i \in 1 .. Len(wal) : i <= ck.safe => i \in 1 .. ck.safe
    BY <1>0, SMTT(30)
  <2> QED
    BY <1>0, <1>1, <2>1, <2>2, <2>3 DEF Pass, BackfillOnDisk
<1>9. CASE PassEnds
  BY <1>0, <1>1, <1>9 DEF PassEnds, PassKeeps, Pass, BackfillOnDisk
<1> QED
  BY <1>0, <1>2, <1>3, <1>5, <1>6, <1>7, <1>8, <1>9, PassSteps

LEMMA BackfillPowerStep == ASSUME BackfillInv, PowerLoss PROVE Pass' /\ BackfillOnDisk'
<1>0. /\ Base /\ TypeOK /\ Pass /\ BackfillOnDisk /\ Len(wal) \in Nat /\ DOMAIN wal = 1 .. Len(wal)
      /\ nBackfill \in Nat /\ synced \in Nat /\ synced <= Len(wal) /\ PowerFails
      /\ \A i \in 1 .. Len(wal) : wal[i].page \in Page
  BY LogTypes DEF BackfillInv, WholeInv, Base, TypeOK, PowerLoss
<1>1. /\ wal' \in Seq(Frame) /\ synced' = Len(wal') /\ Len(wal') \in Nat /\ Len(wal') >= synced
      /\ Len(wal') <= Len(wal) /\ \A i \in 1 .. Len(wal') : wal'[i] = wal[i]
  BY <1>0, PowerLossLog
<1>2. nBackfill' \in Nat /\ nBackfill' <= nBackfill
  <2>1. nBackfill' \in {0, nBackfill} \cup {i \in 1 .. Len(wal) : i < nBackfill /\ wal[i].commit}
    BY <1>0 DEF PowerLoss, Earlier
  <2>2. nBackfill' = 0 \/ nBackfill' = nBackfill \/ (nBackfill' \in 1 .. Len(wal) /\ nBackfill' < nBackfill)
    BY <2>1
  <2> QED
    BY <1>0, <2>2, SMTT(30)
<1>3. nBackfill <= synced
  BY <1>0 DEF Pass, Stable
<1>4. nBackfill' <= Stable'
  BY <1>0, <1>1, <1>2, <1>3, SMTT(30) DEF Stable
<1>5. DOMAIN wal' = 1 .. Len(wal') /\ \A i \in 1 .. Len(wal') : i \in 1 .. Len(wal) /\ (i <= nBackfill' => i <= nBackfill)
  BY <1>0, <1>1, <1>2, SeqDomain, SMTT(30)
<1>6. \A q \in Page : maybe'[q] \subseteq maybe[q]
  BY DEF PowerLoss
<1>7. BackfillOnDisk'
  BY <1>0, <1>1, <1>5, <1>6 DEF BackfillOnDisk
<1>8. ck'.at = "idle"
  BY IdleFields DEF PowerLoss
<1> QED
  BY <1>4, <1>7, <1>8 DEF Pass

LEMMA BackfillAlways == ASSUME Durable, CopiesStay PROVE Spec => []BackfillInv
<1> DEFINE J == PassAdvances /\ BelowUnused /\ Pass /\ BackfillOnDisk
<1>1. Init => J
  <2> SUFFICES ASSUME Init PROVE J
    OBVIOUS
  <2>1. wal = << >> /\ ck.at = "idle" /\ nBackfill = 0 /\ ntx = 0 /\ synced = 0
    BY IdleFields DEF Init, NoFrames
  <2>2. Len(wal) = 0 /\ DOMAIN wal = {} /\ 0 <= 0
    BY <2>1, SMTT(30)
  <2>3. 0 * NPages = 0
    BY Numbers, SMTT(30)
  <2> QED
    BY <2>1, <2>2, <2>3 DEF PassAdvances, BelowUnused, Pass, BackfillOnDisk, Stable
<1>2. BackfillInv /\ [Next]_vars => J'
  <2> SUFFICES ASSUME BackfillInv, [Next]_vars PROVE J'
    OBVIOUS
  <2>1. Base /\ PassAdvances /\ BelowUnused /\ Pass /\ BackfillOnDisk
    BY DEF BackfillInv, WholeInv
  <2>2. PassAdvances' /\ BelowUnused'
    BY <2>1, PassAdvancesStep, BelowUnusedStep
  <2>3. CASE UNCHANGED vars
    BY <2>1, <2>2, <2>3 DEF vars, logVars, shmVars, Pass, BackfillOnDisk, Stable
  <2> QED
    BY <2>2, <2>3, BackfillConnStep, BackfillPassStep, BackfillPowerStep DEF Next, ConnStep
<1>3. (WholeInv /\ Marks) /\ (Base /\ LogOrdered /\ FileFromLog) /\ J => BackfillInv
  BY DEF BackfillInv
<1>4. BackfillInv => J
  BY DEF BackfillInv
<1> HIDE DEF J
<1> QED
  BY <1>1, <1>2, <1>3, <1>4, MarksAlways, FileFromLogAlways, PTL DEF Spec

\* checkpoint_passive may report and publish what it does: through every crash,
\* failing write and power loss, the pages of the frames that nBackfill counts
\* are in the main file, in that version or a newer one, and synced.
THEOREM BackfillIsOnDisk == ASSUME Durable, CopiesStay PROVE Spec => []BackfillOnDisk
<1>1. BackfillInv => BackfillOnDisk
  BY DEF BackfillInv
<1> QED
  BY <1>1, BackfillAlways, PTL

-----------------------------------------------------------------------------
(* Readers keep their snapshots.                                           *)

\* What a connection's step does to slots, marks and pins.
LEMMA SlotSteps ==
  ASSUME Base, NEW c \in Conn, ConnStep(c)
  PROVE  \/ ClaimSlot(c)
         \/ PublishMark(c)
         \/ Gone({c}) /\ mark' = mark
         \/ /\ slot' = slot /\ readLock' = readLock /\ mark' = mark /\ pin' = pin
            /\ pc[c] \notin {"closed", "claimed"}
            /\ \A d \in Conn : d # c => pc'[d] = pc[d]
<1>0. TypeOK /\ ConnTypes
  BY TypeParts DEF Base
<1>1. CASE Close(c) \/ Crash(c)
  BY <1>1 DEF Close, Crash
<1>2. CASE read_wal_pages(c) \/ (\E D \in SUBSET Page : claim_write_lock(c, D)) \/ sync_write(c)
           \/ sync_fsync(c) \/ sync_skipped(c) \/ publish_mx_frame(c)
  <2>1. PICK here \in {"marked", "ready", "flush", "written", "synced"} : \E there : Goto(c, here, there)
    BY <1>2 DEF read_wal_pages, claim_write_lock, sync_write, sync_fsync, sync_skipped, publish_mx_frame
  <2>2. pc[c] = here /\ \A d \in Conn : d # c => pc'[d] = pc[d]
    BY <1>0, <2>1, GotoFacts
  <2>3. here \notin {"closed", "claimed"}
    BY <2>1
  <2>4. slot' = slot /\ readLock' = readLock /\ mark' = mark /\ pin' = pin
    BY <1>2 DEF read_wal_pages, claim_write_lock, sync_write, sync_fsync, sync_skipped,
                publish_mx_frame, shmVars
  <2> QED
    BY <2>2, <2>3, <2>4
<1>3. CASE begin_immediate(c) \/ rollback(c) \/ claim_write_lock_refused(c)
  BY <1>3 DEF begin_immediate, rollback, claim_write_lock_refused, Ready, shmVars
<1>4. CASE FlushFails(c)
  BY <1>0, <1>4 DEF FlushFails, ConnTypes
<1> QED
  BY <1>1, <1>2, <1>3, <1>4 DEF ConnStep, Open, Flush

LEMMA SlotsHeldStep ==
  ASSUME ~ PagersCheckpoint, Base, SlotsHeld, [Next]_vars PROVE SlotsHeld'
<1>0. /\ TypeOK /\ ShmTypes /\ ConnTypes /\ NoProc \notin Conn /\ Conn \cap Checkpointer = {}
  BY TypeParts, WalConstants DEF Base
<1> DEFINE Held(c) == /\ pc'[c] # "closed" => slot'[c] \in Slot /\ readLock'[slot'[c]] = c
                      /\ pc'[c] \notin {"closed", "claimed"} => mark'[slot'[c]] = pin'[c]
<1>1. ASSUME ck'.at # "idle" => ck'.by \in Checkpointer, \A c \in Conn : Held(c) PROVE SlotsHeld'
  BY <1>1 DEF SlotsHeld
<1>2. ASSUME NEW c \in Conn, ConnStep(c) PROVE SlotsHeld'
  <2>1. ck'.at # "idle" => ck'.by \in Checkpointer
    BY <1>2, ConnLog, IdleFields DEF SlotsHeld
  <2>2. CASE ClaimSlot(c)
    <3>1. PICK s \in Slot : /\ readLock[s] = NoProc /\ readLock' = [readLock EXCEPT ![s] = c]
                            /\ slot' = [slot EXCEPT ![c] = s]
      BY <2>2 DEF ClaimSlot
    <3>2. pc'[c] = "claimed" /\ (\A d \in Conn : d # c => pc'[d] = pc[d]) /\ mark' = mark /\ pin' = pin
      BY <1>0, <2>2, GotoFacts DEF ClaimSlot
    <3>3. /\ slot'[c] = s /\ readLock'[s] = c
          /\ \A d \in Conn : d # c => slot'[d] = slot[d]
          /\ \A t \in Slot : t # s => readLock'[t] = readLock[t]
      BY <1>0, <3>1 DEF ShmTypes, ConnTypes
    <3>4. \A d \in Conn : Held(d)
      <4> TAKE d \in Conn
      <4>1. CASE d = c
        BY <3>2, <3>3, <4>1
      <4>2. CASE d # c
        <5>1. /\ pc[d] # "closed" => slot[d] \in Slot /\ readLock[slot[d]] = d
              /\ pc[d] \notin {"closed", "claimed"} => mark[slot[d]] = pin[d]
          BY DEF SlotsHeld
        <5>2. pc[d] # "closed" => slot[d] # s
          BY <1>0, <3>1, <5>1
        <5> QED
          BY <3>2, <3>3, <4>2, <5>1, <5>2
      <4> QED
        BY <4>1, <4>2
    <3> QED
      BY <1>1, <2>1, <3>4
  <2>3. CASE PublishMark(c)
    <3>1. /\ pc[c] = "claimed" /\ (\A d \in Conn : d # c => pc'[d] = pc[d])
          /\ slot' = slot /\ readLock' = readLock
          /\ mark' = [mark EXCEPT ![slot[c]] = mxFrame] /\ pin' = [pin EXCEPT ![c] = mxFrame]
      BY <1>0, <2>3, GotoFacts DEF PublishMark
    <3>2. slot[c] \in Slot /\ readLock[slot[c]] = c
      BY <3>1 DEF SlotsHeld
    <3>3. /\ mark'[slot[c]] = mxFrame /\ pin'[c] = mxFrame
          /\ \A d \in Conn : d # c => pin'[d] = pin[d]
          /\ \A t \in Slot : t # slot[c] => mark'[t] = mark[t]
      BY <1>0, <3>1, <3>2 DEF ShmTypes, ConnTypes
    <3>4. \A d \in Conn : Held(d)
      <4> TAKE d \in Conn
      <4>1. CASE d = c
        BY <3>1, <3>2, <3>3, <4>1
      <4>2. CASE d # c
        <5>1. /\ pc[d] # "closed" => slot[d] \in Slot /\ readLock[slot[d]] = d
              /\ pc[d] \notin {"closed", "claimed"} => mark[slot[d]] = pin[d]
          BY DEF SlotsHeld
        <5>2. pc[d] # "closed" => slot[d] # slot[c]
          BY <3>2, <4>2, <5>1
        <5> QED
          BY <3>1, <3>3, <4>2, <5>1, <5>2
      <4> QED
        BY <4>1, <4>2
    <3> QED
      BY <1>1, <2>1, <3>4
  <2>4. CASE Gone({c}) /\ mark' = mark
    <3>1. /\ pc'[c] = "closed"
          /\ \A d \in Conn : d # c => pc'[d] = pc[d] /\ slot'[d] = slot[d] /\ pin'[d] = pin[d]
          /\ \A t \in Slot : readLock[t] # c => readLock'[t] = readLock[t]
      BY <2>4 DEF Gone
    <3>2. \A d \in Conn : Held(d)
      <4> TAKE d \in Conn
      <4>1. CASE d = c
        BY <3>1, <4>1
      <4>2. CASE d # c
        <5>1. /\ pc[d] # "closed" => slot[d] \in Slot /\ readLock[slot[d]] = d
              /\ pc[d] \notin {"closed", "claimed"} => mark[slot[d]] = pin[d]
          BY DEF SlotsHeld
        <5> QED
          BY <2>4, <3>1, <4>2, <5>1
      <4> QED
        BY <4>1, <4>2
    <3> QED
      BY <1>1, <2>1, <3>2
  <2>5. CASE /\ slot' = slot /\ readLock' = readLock /\ mark' = mark /\ pin' = pin
             /\ pc[c] \notin {"closed", "claimed"}
             /\ \A d \in Conn : d # c => pc'[d] = pc[d]
    <3>1. \A d \in Conn : Held(d)
      BY <2>5 DEF SlotsHeld
    <3> QED
      BY <1>1, <2>1, <3>1
  <2> QED
    BY <1>2, <2>2, <2>3, <2>4, <2>5, SlotSteps
<1>3. ASSUME Checkpoint PROVE SlotsHeld'
  <2>1. pc' = pc /\ slot' = slot /\ pin' = pin /\ mark' = mark
    BY <1>3, PassSteps DEF CkptRest, connVars
  <2>2. CASE PassProbes
    <3>1. ck.by \in Checkpointer /\ ck'.by = ck.by
      BY <2>2 DEF PassProbes, SlotsHeld
    <3>2. \A s \in Slot : readLock[s] \in Conn => readLock'[s] = readLock[s]
      BY <1>0, <2>2, <3>1 DEF PassProbes, ShmTypes
    <3>3. \A d \in Conn : Held(d)
      BY <2>1, <3>2 DEF SlotsHeld
    <3> QED
      BY <1>1, <3>1, <3>3
  <2>3. CASE readLock' = readLock /\ (ck'.at # "idle" => ck'.by \in Checkpointer)
    <3>1. \A d \in Conn : Held(d)
      BY <2>1, <2>3 DEF SlotsHeld
    <3> QED
      BY <1>1, <2>3, <3>1
  <2>4. ASSUME PassBegins \/ PassEnds \/ PassPublishes
        PROVE  readLock' = readLock /\ (ck'.at # "idle" => ck'.by \in Checkpointer)
    BY <2>4 DEF PassBegins, PassEnds, PassPublishes, PassKeeps
  <2>5. ASSUME PassDecides \/ PassSyncs \/ \E p \in Page : PassWrites(p)
        PROVE  readLock' = readLock /\ (ck'.at # "idle" => ck'.by \in Checkpointer)
    BY <2>5 DEF PassDecides, PassSyncs, PassWrites, PassKeeps, SlotsHeld
  <2> QED
    BY <1>3, <2>2, <2>3, <2>4, <2>5, PassSteps
<1>4. CASE PowerLoss
  <2>1. ck'.at = "idle" /\ \A c \in Conn : pc'[c] = "closed"
    BY <1>4, IdleFields DEF PowerLoss, Gone
  <2> QED
    BY <1>1, <2>1
<1>5. CASE UNCHANGED vars
  BY <1>5 DEF vars, shmVars, connVars, SlotsHeld
<1> QED
  BY <1>2, <1>3, <1>4, <1>5 DEF Next, ConnStep

\* What Snapshot says of one connection.
Active(c) == (pc[c] = "ready" \/ Flushing(c)) /\ pin[c] > 0

Good(c) ==
  Active(c) =>
    /\ Over(overlay[c], file) = sees[c]
    /\ Covers(c, pin[c])
    /\ ck.at = "probe" => slot[c] >= ck.next \/ ck.safe <= pin[c] \/ Covers(c, ck.valid)
    /\ ck.at = "write" => ck.todo \subseteq DOMAIN overlay[c]

LEMMA SnapshotIsGood ==
  /\ Snapshot <=> ck.valid <= Len(wal) /\ \A c \in Conn : Good(c)
  /\ Snapshot' <=> ck'.valid <= Len(wal') /\ \A c \in Conn : Good(c)'
  BY DEF Snapshot, Good, Active

\* The frames that c's overlay covers are old ones when others append.
LEMMA CoversStays ==
  ASSUME TypeOK, Extended, NEW c \in Conn, NEW n \in Nat, n <= Len(wal), Covers(c, n),
         DOMAIN overlay[c] \subseteq DOMAIN overlay'[c]
  PROVE  \A i \in 1 .. Len(wal') : i <= n => wal'[i].page \in DOMAIN overlay'[c]
<1>1. Len(wal) \in Nat /\ Len(wal') \in Nat
  BY LogTypes, SeqDomain DEF Extended
<1>2. \A i \in 1 .. Len(wal') : i <= n => i \in 1 .. Len(wal)
  BY <1>1, SMTT(30)
<1> QED
  BY <1>2 DEF Covers, Extended

\* A connection's step that leaves the overlay of d as it was, or extends it.
LEMMA GoodStays ==
  ASSUME Base, Marks, Extended, NEW d \in Conn, Good(d), Active(d)' => Active(d),
         Active(d)' => slot'[d] = slot[d] /\ pin'[d] = pin[d],
         Active(d)' => DOMAIN overlay[d] \subseteq DOMAIN overlay'[d],
         Active(d)' => Over(overlay'[d], file') = sees'[d],
         ck' = ck \/ ck' = Idle
  PROVE  Good(d)'
<1> SUFFICES ASSUME Active(d)' PROVE /\ Over(overlay'[d], file') = sees'[d]
                                     /\ Covers(d, pin[d])'
                                     /\ ck'.at = "probe" => \/ slot'[d] >= ck'.next
                                                            \/ ck'.safe <= pin'[d]
                                                            \/ Covers(d, ck.valid)'
                                     /\ ck'.at = "write" => ck'.todo \subseteq DOMAIN overlay'[d]
  BY DEF Good
<1>1. /\ slot'[d] = slot[d] /\ pin'[d] = pin[d] /\ DOMAIN overlay[d] \subseteq DOMAIN overlay'[d]
      /\ Covers(d, pin[d])
      /\ ck.at = "probe" => slot[d] >= ck.next \/ ck.safe <= pin[d] \/ Covers(d, ck.valid)
      /\ ck.at = "write" => ck.todo \subseteq DOMAIN overlay[d]
  BY DEF Good
<1>2. /\ TypeOK /\ pin[d] \in Nat /\ pin[d] <= Len(wal) /\ ck.valid \in Nat /\ ck.valid <= Len(wal)
  <2>1. TypeOK /\ CkTypes /\ pin[d] \in Nat /\ CommitPoint(pin[d])
    BY TypeParts DEF Base, ConnTypes, Marks
  <2>2. ck.valid \in Nat /\ ck.valid <= Len(wal)
    <3>1. ck.valid \in Nat
      BY <2>1, SMTT(30) DEF CkTypes
    <3> QED
      BY <3>1 DEF Base, PassReadsLog
  <2>3. synced \in Nat /\ synced <= Len(wal) /\ Len(wal) \in Nat
    BY <2>1, LogTypes
  <2>4. pin[d] <= Len(wal)
    <3>1. pin[d] = 0 \/ pin[d] \in 1 .. synced
      BY <2>1 DEF CommitPoint
    <3> QED
      BY <2>3, <3>1, SMTT(30)
  <2> QED
    BY <2>1, <2>2, <2>4
<1>3. \A i \in 1 .. Len(wal') : i <= pin[d] => wal'[i].page \in DOMAIN overlay'[d]
  BY <1>1, <1>2, CoversStays
<1>4. Covers(d, pin[d])'
  BY <1>1, <1>3 DEF Covers
<1>5. CASE ck' = Idle
  <2>1. ck'.at = "idle"
    BY <1>5, IdleFields
  <2> QED
    BY <1>4, <2>1
<1>6. CASE ck' = ck
  <2>1. Covers(d, ck.valid) => Covers(d, ck.valid)'
    <3> SUFFICES ASSUME Covers(d, ck.valid) PROVE Covers(d, ck.valid)'
      OBVIOUS
    <3>1. \A i \in 1 .. Len(wal') : i <= ck.valid => wal'[i].page \in DOMAIN overlay'[d]
      BY <1>2, CoversStays
    <3> QED
      BY <1>6, <3>1 DEF Covers
  <2> QED
    BY <1>1, <1>4, <1>6, <2>1
<1> QED
  BY <1>5, <1>6

\* What a connection's step does to overlays and to what connections see.
LEMMA OverlaySteps ==
  ASSUME Base, NEW c \in Conn, ConnStep(c)
  PROVE  \/ read_wal_pages(c)
         \/ publish_mx_frame(c)
         \/ \A d \in Conn : Active(d)' => /\ Active(d) /\ slot'[d] = slot[d] /\ pin'[d] = pin[d]
                                          /\ overlay'[d] = overlay[d] /\ sees'[d] = sees[d]
<1>0. TypeOK /\ ConnTypes
  BY TypeParts DEF Base
<1>1. CASE ClaimSlot(c) \/ PublishMark(c)
  <2>1. PICK there \in {"claimed", "marked"} : \E here : Goto(c, here, there)
    BY <1>1 DEF ClaimSlot, PublishMark
  <2>2. pc'[c] = there /\ \A d \in Conn : d # c => pc'[d] = pc[d]
    BY <1>0, <2>1, GotoFacts
  <2>3. there \notin {"ready", "flush", "written", "synced"}
    BY <2>1
  <2>4. /\ overlay' = overlay /\ sees' = sees
        /\ \A d \in Conn : d # c => slot'[d] = slot[d] /\ pin'[d] = pin[d]
    BY <1>0, <1>1 DEF ClaimSlot, PublishMark, ConnTypes
  <2> QED
    BY <2>2, <2>3, <2>4 DEF Active, Flushing
<1>2. CASE begin_immediate(c) \/ rollback(c) \/ claim_write_lock_refused(c)
  BY <1>2 DEF begin_immediate, rollback, claim_write_lock_refused, Active, Flushing
<1>3. CASE (\E D \in SUBSET Page : claim_write_lock(c, D)) \/ sync_write(c) \/ sync_fsync(c) \/ sync_skipped(c)
  <2>1. PICK here \in {"ready", "flush", "written"} : \E there : Goto(c, here, there)
    BY <1>3 DEF claim_write_lock, sync_write, sync_fsync, sync_skipped
  <2>2. pc[c] = here /\ \A d \in Conn : d # c => pc'[d] = pc[d]
    BY <1>0, <2>1, GotoFacts
  <2>3. slot' = slot /\ pin' = pin /\ overlay' = overlay /\ sees' = sees
    BY <1>3 DEF claim_write_lock, sync_write, sync_fsync, sync_skipped
  <2> QED
    BY <2>1, <2>2, <2>3 DEF Active, Flushing
<1>4. CASE FlushFails(c)
  <2>1. Flushing(c) /\ \A d \in Conn : d # c => pc'[d] = pc[d]
    BY <1>0, <1>4 DEF FlushFails, Flushing, ConnTypes
  <2>2. slot' = slot /\ pin' = pin /\ overlay' = overlay /\ sees' = sees
    BY <1>4 DEF FlushFails
  <2> QED
    BY <2>1, <2>2 DEF Active, Flushing
<1>5. CASE Close(c) \/ Crash(c)
  <2>1. Gone({c})
    BY <1>5 DEF Close, Crash
  <2>2. /\ pc'[c] = "closed"
        /\ \A d \in Conn : d # c => /\ pc'[d] = pc[d] /\ slot'[d] = slot[d] /\ pin'[d] = pin[d]
                                    /\ overlay'[d] = overlay[d] /\ sees'[d] = sees[d]
    BY <2>1 DEF Gone
  <2> QED
    BY <2>2 DEF Active, Flushing
<1> QED
  BY <1>1, <1>2, <1>3, <1>4, <1>5 DEF ConnStep, Open, Flush

\* A pager that opens takes all frames of the log into its overlay.
LEMMA OpenCoversAll ==
  ASSUME WholeInv, NEW c \in Conn, read_wal_pages(c) PROVE Good(c)'
<1>0. /\ Base /\ TypeOK /\ ConnTypes /\ WholeLog /\ wal \in Seq(Frame) /\ Len(wal) \in Nat
      /\ PassReadsLog
  BY TypeParts, LogTypes DEF WholeInv, Base
<1>1. /\ overlay' = [overlay EXCEPT ![c] = committed_pages(wal)]
      /\ sees' = [sees EXCEPT ![c] = Over(committed_pages(wal), file)]
      /\ file' = file /\ wal' = wal /\ ck' = ck
  BY DEF read_wal_pages, logVars
<1>2. overlay'[c] = committed_pages(wal) /\ sees'[c] = Over(committed_pages(wal), file)
  BY <1>0, <1>1 DEF ConnTypes
<1>3. \A i \in 1 .. Len(wal) : i <= CommitEnd(wal)
  <2>1. CASE wal = << >>
    BY <2>1, SMTT(30)
  <2>2. CASE wal # << >>
    <3>1. wal[Len(wal)].commit
      BY <1>0, <2>2 DEF WholeLog
    <3>2. Len(wal) \in 1 .. Len(wal)
      BY <1>0, <2>2, SMTT(30)
    <3>3. Len(wal) <= CommitEnd(wal) /\ CommitEnd(wal) \in 0 .. Len(wal)
      BY <1>0, <3>1, <3>2, CommitEndFacts
    <3> QED
      BY <1>0, <3>3, SMTT(30)
  <2> QED
    BY <2>1, <2>2
<1>4. \A i \in 1 .. Len(wal) : i \in 1 .. CommitEnd(wal)
  <2>1. CommitEnd(wal) \in 0 .. Len(wal)
    BY <1>0, CommitEndFacts
  <2> QED
    BY <1>0, <1>3, <2>1, SMTT(30)
<1>5. DOMAIN overlay'[c] = {wal[i].page : i \in 1 .. CommitEnd(wal)}
  BY <1>0, <1>2, CommittedPages
<1>6. \A i \in 1 .. Len(wal') : wal'[i].page \in DOMAIN overlay'[c]
  BY <1>1, <1>4, <1>5
<1>7. Covers(c, pin[c])' /\ Covers(c, ck.valid)'
  BY <1>6 DEF Covers
<1>8. ck.at = "write" => ck.todo \subseteq DOMAIN overlay'[c]
  <2>1. /\ Copied \in Seq(Frame) /\ Len(Copied) <= Len(wal) /\ Len(Copied) \in Nat
        /\ \A i \in 1 .. Len(Copied) : Copied[i] = wal[i]
    BY <1>0, CopiedFacts, SeqDomain
  <2>2. DOMAIN committed_pages(Copied) = {Copied[i].page : i \in 1 .. CommitEnd(Copied)}
    BY <2>1, CommittedPages
  <2>3. CommitEnd(Copied) \in 0 .. Len(Copied)
    BY <2>1, CommitEndFacts
  <2>4. \A i \in 1 .. CommitEnd(Copied) : i \in 1 .. Len(Copied) /\ i \in 1 .. Len(wal)
    BY <1>0, <2>1, <2>3, SMTT(30)
  <2>5. DOMAIN committed_pages(Copied) \subseteq DOMAIN overlay'[c]
    BY <1>4, <1>5, <2>1, <2>2, <2>4
  <2> QED
    BY <1>0, <2>5 DEF PassReadsLog
<1> QED
  BY <1>1, <1>2, <1>7, <1>8 DEF Good

\* A commit moves the overlay and what the connection sees alike.
LEMMA CommitMovesBoth ==
  ASSUME WholeInv, Marks, NEW c \in Conn, publish_mx_frame(c), \A d \in Conn : Good(d)
  PROVE  \A d \in Conn : Good(d)'
<1> DEFINE mine == [p \in dirty[c] |-> ntx]
           o == [p \in dirty[c] \cup DOMAIN overlay[c] |-> IF p \in dirty[c] THEN ntx ELSE overlay[c][p]]
<1>0. Base /\ TypeOK /\ ConnTypes /\ Extended /\ ConnStep(c) /\ ck' = ck /\ file' = file
  <2>1. ConnStep(c) /\ ck' = ck /\ file' = file
    BY DEF ConnStep, Flush, publish_mx_frame
  <2> QED
    BY <2>1, TypeParts, ConnExtends DEF WholeInv, Base
<1>1. /\ pc[c] = "synced" /\ pc'[c] = "ready" /\ \A d \in Conn : d # c => pc'[d] = pc[d]
  BY <1>0, GotoFacts DEF publish_mx_frame
<1>2. /\ overlay' = [overlay EXCEPT ![c] = o] /\ sees' = [sees EXCEPT ![c] = Over(mine, sees[c])]
      /\ slot' = slot /\ pin' = pin
  BY DEF publish_mx_frame
<1>3. /\ overlay'[c] = o /\ sees'[c] = Over(mine, sees[c])
      /\ \A d \in Conn : d # c => overlay'[d] = overlay[d] /\ sees'[d] = sees[d]
  BY <1>0, <1>2 DEF ConnTypes
<1>4. \A d \in Conn : Active(d)' => Active(d)
  BY <1>1, <1>2 DEF Active, Flushing
<1>5. ASSUME NEW d \in Conn, d # c PROVE Good(d)'
  <2>1. Good(d) /\ (Active(d) => Over(overlay'[d], file') = sees'[d])
    BY <1>0, <1>3, <1>5 DEF Good
  <2> QED
    BY <1>0, <1>2, <1>3, <1>4, <1>5, <2>1, GoodStays
<1>6. Good(c)'
  <2>1. DOMAIN overlay[c] \subseteq DOMAIN overlay'[c]
    BY <1>3
  <2>2. ASSUME Active(c) PROVE Over(overlay'[c], file') = sees'[c]
    <3>1. sees[c] = Over(overlay[c], file)
      BY <2>2 DEF Good
    <3>2. ASSUME NEW p \in Page PROVE Over(o, file)[p] = Over(mine, sees[c])[p]
      <4>1. Over(o, file)[p] = IF p \in DOMAIN o THEN o[p] ELSE file[p]
        BY DEF Over
      <4>2. Over(mine, sees[c])[p] = IF p \in dirty[c] THEN ntx ELSE sees[c][p]
        BY DEF Over
      <4>3. sees[c][p] = IF p \in DOMAIN overlay[c] THEN overlay[c][p] ELSE file[p]
        BY <3>1 DEF Over
      <4> QED
        BY <4>1, <4>2, <4>3
    <3>3. Over(o, file) = [p \in Page |-> Over(o, file)[p]]
      BY DEF Over
    <3>4. Over(mine, sees[c]) = [p \in Page |-> Over(mine, sees[c])[p]]
      BY DEF Over
    <3>5. Over(o, file) = Over(mine, sees[c])
      <4> HIDE DEF o, mine
      <4> QED
        BY <3>2, <3>3, <3>4
    <3> QED
      BY <1>0, <1>3, <3>5
  <2>3. Good(c)
    OBVIOUS
  <2> QED
    BY <1>0, <1>2, <1>4, <2>1, <2>2, <2>3, GoodStays
<1> QED
  BY <1>5, <1>6

LEMMA SnapshotConnStep ==
  ASSUME WholeInv, Marks, Snapshot, NEW c \in Conn, ConnStep(c) PROVE \A d \in Conn : Good(d)'
<1>0. /\ Base /\ TypeOK /\ Extended /\ (\A d \in Conn : Good(d)) /\ file' = file
      /\ (ck' = ck \/ ck' = Idle)
  BY SnapshotIsGood, ConnExtends, ConnLog DEF WholeInv, Base
<1>1. CASE read_wal_pages(c)
  <2>1. ASSUME NEW d \in Conn, d # c PROVE Good(d)'
    <3>1. /\ overlay'[d] = overlay[d] /\ sees'[d] = sees[d] /\ slot' = slot /\ pin' = pin /\ pc'[d] = pc[d]
      BY <1>0, <1>1, <2>1, GotoFacts DEF read_wal_pages, TypeOK
    <3>2. Active(d)' => Active(d)
      BY <3>1 DEF Active, Flushing
    <3>3. Active(d) => Over(overlay'[d], file') = sees'[d]
      BY <1>0, <3>1 DEF Good
    <3> QED
      BY <1>0, <3>1, <3>2, <3>3, GoodStays
  <2> QED
    BY <1>1, <2>1, OpenCoversAll
<1>2. CASE publish_mx_frame(c)
  BY <1>0, <1>2, CommitMovesBoth
<1>3. CASE \A d \in Conn : Active(d)' => /\ Active(d) /\ slot'[d] = slot[d] /\ pin'[d] = pin[d]
                                         /\ overlay'[d] = overlay[d] /\ sees'[d] = sees[d]
  <2> TAKE d \in Conn
  <2>1. Active(d)' => Over(overlay'[d], file') = sees'[d]
    BY <1>0, <1>3 DEF Good
  <2> QED
    BY <1>0, <1>3, <2>1, GoodStays
<1> QED
  BY <1>0, <1>1, <1>2, <1>3, OverlaySteps

LEMMA SnapshotPassStep ==
  ASSUME Base, Marks, SlotsHeld, Snapshot, Checkpoint, NEW d \in Conn PROVE Good(d)'
<1> SUFFICES ASSUME Active(d)' PROVE /\ Over(overlay'[d], file') = sees'[d]
                                     /\ Covers(d, pin[d])'
                                     /\ ck'.at = "probe" => \/ slot'[d] >= ck'.next
                                                            \/ ck'.safe <= pin'[d]
                                                            \/ Covers(d, ck.valid)'
                                     /\ ck'.at = "write" => ck'.todo \subseteq DOMAIN overlay'[d]
  BY DEF Good
<1>1. /\ wal' = wal /\ mark' = mark /\ pc' = pc /\ slot' = slot /\ pin' = pin /\ overlay' = overlay /\ sees' = sees
  BY PassSteps DEF CkptRest, logVars, connVars
<1>2. /\ TypeOK /\ ShmTypes /\ PassReadsLog /\ Len(wal) \in Nat /\ slot[d] \in Slot /\ slot[d] \in Nat /\ slot[d] >= 1
      /\ slot[d] <= NSlots /\ NSlots \in Nat
      /\ pin[d] \in Nat /\ pin[d] > 0 /\ readLock[slot[d]] = d /\ mark[slot[d]] = pin[d]
      /\ ck.safe \in Nat /\ ck.valid \in Nat /\ ck.next \in Nat
      /\ NoProc \notin Conn /\ Conn \cap Checkpointer = {}
  <2>1. TypeOK /\ ShmTypes /\ ConnTypes /\ CkTypes /\ PassReadsLog /\ Len(wal) \in Nat
    BY TypeParts, LogTypes DEF Base
  <2>2. pc[d] \notin {"closed", "claimed"} /\ pin[d] > 0
    BY <1>1 DEF Active, Flushing
  <2>3. slot[d] \in Slot /\ readLock[slot[d]] = d /\ mark[slot[d]] = pin[d]
    BY <2>2 DEF SlotsHeld
  <2>4. slot[d] \in Nat /\ slot[d] >= 1 /\ slot[d] <= NSlots /\ NSlots \in Nat
    BY <2>3, Numbers, SMTT(30) DEF Slot
  <2>5. ck.safe \in Nat /\ ck.valid \in Nat /\ ck.next \in 1 .. (NSlots + 1)
    BY <2>1, SMTT(30) DEF CkTypes
  <2>6. ck.next \in Nat
    BY <2>4, <2>5, SMTT(30)
  <2> QED
    BY <2>1, <2>2, <2>3, <2>4, <2>5, <2>6, WalConstants DEF ConnTypes
<1>3. /\ Over(overlay[d], file) = sees[d]
      /\ Covers(d, pin[d])
      /\ ck.at = "probe" => slot[d] >= ck.next \/ ck.safe <= pin[d] \/ Covers(d, ck.valid)
      /\ ck.at = "write" => ck.todo \subseteq DOMAIN overlay[d]
  <2>1. Active(d) /\ Good(d)
    BY <1>1, SnapshotIsGood DEF Active, Flushing
  <2> QED
    BY <2>1 DEF Good
<1>4. Covers(d, pin[d])'
  BY <1>1, <1>3 DEF Covers
<1>5. file' = file => Over(overlay'[d], file') = sees'[d]
  BY <1>1, <1>3
<1>6. CASE PassBegins
  <2>1. ck'.at = "probe" /\ ck'.next = 1 /\ file' = file
    BY <1>6 DEF PassBegins, PassKeeps
  <2> QED
    BY <1>1, <1>2, <1>4, <1>5, <2>1
<1>7. CASE PassProbes
  <2>1. /\ ck.at = "probe" /\ ck'.at = "probe" /\ file' = file /\ ck'.valid = ck.valid
        /\ ck.next \in Slot /\ ck'.next = ck.next + 1
        /\ ck'.safe = IF readLock[ck.next] \notin {NoProc, ck.by} /\ mark[ck.next] > 0 /\ mark[ck.next] < ck.safe
                      THEN mark[ck.next] ELSE ck.safe
    BY <1>7 DEF PassProbes
  <2>2. mark[ck.next] \in Nat
    BY <1>2, <2>1 DEF ShmTypes
  <2>3. ck'.safe <= ck.safe /\ ck'.safe \in Nat
    BY <1>2, <2>1, <2>2, SMTT(30)
  <2>4. CASE slot[d] = ck.next
    <3>0. ck.by \in Checkpointer
      <4>1. ck.at # "idle"
        BY <2>1
      <4> QED
        BY <4>1 DEF SlotsHeld
    <3>1. readLock[ck.next] \notin {NoProc, ck.by}
      <4>1. readLock[ck.next] = d
        BY <1>2, <2>4
      <4>2. d # NoProc /\ d # ck.by
        BY <1>2, <3>0
      <4> QED
        BY <4>1, <4>2
    <3>2. mark[ck.next] = pin[d] /\ pin[d] > 0
      BY <1>2, <2>4
    <3>3. ck'.safe = IF pin[d] < ck.safe THEN pin[d] ELSE ck.safe
      BY <2>1, <3>1, <3>2
    <3>4. ck'.safe <= pin[d]
      BY <1>2, <3>3, SMTT(30)
    <3> QED
      BY <1>1, <1>4, <1>5, <2>1, <3>4
  <2>5. CASE slot[d] # ck.next /\ slot[d] >= ck.next
    <3>1. slot[d] >= ck.next + 1
      BY <1>2, <2>5, SMTT(30)
    <3> QED
      BY <1>1, <1>4, <1>5, <2>1, <3>1
  <2>6. CASE ck.safe <= pin[d]
    <3>1. ck'.safe <= pin[d]
      BY <1>2, <2>3, <2>6, SMTT(30)
    <3> QED
      BY <1>1, <1>4, <1>5, <2>1, <3>1
  <2>7. CASE Covers(d, ck.valid)
    <3>1. Covers(d, ck.valid)'
      BY <1>1, <2>1, <2>7 DEF Covers
    <3> QED
      BY <1>1, <1>4, <1>5, <2>1, <3>1
  <2> QED
    BY <1>3, <2>1, <2>4, <2>5, <2>6, <2>7
<1>8. CASE PassDecides
  <2>1. /\ ck.at = "probe" /\ ck.next = NSlots + 1 /\ ck'.at = "write" /\ file' = file
        /\ ck'.todo = DOMAIN committed_pages(Copied)
    BY <1>8 DEF PassDecides, PassKeeps
  <2>2. ~ (slot[d] >= ck.next)
    BY <1>2, <2>1, SMTT(30)
  <2>3. /\ Copied \in Seq(Frame) /\ Len(Copied) <= Len(wal) /\ Len(Copied) <= ck.valid
        /\ Len(Copied) <= ck.safe /\ Len(Copied) \in Nat
        /\ \A i \in 1 .. Len(Copied) : Copied[i] = wal[i]
    BY <1>2, CopiedFacts, SeqDomain
  <2>4. DOMAIN committed_pages(Copied) = {Copied[i].page : i \in 1 .. CommitEnd(Copied)}
    BY <2>3, CommittedPages
  <2>5. CommitEnd(Copied) \in 0 .. Len(Copied)
    BY <2>3, CommitEndFacts
  <2>6. \A i \in 1 .. CommitEnd(Copied) : /\ i \in 1 .. Len(Copied) /\ i \in 1 .. Len(wal)
                                          /\ i <= ck.valid /\ i <= ck.safe
                                          /\ ck.safe <= pin[d] => i <= pin[d]
    BY <1>2, <2>3, <2>5, SMTT(30)
  <2>7. \A i \in 1 .. CommitEnd(Copied) : Copied[i].page \in DOMAIN overlay[d]
    BY <1>3, <2>1, <2>2, <2>3, <2>6 DEF Covers
  <2>8. ck'.todo \subseteq DOMAIN overlay'[d]
    <3> SUFFICES ASSUME NEW p \in ck'.todo PROVE p \in DOMAIN overlay'[d]
      OBVIOUS
    <3>1. p \in {Copied[i].page : i \in 1 .. CommitEnd(Copied)}
      BY <2>1, <2>4
    <3>2. PICK i \in 1 .. CommitEnd(Copied) : p = Copied[i].page
      BY <3>1
    <3> QED
      BY <1>1, <2>7, <3>2
  <2> QED
    BY <1>4, <1>5, <2>1, <2>8
<1>9. ASSUME NEW p \in Page, PassWrites(p)
      PROVE  Over(overlay'[d], file') = sees'[d] /\ ck'.at = "write" /\ ck'.todo \subseteq DOMAIN overlay'[d]
  <2>1. /\ ck.at = "write" /\ ck'.at = "write" /\ ck'.todo = ck.todo \ {p} /\ p \in ck.todo
        /\ file' = [file EXCEPT ![p] = committed_pages(Copied)[p]]
    BY <1>9 DEF PassWrites
  <2>2. p \in DOMAIN overlay[d]
    BY <1>3, <2>1
  <2>3. \A q \in Page : q # p => file'[q] = file[q]
    BY <1>2, <2>1 DEF TypeOK
  <2>4. Over(overlay[d], file') = Over(overlay[d], file)
    BY <2>2, <2>3 DEF Over
  <2> QED
    BY <1>1, <1>3, <2>1, <2>4
<1>10. CASE PassSyncs \/ PassPublishes \/ PassEnds
  <2>1. file' = file /\ ck'.at \in {"publish", "idle"}
    BY <1>10 DEF PassSyncs, PassPublishes, PassEnds, PassKeeps
  <2> QED
    BY <1>4, <1>5, <2>1
<1> QED
  BY <1>4, <1>6, <1>7, <1>8, <1>9, <1>10, PassSteps

LEMMA SnapshotStep ==
  ASSUME Durable, WholeInv, Marks, SlotsHeld, Snapshot, [Next]_vars PROVE Snapshot'
<1>0. Base /\ Base'
  BY BaseStep DEF WholeInv
<1>1. ck'.valid <= Len(wal')
  BY <1>0 DEF Base, PassReadsLog
<1>2. \A c \in Conn : Good(c)'
  <2>1. ASSUME NEW c \in Conn, ConnStep(c) PROVE \A d \in Conn : Good(d)'
    BY <2>1, SnapshotConnStep
  <2>2. CASE Checkpoint
    BY <1>0, <2>2, SnapshotPassStep
  <2>3. CASE PowerLoss
    <3>1. \A c \in Conn : pc'[c] = "closed"
      BY <2>3 DEF PowerLoss, Gone
    <3> QED
      BY <3>1 DEF Good, Active, Flushing
  <2>4. CASE UNCHANGED vars
    <3>1. \A c \in Conn : Good(c)
      BY SnapshotIsGood
    <3> QED
      BY <2>4, <3>1 DEF vars, connVars, logVars, Good, Active, Flushing, Covers
  <2> QED
    BY <2>1, <2>2, <2>3, <2>4 DEF Next, ConnStep
<1> QED
  BY <1>1, <1>2, SnapshotIsGood

\* claim_wal_read_lock and active_reader_marks keep a reader's snapshot: whatever
\* others commit and copy into the main file, and however their steps interleave
\* with the pass's probes, a connection whose mark is not 0 reads the database
\* of when it was opened, with its own commits.  Assumed is that no process
\* that has a pager checkpoints, since its probes would drop its own locks.
THEOREM SnapshotsAreKept ==
  ASSUME Durable, ~ PagersCheckpoint PROVE Spec => []PinnedSnapshotKept
<1>1. Init => SlotsHeld /\ Snapshot
  <2> SUFFICES ASSUME Init PROVE SlotsHeld /\ Snapshot
    OBVIOUS
  <2>1. wal = << >> /\ ck.at = "idle" /\ ck.valid = 0 /\ \A c \in Conn : pc[c] = "closed"
    BY IdleFields DEF Init, NoFrames
  <2>2. ck.valid <= Len(wal)
    BY <2>1, SMTT(30)
  <2> QED
    BY <2>1, <2>2 DEF SlotsHeld, Snapshot, Flushing
<1>2. (WholeInv /\ Marks) /\ SlotsHeld /\ Snapshot /\ [Next]_vars => (SlotsHeld /\ Snapshot)'
  BY SlotsHeldStep, SnapshotStep DEF WholeInv
<1>3. SlotsHeld /\ Snapshot => PinnedSnapshotKept
  BY DEF Snapshot, PinnedSnapshotKept, IsOpen
<1> QED
  BY <1>1, <1>2, <1>3, MarksAlways, PTL DEF Spec

=============================================================================
