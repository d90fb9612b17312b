---------------------------- MODULE FileLockProofs ----------------------------
(***************************************************************************)
(* The lock ladder for any number of connections: FileLock keeps mutual    *)
(* exclusion, and implements LockLadder, as long as every connection has a *)
(* process of its own.                                                     *)
(***************************************************************************)
EXTENDS FileLock, TLAPS

USE SMTT(30)

\* What the kernel guarantees: no two processes hold conflicting locks.
NoConflict ==
  \A p, q \in Process : \A r \in ByteRange : p # q => ~Conflict(held[p][r], held[q][r])

\* A probe runs only inside a set_level that is leaving UNLOCKED.
ProbeInside ==
  \A c \in Conn : probe[c] # "before" => (level[c] = Unlocked /\ Ascending(c))

IInv == TypeOK /\ LevelMatchesLocks /\ NoConflict /\ ProbeInside

USE DEF Unlocked, Shared, Reserved, Pending, Exclusive, LockLevel, Idle,
        ByteRange, LockKind, Probe

LEMMA TypeStep == ASSUME TypeOK, [Next]_lockVars PROVE TypeOK'
<1> USE ProcOfType DEF TypeOK, LadderTypeOK
<1>1. ASSUME NEW c \in Conn, NEW l \in LockLevel, Call(c, l) PROVE TypeOK'
  BY <1>1 DEF Call
<1>2. ASSUME NEW c \in Conn, Return(c) PROVE TypeOK'
  BY <1>2 DEF Return
<1>3. ASSUME NEW c \in Conn, step_up(c) PROVE TypeOK'
  <2>1. UpKind(c) \in LockKind /\ UpRange(c) \in ByteRange /\ ProcOf[c] \in Process
    BY DEF UpKind, UpRange
  <2>2. held' \in [Process -> [ByteRange -> LockKind]]
    BY <1>3, <2>1 DEF step_up, fcntl_lock
  <2>3. level[c] \in 0..4 /\ level[c] < 4
    BY <1>3 DEF step_up, Ascending
  <2> QED
    BY <1>3, <2>2, <2>3 DEF step_up
<1>4. ASSUME NEW c \in Conn, step_up_refused(c) PROVE TypeOK'
  BY <1>4 DEF step_up_refused
<1>5. ASSUME NEW c \in Conn, step_down(c) PROVE TypeOK'
  BY <1>5 DEF step_down, fcntl_lock, DownKind, DownRange, Descending
<1>6. ASSUME NEW p \in Process, Exit(p) PROVE TypeOK'
  BY <1>6 DEF Exit, NoLocks
<1>7. CASE UNCHANGED lockVars
  BY <1>7 DEF lockVars
<1> QED
  BY <1>1, <1>2, <1>3, <1>4, <1>5, <1>6, <1>7 DEF Next, Step

\* The set_level bookkeeping is well typed: levels, kernel locks, targets and
\* probe positions keep their ranges.
THEOREM TypeCorrect == Spec => []TypeOK
<1>1. Init => TypeOK
  BY DEF Init, LadderInit, TypeOK, LadderTypeOK, NoLocks
<1>2. TypeOK /\ [Next]_lockVars => TypeOK'
  BY TypeStep
<1> QED
  BY <1>1, <1>2, PTL DEF Spec

-----------------------------------------------------------------------------

LEMMA InductiveInit == Init => IInv
  BY ProcOfType DEF Init, LadderInit, IInv, TypeOK, LadderTypeOK, NoLocks, LevelMatchesLocks,
         LockOf, NoConflict, Conflict, ProbeInside

\* A granted F_SETLK keeps the kernel's promise.
LEMMA GrantKeepsNoConflict ==
  ASSUME TypeOK, NoConflict, NEW p \in Process, NEW k \in LockKind, NEW r \in ByteRange,
         fcntl_lock(p, k, r)
  PROVE  NoConflict'
  BY DEF TypeOK, NoConflict, fcntl_lock, Grantable, Conflict

\* The invariant that makes mutual exclusion inductive is kept by every step:
\* a system call of c changes one range of one process, and c's level with it.
LEMMA InductiveStep ==
  ASSUME ProcessPerConn, IInv, [Next]_lockVars PROVE IInv'
<1> USE ProcOfType DEF IInv, Ascending, Descending
<1>0. TypeOK'
  BY TypeStep
<1>1. ASSUME NEW c \in Conn, NEW l \in LockLevel, Call(c, l) PROVE IInv'
  BY <1>0, <1>1 DEF Call, TypeOK, LadderTypeOK, LevelMatchesLocks, NoConflict, ProbeInside
<1>2. ASSUME NEW c \in Conn, Return(c) PROVE IInv'
  BY <1>0, <1>2 DEF Return, TypeOK, LadderTypeOK, LevelMatchesLocks, NoConflict, ProbeInside
<1>3. ASSUME NEW c \in Conn, step_up(c) PROVE IInv'
  <2>1. UpKind(c) \in LockKind /\ UpRange(c) \in ByteRange /\ ProcOf[c] \in Process
    BY DEF UpKind, UpRange
  <2>2. NoConflict'
    BY <1>3, <2>1, GrantKeepsNoConflict DEF step_up
  <2>3. ProbeInside'
    BY <1>3 DEF step_up, ProbeInside, TypeOK, LadderTypeOK
  <2>4. ASSUME NEW d \in Conn, NEW r \in ByteRange
        PROVE  held'[ProcOf[d]][r] = IF r = "pending" /\ probe'[d] = "probing" THEN "read"
                                     ELSE LockOf(level'[d], r)
    <3>1. CASE d # c
      <4>1. ProcOf[d] # ProcOf[c]
        BY <3>1 DEF ProcessPerConn
      <4>2. held'[ProcOf[d]] = held[ProcOf[d]] /\ level'[d] = level[d] /\ probe'[d] = probe[d]
        BY <1>3, <3>1, <4>1 DEF step_up, fcntl_lock, TypeOK, LadderTypeOK
      <4> QED
        BY <4>2 DEF LevelMatchesLocks
    <3>2. CASE d = c
      <4>1. held[ProcOf[c]][r] = IF r = "pending" /\ probe[c] = "probing" THEN "read"
                                 ELSE LockOf(level[c], r)
        BY DEF LevelMatchesLocks
      <4>2. held'[ProcOf[c]][r] = IF r = UpRange(c) THEN UpKind(c) ELSE held[ProcOf[c]][r]
        BY <1>3, <2>1 DEF step_up, fcntl_lock, TypeOK
      <4>3. /\ probe[c] # "before" => level[c] = 0
            /\ level[c] \in 0..4 /\ level[c] < 4
            /\ probe[c] \in Probe
        BY <1>3 DEF step_up, ProbeInside, TypeOK, LadderTypeOK
      <4>4. CASE level[c] = Unlocked /\ probe[c] # "probed"
        <5>1. /\ level'[c] = 0
              /\ probe'[c] = IF probe[c] = "before" THEN "probing" ELSE "probed"
          BY <1>3, <4>4 DEF step_up, TypeOK, LadderTypeOK
        <5> QED
          BY <3>2, <4>1, <4>2, <4>3, <4>4, <5>1 DEF LockOf, UpKind, UpRange
      <4>5. CASE ~(level[c] = Unlocked /\ probe[c] # "probed")
        <5>1. level'[c] = level[c] + 1 /\ probe'[c] = "before"
          BY <1>3, <4>5 DEF step_up, TypeOK, LadderTypeOK
        <5>2. probe[c] # "probing"
          BY <4>3, <4>5
        <5> QED
          BY <3>2, <4>1, <4>2, <4>3, <4>5, <5>1, <5>2 DEF LockOf, UpKind, UpRange
      <4> QED
        BY <4>4, <4>5
    <3> QED
      BY <3>1, <3>2
  <2> QED
    BY <1>0, <2>2, <2>3, <2>4 DEF LevelMatchesLocks
<1>4. ASSUME NEW c \in Conn, step_up_refused(c) PROVE IInv'
  <2>1. NoConflict' /\ ProbeInside'
    BY <1>4 DEF step_up_refused, NoConflict, ProbeInside, TypeOK
  <2>2. probe[c] # "probing"
    BY <1>4 DEF step_up_refused, Grantable, UpKind, Conflict, ProbeInside
  <2> QED
    BY <1>0, <1>4, <2>1, <2>2 DEF step_up_refused, LevelMatchesLocks, TypeOK
<1>5. ASSUME NEW c \in Conn, step_down(c) PROVE IInv'
  <2>1. DownKind(c) \in LockKind /\ DownRange(c) \in ByteRange /\ ProcOf[c] \in Process
    BY DEF DownKind, DownRange
  <2>2. NoConflict'
    BY <1>5, <2>1, GrantKeepsNoConflict DEF step_down
  <2>3. level[c] \in 1..4 /\ probe[c] = "before"
    <3>1. level[c] \in 0..4 /\ target[c] \in 0..5 /\ level[c] > target[c]
      BY <1>5 DEF step_down, TypeOK, LadderTypeOK
    <3>2. level[c] \in 1..4
      BY <3>1
    <3> QED
      BY <3>2 DEF ProbeInside
  <2>4. level'[c] = level[c] - 1 /\ probe' = probe
    BY <1>5 DEF step_down, TypeOK, LadderTypeOK
  <2>5. ProbeInside'
    BY <1>5, <2>3 DEF step_down, ProbeInside, TypeOK, LadderTypeOK
  <2>6. ASSUME NEW d \in Conn, NEW r \in ByteRange
        PROVE  held'[ProcOf[d]][r] = IF r = "pending" /\ probe'[d] = "probing" THEN "read"
                                     ELSE LockOf(level'[d], r)
    <3>1. CASE d # c
      <4>1. ProcOf[d] # ProcOf[c]
        BY <3>1 DEF ProcessPerConn
      <4>2. held'[ProcOf[d]] = held[ProcOf[d]] /\ level'[d] = level[d] /\ probe'[d] = probe[d]
        BY <1>5, <3>1, <4>1 DEF step_down, fcntl_lock, TypeOK, LadderTypeOK
      <4> QED
        BY <4>2 DEF LevelMatchesLocks
    <3>2. CASE d = c
      <4>1. held[ProcOf[c]][r] = LockOf(level[c], r)
        BY <2>3 DEF LevelMatchesLocks
      <4>2. held'[ProcOf[c]][r] = IF r = DownRange(c) THEN DownKind(c) ELSE held[ProcOf[c]][r]
        BY <1>5, <2>1 DEF step_down, fcntl_lock, TypeOK
      <4> QED
        BY <2>3, <2>4, <3>2, <4>1, <4>2 DEF LockOf, DownKind, DownRange
    <3> QED
      BY <3>1, <3>2
  <2> QED
    BY <1>0, <2>2, <2>5, <2>6 DEF LevelMatchesLocks
<1>6. ASSUME NEW p \in Process, Exit(p) PROVE IInv'
  <2>1. NoConflict'
    BY <1>6 DEF Exit, NoConflict, Conflict, NoLocks, TypeOK
  <2>2. ProbeInside'
    BY <1>6 DEF Exit, ProbeInside, TypeOK, LadderTypeOK
  <2>3. LevelMatchesLocks'
    BY <1>6 DEF Exit, LevelMatchesLocks, LockOf, NoLocks, TypeOK, LadderTypeOK
  <2> QED
    BY <1>0, <2>1, <2>2, <2>3
<1>7. CASE UNCHANGED lockVars
  BY <1>0, <1>7 DEF lockVars, LevelMatchesLocks, NoConflict, ProbeInside
<1> QED
  BY <1>1, <1>2, <1>3, <1>4, <1>5, <1>6, <1>7 DEF Next, Step

\* Two connections at conflicting levels would hold conflicting kernel locks.
LEMMA LocksExclude == ASSUME ProcessPerConn, IInv PROVE MutualExclusion
<1> USE ProcOfType DEF IInv
<1> SUFFICES ASSUME NEW c \in Conn, NEW d \in Conn, c # d
             PROVE  /\ level[c] = Exclusive => level[d] = Unlocked
                    /\ ~(level[c] >= Reserved /\ level[d] >= Reserved)
  BY DEF MutualExclusion, ExclusiveIsAlone, OneWriter
<1>1. ProcOf[c] # ProcOf[d]
  BY DEF ProcessPerConn
<1>2. \A r \in ByteRange : ~Conflict(held[ProcOf[c]][r], held[ProcOf[d]][r])
  BY <1>1 DEF NoConflict
<1>3. \A e \in Conn : /\ held[ProcOf[e]]["shared"] = LockOf(level[e], "shared")
                      /\ held[ProcOf[e]]["reserved"] = LockOf(level[e], "reserved")
  BY DEF LevelMatchesLocks
<1> QED
  BY <1>2, <1>3 DEF LockOf, Conflict, TypeOK, LadderTypeOK

\* Mutual exclusion of Pager::flush and of every RESERVED holder, for any set of
\* connections, each in a process of its own.
THEOREM FileLockMutualExclusion == ASSUME ProcessPerConn PROVE Spec => []MutualExclusion
<1>1. IInv /\ [Next]_lockVars => IInv'
  BY InductiveStep
<1>2. IInv => MutualExclusion
  BY LocksExclude
<1> QED
  BY <1>1, <1>2, InductiveInit, PTL DEF Spec

-----------------------------------------------------------------------------

\* A level that another connection's lock forbids is not reached: the granted
\* call of step_up is the ladder's Rise.
LEMMA StepUpRises ==
  ASSUME ProcessPerConn, IInv, NEW c \in Conn, step_up(c), level' # level
  PROVE  Rise(c)
<1> USE ProcOfType DEF IInv
<1>1. level[c] \in 0..4 /\ level[c] < 4
  BY DEF step_up, Ascending, TypeOK, LadderTypeOK
<1>2. ~(level[c] = Unlocked /\ probe[c] # "probed") /\ level' = [level EXCEPT ![c] = @ + 1]
  BY DEF step_up
<1>3. ASSUME NEW d \in Others(c)
      PROVE  /\ ~Conflict(UpKind(c), LockOf(level[d], "shared")) \/ UpRange(c) # "shared"
             /\ ~Conflict(UpKind(c), LockOf(level[d], "reserved")) \/ UpRange(c) # "reserved"
             /\ level[d] \in 0..4
  <2>1. d \in Conn /\ ProcOf[d] \in Process \ {ProcOf[c]}
    BY <1>3 DEF Others, ProcessPerConn
  <2>2. ~Conflict(UpKind(c), held[ProcOf[d]][UpRange(c)])
    BY <2>1 DEF step_up, fcntl_lock, Grantable
  <2>3. /\ held[ProcOf[d]]["shared"] = LockOf(level[d], "shared")
        /\ held[ProcOf[d]]["reserved"] = LockOf(level[d], "reserved")
    BY <2>1 DEF LevelMatchesLocks
  <2> QED
    BY <2>1, <2>2, <2>3 DEF TypeOK, LadderTypeOK
<1>4. MayReach(c, level[c] + 1)
  <2>1. CASE level[c] = 0
    BY <1>2, <1>3, <2>1 DEF MayReach, UpKind, UpRange, LockOf, Conflict
  <2>2. CASE level[c] = 1
    BY <1>3, <2>2 DEF MayReach, UpKind, UpRange, LockOf, Conflict
  <2>3. CASE level[c] = 2
    BY <2>3 DEF MayReach
  <2>4. CASE level[c] = 3
    BY <1>3, <2>4 DEF MayReach, UpKind, UpRange, LockOf, Conflict
  <2> QED
    BY <1>1, <2>1, <2>2, <2>3, <2>4
<1> QED
  BY <1>1, <1>2, <1>4 DEF Rise

\* Every step of FileLockState is a step of the ladder or leaves all levels alone.
LEMMA StepSimulates ==
  ASSUME ProcessPerConn, IInv, [Next]_lockVars PROVE [LadderNext]_level
<1> USE ProcOfType DEF IInv
<1>1. ASSUME NEW c \in Conn, step_up(c) PROVE [LadderNext]_level
  BY <1>1, StepUpRises DEF LadderNext
<1>2. ASSUME NEW c \in Conn, step_down(c) PROVE [LadderNext]_level
  <2>1. level[c] \in 0..4 /\ target[c] \in 0..5 /\ level[c] > target[c]
    BY <1>2 DEF step_down, Descending, TypeOK, LadderTypeOK
  <2>2. level[c] - 1 \in LockLevel /\ level[c] - 1 < level[c]
    BY <2>1
  <2>3. Fall(c, level[c] - 1)
    BY <1>2, <2>2 DEF step_down, Fall
  <2> QED
    BY <2>2, <2>3 DEF LadderNext
<1>3. ASSUME NEW p \in Process, Exit(p) PROVE [LadderNext]_level
  <2>1. CASE \E c \in Conn : ProcOf[c] = p /\ level[c] # Unlocked
    <3>1. PICK c \in Conn : ProcOf[c] = p /\ level[c] # Unlocked
      BY <2>1
    <3>2. level' = [level EXCEPT ![c] = Unlocked]
      BY <1>3, <3>1, Zenon DEF Exit, ProcessPerConn, TypeOK, LadderTypeOK
    <3>3. Unlocked < level[c]
      BY <3>1 DEF TypeOK, LadderTypeOK
    <3>4. Fall(c, Unlocked) /\ Unlocked \in LockLevel
      BY <3>2, <3>3 DEF Fall
    <3> QED
      BY <3>4 DEF LadderNext
  <2>2. CASE \A c \in Conn : ProcOf[c] = p => level[c] = Unlocked
    BY <1>3, <2>2 DEF Exit, TypeOK, LadderTypeOK
  <2> QED
    BY <2>1, <2>2
<1>4. ASSUME NEW c \in Conn, Return(c) \/ step_up_refused(c) \/ \E l \in LockLevel : Call(c, l)
      PROVE  [LadderNext]_level
  BY <1>4 DEF Return, step_up_refused, Call
<1>5. CASE UNCHANGED lockVars
  BY <1>5 DEF lockVars
<1> QED
  BY <1>1, <1>2, <1>3, <1>4, <1>5 DEF Next, Step

\* The fcntl implementation refines the ladder the pager relies on, for any set
\* of connections, each in a process of its own.
THEOREM FileLockImplementsLadder == ASSUME ProcessPerConn PROVE Spec => LadderSpec
<1>1. Init => LadderInit
  BY DEF Init
<1>2. IInv /\ [Next]_lockVars => IInv'
  BY InductiveStep
<1>3. IInv /\ [Next]_lockVars => [LadderNext]_level
  BY StepSimulates
<1> QED
  BY <1>1, <1>2, <1>3, InductiveInit, PTL DEF Spec, LadderSpec

\* The pager's view: the ladder alone keeps readers away from an EXCLUSIVE
\* holder and writers away from each other.
THEOREM LadderMutualExclusion == LadderSpec => [](LadderTypeOK /\ MutualExclusion)
<1> USE DEF LadderTypeOK, MutualExclusion, ExclusiveIsAlone, OneWriter
<1>1. LadderInit => LadderTypeOK /\ MutualExclusion
  BY DEF LadderInit
<1>2. LadderTypeOK /\ MutualExclusion /\ [LadderNext]_level => (LadderTypeOK /\ MutualExclusion)'
  <2> SUFFICES ASSUME LadderTypeOK, MutualExclusion, [LadderNext]_level
               PROVE  (LadderTypeOK /\ MutualExclusion)'
    OBVIOUS
  <2>1. ASSUME NEW c \in Conn, Rise(c) PROVE (LadderTypeOK /\ MutualExclusion)'
    BY <2>1 DEF Rise, MayReach, Others
  <2>2. ASSUME NEW c \in Conn, NEW l \in LockLevel, Fall(c, l)
        PROVE  (LadderTypeOK /\ MutualExclusion)'
    BY <2>2 DEF Fall
  <2>3. CASE UNCHANGED level
    BY <2>3
  <2> QED
    BY <2>1, <2>2, <2>3 DEF LadderNext
<1> QED
  BY <1>1, <1>2, PTL DEF LadderSpec
-----------------------------------------------------------------------------

\* A process without a connection holds nothing.
Strangers ==
  \A p \in Process : (\A c \in Conn : ProcOf[c] # p) => held[p] = NoLocks

LEMMA StrangersStep == ASSUME TypeOK, Strangers, [Next]_lockVars PROVE Strangers'
<1> USE ProcOfType DEF TypeOK
<1>1. ASSUME NEW c \in Conn, step_up(c) \/ step_down(c) PROVE Strangers'
  <2> SUFFICES ASSUME NEW p \in Process, \A d \in Conn : ProcOf[d] # p
               PROVE  held'[p] = NoLocks
    BY DEF Strangers
  <2>1. held'[p] = held[p]
    BY <1>1 DEF step_up, step_down, fcntl_lock
  <2> QED
    BY <2>1 DEF Strangers
<1>2. ASSUME NEW p \in Process, Exit(p) PROVE Strangers'
  BY <1>2 DEF Exit, Strangers
<1>3. ASSUME UNCHANGED held PROVE Strangers'
  BY <1>3 DEF Strangers
<1> QED
  BY <1>1, <1>2, <1>3 DEF Next, Step, Call, Return, step_up_refused, lockVars

\* A lock that stands in the way of a call belongs to another connection, and is
\* the lock of that connection's level or of its running probe.
LEMMA RefusedByOther ==
  ASSUME ProcessPerConn, IInv, Strangers, NEW c \in Conn, NEW k \in LockKind,
         NEW r \in ByteRange, ~Grantable(ProcOf[c], k, r)
  PROVE  \E d \in Others(c) :
           Conflict(k, IF r = "pending" /\ probe[d] = "probing" THEN "read"
                       ELSE LockOf(level[d], r))
<1> USE ProcOfType DEF IInv
<1>1. PICK q \in Process \ {ProcOf[c]} : Conflict(k, held[q][r])
  BY DEF Grantable
<1>2. PICK d \in Conn : ProcOf[d] = q
  BY <1>1 DEF Strangers, NoLocks, Conflict
<1>3. d \in Others(c)
  BY <1>1, <1>2 DEF Others
<1>4. held[q][r] = IF r = "pending" /\ probe[d] = "probing" THEN "read" ELSE LockOf(level[d], r)
  BY <1>2 DEF LevelMatchesLocks
<1> QED
  BY <1>1, <1>3, <1>4

\* F_GETLK on the RESERVED byte answers for the levels of the others.
LEMMA ProbeIsExact == ASSUME ProcessPerConn, IInv, Strangers PROVE ReservedProbeExact
<1> USE ProcOfType DEF IInv
<1> SUFFICES ASSUME NEW c \in Conn
             PROVE  check_reserved(c) <=> \E d \in Others(c) : level[d] >= Reserved
  BY Zenon DEF ReservedProbeExact
<1>1. ASSUME check_reserved(c) PROVE \E d \in Others(c) : level[d] >= Reserved
  <2>1. PICK d \in Others(c) : Conflict("write", LockOf(level[d], "reserved"))
    BY <1>1, RefusedByOther DEF check_reserved
  <2> QED
    BY <2>1 DEF Conflict, LockOf
<1>2. ASSUME NEW d \in Others(c), level[d] >= Reserved PROVE check_reserved(c)
  <2>1. d \in Conn /\ ProcOf[d] \in Process \ {ProcOf[c]}
    BY DEF Others, ProcessPerConn
  <2>2. held[ProcOf[d]]["reserved"] = "write"
    BY <1>2, <2>1 DEF LevelMatchesLocks, LockOf
  <2> QED
    BY <2>1, <2>2 DEF check_reserved, Grantable, Conflict
<1> QED
  BY <1>1, <1>2

\* A refused call finds another connection on a rung that excludes the next one.
LEMMA RefusalFindsAnother ==
  ASSUME ProcessPerConn, IInv, Strangers, NEW c \in Conn, step_up_refused(c)
  PROVE  Refused(c)
<1> USE ProcOfType DEF IInv
<1>1. level[c] \in 0 .. 3 /\ probe[c] \in Probe
  BY DEF step_up_refused, Ascending, TypeOK, LadderTypeOK
<1>2. UpKind(c) \in LockKind /\ UpRange(c) \in ByteRange
  BY DEF UpKind, UpRange
<1>3. PICK d \in Others(c) :
        Conflict(UpKind(c), IF UpRange(c) = "pending" /\ probe[d] = "probing" THEN "read"
                            ELSE LockOf(level[d], UpRange(c)))
  BY <1>2, RefusedByOther DEF step_up_refused
<1>4. level[d] \in 0 .. 4
  BY DEF Others, TypeOK, LadderTypeOK
<1>5. CASE level[c] = 0
  <2>1. level[d] >= Pending
    BY <1>1, <1>3, <1>4, <1>5 DEF UpKind, UpRange, LockOf, Conflict
  <2> QED
    BY <1>5, <2>1 DEF Refused
<1>6. CASE level[c] = 1
  BY <1>3, <1>4, <1>6 DEF UpKind, UpRange, LockOf, Conflict, Refused
<1>7. CASE level[c] = 2
  BY <1>7 DEF Refused
<1>8. CASE level[c] = 3
  BY <1>3, <1>4, <1>8 DEF UpKind, UpRange, LockOf, Conflict, Refused
<1> QED
  BY <1>1, <1>5, <1>6, <1>7, <1>8

\* set_level's promise that the level actually held always matches a real level:
\* for any set of connections, each in a process of its own, the kernel holds for
\* a connection what its level stands for, between any two system calls.
THEOREM LevelIsWhatTheKernelHolds == ASSUME ProcessPerConn PROVE Spec => []LevelMatchesLocks
<1>1. IInv /\ [Next]_lockVars => IInv'
  BY InductiveStep
<1>2. IInv => LevelMatchesLocks
  BY DEF IInv
<1> QED
  BY <1>1, <1>2, InductiveInit, PTL DEF Spec

\* check_reserved_lock answers exactly whether another connection may write.
THEOREM ReservedProbeIsExact == ASSUME ProcessPerConn PROVE Spec => []ReservedProbeExact
<1>1. Init => Strangers
  BY DEF Init, Strangers
<1>2. IInv /\ [Next]_lockVars => IInv'
  BY InductiveStep
<1>3. IInv /\ Strangers /\ [Next]_lockVars => Strangers'
  BY StrangersStep DEF IInv
<1>4. IInv /\ Strangers => ReservedProbeExact
  BY ProbeIsExact
<1> QED
  BY <1>1, <1>2, <1>3, <1>4, InductiveInit, PTL DEF Spec

\* A set_level that comes back with an error was refused by another connection's
\* level: what a dead process or a half-done set_level leaves behind refuses nobody.
THEOREM RefusalsAreContention == ASSUME ProcessPerConn PROVE Spec => RefusalIsContention
<1>1. Init => Strangers
  BY DEF Init, Strangers
<1>2. IInv /\ [Next]_lockVars => IInv'
  BY InductiveStep
<1>3. IInv /\ Strangers /\ [Next]_lockVars => Strangers'
  BY StrangersStep DEF IInv
<1>4. IInv /\ Strangers /\ [Next]_lockVars
        => [\A c \in Conn : step_up_refused(c) => Refused(c)]_lockVars
  BY RefusalFindsAnother
<1> QED
  BY <1>1, <1>2, <1>3, <1>4, InductiveInit, PTL DEF Spec, RefusalIsContention
=============================================================================
