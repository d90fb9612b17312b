------------------------------- MODULE FileLock -------------------------------
(***************************************************************************)
(* FileLockState (vfs/lock.rs) at the grain of its system calls: the level *)
(* a connection believes it holds, and the fcntl record locks the kernel   *)
(* holds for its process.  Every F_SETLK is one step, so that calls of     *)
(* other processes fall between any two calls of a set_level loop.         *)
(***************************************************************************)
EXTENDS LockLadder

CONSTANTS Process,   \* operating-system processes: the owners of fcntl locks
          ProcOf     \* ProcOf[c]: the process that connection c lives in

ASSUME ProcOfType == ProcOf \in [Conn -> Process]

\* Every connection has a process to itself.  fcntl locks of one process never
\* conflict with each other, so the ladder works only under this condition.
ProcessPerConn == \A c, d \in Conn : ProcOf[c] = ProcOf[d] => c = d

VARIABLES held,      \* held[p][r]: the kernel's lock of process p on range r
          target,    \* target[c]: the argument of c's running set_level, or Idle
          probe      \* probe[c]: how far c is in the three calls of UNLOCKED's step_up

lockVars == <<level, held, target, probe>>

ByteRange == {"pending", "reserved", "shared"}
LockKind  == {"none", "read", "write"}
Probe     == {"before", "probing", "probed"}
Idle      == 5                              \* no LockLevel

NoLocks == [r \in ByteRange |-> "none"]

Init ==
  /\ LadderInit
  /\ held = [p \in Process |-> NoLocks]
  /\ target = [c \in Conn |-> Idle]
  /\ probe = [c \in Conn |-> "before"]

-----------------------------------------------------------------------------
(* The kernel.                                                             *)

Conflict(k1, k2) == k1 # "none" /\ k2 # "none" /\ "write" \in {k1, k2}

\* fcntl(F_SETLK) by process p would be granted.
Grantable(p, kind, r) == \A q \in Process \ {p} : ~Conflict(kind, held[q][r])

\* A granted F_SETLK replaces whatever p held on the range.
fcntl_lock(p, kind, r) ==
  /\ Grantable(p, kind, r)
  /\ held' = [held EXCEPT ![p][r] = kind]

\* check_reserved on the wrong byte.
check_reserved_ProbesPending(c) == ~Grantable(ProcOf[c], "write", "pending")

\* F_GETLK on the RESERVED byte: does another process hold a lock on it?
check_reserved(c) == ~Grantable(ProcOf[c], "write", "reserved")

-----------------------------------------------------------------------------
(* FileLockState.                                                          *)

\* set_level(l) is called.
Call(c, l) ==
  /\ target[c] = Idle
  /\ target' = [target EXCEPT ![c] = l]
  /\ UNCHANGED <<level, held, probe>>

\* Both loops are done: set_level returns Ok.
Return(c) ==
  /\ target[c] = level[c]
  /\ target' = [target EXCEPT ![c] = Idle]
  /\ UNCHANGED <<level, held, probe>>

Ascending(c)  == target[c] # Idle /\ level[c] < target[c]
Descending(c) == target[c] # Idle /\ level[c] > target[c]

\* UpKind with a read lock where EXCLUSIVE needs a write lock.
UpKind_ReadForExclusive(c) ==
  IF level[c] = Unlocked
  THEN IF probe[c] = "probing" THEN "none" ELSE "read"
  ELSE IF level[c] = Pending THEN "read" ELSE "write"

\* UpRange with the probe on the wrong byte.
UpRange_ProbeReserved(c) ==
  IF level[c] = Shared \/ (level[c] = Unlocked /\ probe[c] # "probed") THEN "reserved"
  ELSE IF level[c] = Reserved THEN "pending"
  ELSE "shared"

\* The lock and range that step_up's next call asks for.
UpKind(c) ==
  IF level[c] = Unlocked
  THEN IF probe[c] = "probing" THEN "none" ELSE "read"
  ELSE "write"
UpRange(c) ==
  IF level[c] = Shared THEN "reserved"
  ELSE IF level[c] = Reserved \/ (level[c] = Unlocked /\ probe[c] # "probed") THEN "pending"
  ELSE "shared"

\* The first two calls of UNLOCKED's step_up touch the PENDING byte only; the
\* third, and the single call of every other rung, reaches the next level.
step_up(c) ==
  /\ Ascending(c)
  /\ fcntl_lock(ProcOf[c], UpKind(c), UpRange(c))
  /\ IF level[c] = Unlocked /\ probe[c] # "probed"
     THEN /\ probe' = [probe EXCEPT ![c] = IF @ = "before" THEN "probing" ELSE "probed"]
          /\ UNCHANGED level
     ELSE /\ probe' = [probe EXCEPT ![c] = "before"]
          /\ level' = [level EXCEPT ![c] = @ + 1]
  /\ UNCHANGED target

\* A step_up that retries a refused call instead of returning its error.
step_up_refused_Spins(c) ==
  /\ Ascending(c)
  /\ ~Grantable(ProcOf[c], UpKind(c), UpRange(c))
  /\ UNCHANGED lockVars

\* The call is refused: `?` leaves set_level at the last level reached.
step_up_refused(c) ==
  /\ Ascending(c)
  /\ ~Grantable(ProcOf[c], UpKind(c), UpRange(c))
  /\ target' = [target EXCEPT ![c] = Idle]
  /\ probe' = [probe EXCEPT ![c] = "before"]
  /\ UNCHANGED <<level, held>>

\* DownKind that drops the SHARED range where it should be downgraded.
DownKind_DropsShared(c) == "none"

DownKind(c)  == IF level[c] = Exclusive THEN "read" ELSE "none"
DownRange(c) ==
  IF level[c] = Pending THEN "pending"
  ELSE IF level[c] = Reserved THEN "reserved"
  ELSE "shared"

step_down(c) ==
  /\ Descending(c)
  /\ fcntl_lock(ProcOf[c], DownKind(c), DownRange(c))
  /\ level' = [level EXCEPT ![c] = @ - 1]
  /\ UNCHANGED <<target, probe>>

\* The process dies: the kernel closes its descriptors and drops its locks.
Exit(p) ==
  LET mine == {c \in Conn : ProcOf[c] = p} IN
  /\ held' = [held EXCEPT ![p] = NoLocks]
  /\ level' = [c \in Conn |-> IF c \in mine THEN Unlocked ELSE level[c]]
  /\ target' = [c \in Conn |-> IF c \in mine THEN Idle ELSE target[c]]
  /\ probe' = [c \in Conn |-> IF c \in mine THEN "before" ELSE probe[c]]

Step(c) == Return(c) \/ step_up(c) \/ step_up_refused(c) \/ step_down(c)

Next ==
  \/ \E c \in Conn : Step(c) \/ \E l \in LockLevel : Call(c, l)
  \/ \E p \in Process : Exit(p)

Spec == Init /\ [][Next]_lockVars

\* set_level never blocks: a thread inside it keeps running.
FairSpec == Spec /\ \A c \in Conn : WF_lockVars(Step(c))

-----------------------------------------------------------------------------
(* Properties.  MutualExclusion and LadderSpec come from LockLadder.       *)

\* FileLockState's level stays on the ladder: no run of set_level's two loops
\* steps below UNLOCKED or above EXCLUSIVE, and a process holds one kind of
\* lock per range.
TypeOK ==
  /\ LadderTypeOK
  /\ held \in [Process -> [ByteRange -> LockKind]]
  /\ target \in [Conn -> LockLevel \cup {Idle}]
  /\ probe \in [Conn -> Probe]

\* The lock on range r that belongs to level l.
LockOf(l, r) ==
  IF r = "shared"
  THEN IF l = Exclusive THEN "write" ELSE IF l >= Shared THEN "read" ELSE "none"
  ELSE IF l >= (IF r = "reserved" THEN Reserved ELSE Pending) THEN "write" ELSE "none"

\* "The level actually held always matches a real level in the ladder, never a
\* half-acquired state" (set_level): what the kernel holds for c is exactly what
\* c's level stands for, except for the PENDING read lock of a running probe.
\* A refused probe or a refused SHARED lock leaves nothing behind.
LevelMatchesLocks ==
  \A c \in Conn, r \in ByteRange :
    held[ProcOf[c]][r] = IF r = "pending" /\ probe[c] = "probing" THEN "read"
                         ELSE LockOf(level[c], r)

\* check_reserved tells exactly whether another connection is at RESERVED or
\* above, "this single byte-range probe catches all three": an open with a hot
\* journal backs off from every live writer and from nobody else.
ReservedProbeExact ==
  \A c \in Conn : check_reserved(c) <=> \E d \in Others(c) : level[d] >= Reserved

\* Only the ladder's own contention makes set_level fail: a refused system call
\* of FileLockState is a refusal the abstract ladder allows in that state.
RefusalIsContention == [][\A c \in Conn : step_up_refused(c) => Refused(c)]_lockVars

\* set_level never waits for another process: every call returns (Ok or Err),
\* whatever the other connections do, as long as its thread is scheduled.
SetLevelReturns == \A c \in Conn : target[c] # Idle ~> target[c] = Idle

\* "PENDING ... blocks any new SHARED lock attempt" (LockLevel::Pending): while
\* one connection stays at PENDING or above, no other goes from UNLOCKED to SHARED.
PendingStopsReaders ==
  [][\A c, d \in Conn :
       (c # d /\ level[c] >= Pending /\ level[d] = Unlocked) => level'[d] = Unlocked]_lockVars
=============================================================================
