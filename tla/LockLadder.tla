------------------------------ MODULE LockLadder ------------------------------
(***************************************************************************)
(* The lock ladder a database file offers its connections, as the pager    *)
(* sees it: LockLevel of vfs/lock.rs, one level per connection, raised one *)
(* rung at a time and lowered at will.  This is the abstract promise; the  *)
(* module FileLock shows that the fcntl byte-range locks implement it, and *)
(* RollbackPager is built on it.                                           *)
(***************************************************************************)
EXTENDS Naturals

CONSTANT Conn       \* connections (one FileLockState each)

VARIABLE level      \* level[c]: the LockLevel that c believes it holds

Unlocked  == 0
Shared    == 1
Reserved  == 2
Pending   == 3
Exclusive == 4

LockLevel == Unlocked .. Exclusive

Others(c) == Conn \ {c}

LadderInit == level = [c \in Conn |-> Unlocked]

\* What the other connections must not hold for c to reach the rung l.
\* PENDING asks nothing of the others: only the holder of RESERVED gets there.
MayReach(c, l) ==
  /\ l = Shared    => \A d \in Others(c) : level[d] # Exclusive
  /\ l = Reserved  => \A d \in Others(c) : level[d] < Reserved
  /\ l = Exclusive => \A d \in Others(c) : level[d] = Unlocked

\* One successful step_up.
Rise(c) ==
  /\ level[c] < Exclusive
  /\ MayReach(c, level[c] + 1)
  /\ level' = [level EXCEPT ![c] = @ + 1]

\* When a step_up may come back with EAGAIN.  PENDING is refused only by a
\* reader that is probing that byte on its way to SHARED, which the ladder
\* does not show, so the ladder allows that refusal at any time.
Refused(c) ==
  \/ level[c] = Unlocked /\ \E d \in Others(c) : level[d] >= Pending
  \/ level[c] = Shared   /\ \E d \in Others(c) : level[d] >= Reserved
  \/ level[c] = Reserved
  \/ level[c] = Pending  /\ \E d \in Others(c) : level[d] >= Shared

\* One or more step_downs; with l = Unlocked also Drop and the death of the
\* process, after which the kernel has released every lock it held.
Fall(c, l) ==
  /\ l < level[c]
  /\ level' = [level EXCEPT ![c] = l]

LadderNext == \E c \in Conn : Rise(c) \/ \E l \in LockLevel : Fall(c, l)

LadderSpec == LadderInit /\ [][LadderNext]_level

LadderTypeOK == level \in [Conn -> LockLevel]

\* A connection that believes it is EXCLUSIVE is the only one with any lock at
\* all, so the pages it writes (Pager::flush) are read by nobody meanwhile.
ExclusiveIsAlone ==
  \A c, d \in Conn : (level[c] = Exclusive /\ d # c) => level[d] = Unlocked

\* At most one connection believes it may write (RESERVED or higher).
OneWriter ==
  \A c, d \in Conn : (level[c] >= Reserved /\ level[d] >= Reserved) => c = d

\* Readers share and a writer is alone (set_level's EXCLUSIVE over the whole
\* SHARED range), with one candidate writer at a time (the RESERVED byte).
MutualExclusion == ExclusiveIsAlone /\ OneWriter
=============================================================================
