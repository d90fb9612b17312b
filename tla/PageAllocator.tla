---------------------------- MODULE PageAllocator ----------------------------
(***************************************************************************)
(* What Pager::allocate_page and Pager::deallocate_page promise: a page is *)
(* in use or free, never both; a free page is reused before the database   *)
(* grows; ROLLBACK undoes both operations.                                 *)
(***************************************************************************)
EXTENDS Naturals

CONSTANT MaxPages       \* bound: the largest database

VARIABLES free,         \* pages on the freelist
          used,         \* pages handed out, page 1 included
          kept          \* free and used as of the last commit

AllocInit == free = {} /\ used = {1} /\ kept = <<free, used>>

Reuse ==
  /\ \E p \in free : free' = free \ {p} /\ used' = used \cup {p}
  /\ UNCHANGED kept

Grow ==
  /\ free = {}
  /\ \E p \in 1 .. MaxPages : used = 1 .. p - 1 /\ used' = used \cup {p}
  /\ UNCHANGED <<free, kept>>

Release ==
  /\ \E p \in used \ {1} : free' = free \cup {p} /\ used' = used \ {p}
  /\ UNCHANGED kept

Keep == kept' = <<free, used>> /\ UNCHANGED <<free, used>>
Undo == <<free', used'>> = kept /\ UNCHANGED kept

AllocNext == Reuse \/ Grow \/ Release \/ Keep \/ Undo

AllocSpec == AllocInit /\ [][AllocNext]_<<free, used, kept>>
=============================================================================
