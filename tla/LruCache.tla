------------------------------ MODULE LruCache ------------------------------
(***************************************************************************)
(* A cache of at most Capacity pages that evicts the page whose last use   *)
(* is the longest ago: what PageCache promises, without its heap.          *)
(***************************************************************************)
EXTENDS Naturals

CONSTANTS Page, Capacity,
          Size(_)       \* the number of pages in a set

VARIABLES stamp,        \* stamp[p]: when p was last used, 0 when p is not cached
          clock

In == {p \in Page : stamp[p] # 0}

Oldest(p) == p \in In /\ \A q \in In : stamp[p] <= stamp[q]

LruInit == stamp = [p \in Page |-> 0] /\ clock = 0

Touch(p) ==
  /\ p \in In /\ clock' > clock
  /\ stamp' = [stamp EXCEPT ![p] = clock']

Insert(p) ==
  /\ p \notin In /\ Size(In) < Capacity /\ clock' > clock
  /\ stamp' = [stamp EXCEPT ![p] = clock']

\* p takes the place of the page that was not used for the longest time.
Replace(p) ==
  /\ p \notin In /\ Size(In) = Capacity /\ clock' > clock
  /\ \E q \in Page : Oldest(q) /\ stamp' = [stamp EXCEPT ![q] = 0, ![p] = clock']

\* A page makes room and nothing takes its place.
Evict ==
  /\ Size(In) = Capacity /\ clock' >= clock
  /\ \E q \in Page : Oldest(q) /\ stamp' = [stamp EXCEPT ![q] = 0]

Forget(p) == stamp' = [stamp EXCEPT ![p] = 0] /\ UNCHANGED clock

Tick == clock' >= clock /\ UNCHANGED stamp

LruNext ==
  \/ \E p \in Page : Touch(p) \/ Insert(p) \/ Replace(p) \/ Forget(p)
  \/ Evict \/ Tick

LruSpec == LruInit /\ [][LruNext]_<<stamp, clock>>
=============================================================================
