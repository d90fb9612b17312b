----------------------------- MODULE AtomicStore -----------------------------
(***************************************************************************)
(* What a pager promises the layers above it: a database is a sequence of  *)
(* pages that changes only by whole transactions.  A page is abstracted to *)
(* the number of the transaction that last wrote it.  There is no crash    *)
(* action: a crash, a power loss and a recovery change nothing here.       *)
(***************************************************************************)
EXTENDS Naturals

CONSTANTS
  MaxTx,            \* bound: transactions are numbered 1 .. MaxTx
  NPages,           \* bound: the largest page number
  InitPages         \* pages in the initial database

VARIABLE db         \* db[p]: the transaction that wrote page p (0: the initial one)

\* The database d after transaction t wrote the pages W, growing it to n pages.
Apply(d, W, n, t) == [p \in 1 .. n |-> IF p \in W THEN t ELSE d[p]]

\* A commit writes some pages; it may append pages, which it then writes, page
\* 1 (which holds the page count) included.
Commit(t, W, n) ==
  /\ \A p \in DOMAIN db : db[p] < t
  /\ W # {} /\ W \subseteq 1 .. n
  /\ DOMAIN db \subseteq 1 .. n
  /\ \A p \in 1 .. n : p \notin DOMAIN db => {1, p} \subseteq W
  /\ db' = Apply(db, W, n, t)

AtomicInit == db = [p \in 1 .. InitPages |-> 0]

AtomicNext == \E t \in 1 .. MaxTx, n \in 1 .. NPages :
                \E W \in SUBSET (1 .. n) : Commit(t, W, n)

AtomicSpec == AtomicInit /\ [][AtomicNext]_db
=============================================================================
