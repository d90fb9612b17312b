----------------------------- MODULE LoggedStore -----------------------------
(***************************************************************************)
(* What a pager with a write-ahead log promises: the database is the sum   *)
(* of the transactions in a log.  Each of them is there as a whole or not  *)
(* at all; the newest may be lost, but never one whose commit has          *)
(* returned to its caller.                                                 *)
(***************************************************************************)
EXTENDS Naturals

CONSTANTS
  MaxTx,       \* bound: transactions are numbered 1 .. MaxTx
  NPages       \* bound: the largest page number

VARIABLES
  log,         \* the transactions, each with the <<page, content>> pairs it wrote
  acked        \* the numbers of those whose commit has returned

\* Transaction t writes the pages W; a page's content is its writer's number.
Transaction(t, W) == [tx |-> t, writes |-> W \X {t}]

AppendTx(t, W) ==
  /\ W # {}
  /\ \A e \in log : e.tx < t
  /\ log' = log \cup {Transaction(t, W)}
  /\ UNCHANGED acked

Acknowledge(t) ==
  /\ \E e \in log : e.tx = t
  /\ acked' = acked \cup {t}
  /\ UNCHANGED log

\* A power loss takes the transactions from number n on.
Lose(n) ==
  /\ \A t \in acked : t < n
  /\ log' = {e \in log : e.tx < n}
  /\ UNCHANGED acked

LoggedInit == log = {} /\ acked = {}

LoggedNext ==
  \E t \in 1 .. MaxTx :
    (\E W \in SUBSET (1 .. NPages) : AppendTx(t, W)) \/ Acknowledge(t) \/ Lose(t)

LoggedSpec == LoggedInit /\ [][LoggedNext]_<<log, acked>>
=============================================================================
