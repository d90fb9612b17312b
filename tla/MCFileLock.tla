------------------------------ MODULE MCFileLock ------------------------------
(***************************************************************************)
(* FileLock for TLC: connections in a process each, and all in one.        *)
(***************************************************************************)
EXTENDS FileLock

CONSTANTS c1, c2, c3
MCConn2 == {c1, c2}
MCConn3 == {c1, c2, c3}

\* A process of its own for every connection.
OwnProcess == [c \in Conn |-> c]
\* One process holding every connection.
OneProcess == [c \in Conn |-> c1]
MCOneProcess == {c1}
=============================================================================
