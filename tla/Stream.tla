------------------------------- MODULE Stream -------------------------------
(***************************************************************************)
(* What a reader may expect of a stream connection: it reads what the peer *)
(* of this connection sends, from the first cell on, in order, each once.  *)
(***************************************************************************)
EXTENDS Naturals, Sequences

CONSTANTS
  Connections,   \* the connections, in the order in which they are opened
  Source(_)      \* what the peer of a connection has to say

VARIABLES
  conn,    \* the connection in use
  got      \* what has been read from it

Init == conn = 0 /\ got = <<>>

Open ==
  /\ conn + 1 \in Connections
  /\ conn' = conn + 1
  /\ got' = <<>>

Read ==
  /\ conn \in Connections
  /\ \E n \in (Len(got) + 1)..Len(Source(conn)) :
        got' = SubSeq(Source(conn), 1, n)
  /\ UNCHANGED conn

Spec == Init /\ [][Open \/ Read]_<<conn, got>>
=============================================================================
