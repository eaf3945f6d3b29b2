------------------------------ MODULE MCTcpServer ------------------------------
(***************************************************************************)
(* Model-checking instances of TcpServer.                                  *)
(***************************************************************************)
EXTENDS TcpServer

CONSTANTS root, p1, p2, c1, c2

\* Clients are alike, and so are the processes but the first.
Alike == Permutations({p1, p2}) \cup Permutations({c1, c2})
================================================================================
