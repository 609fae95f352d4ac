--------------------------- MODULE MCStreamServer ---------------------------
(* Three connections, all of them anonymous or all with the same name.     *)
EXTENDS StreamServer, TLC

CONSTANTS c1, c2, c3, peer1

MCPeerStrings == {[c \in Conns |-> ""], [c \in Conns |-> peer1]}
=============================================================================
