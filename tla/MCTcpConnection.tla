--------------------------- MODULE MCTcpConnection ---------------------------
(* The instances of TcpConnection that TLC explores. *)
EXTENDS TcpConnection, TLC

\* Initial numbers far from each other and from 0 and MaxSeq.
MCISS == [s \in Sock |-> IF s[2] = "active" THEN 20 ELSE 40]

\* The server's numbers run out after two bytes.
MCISSNearMax == [s \in Sock |-> IF s[2] = "active" THEN 20 ELSE MaxSeq - 2]
==============================================================================
