------------------------------ MODULE TcpStream ------------------------------
(***************************************************************************)
(* What the users of a TCP connection of the network package rely on: each *)
(* end hands bytes to the other in the order they were sent, without gap,  *)
(* duplicate or corruption.  The bytes an end sends are numbered from 1.   *)
(***************************************************************************)
EXTENDS Naturals, Sequences

CONSTANTS End,        \* the ends of the connections
          Other(_),   \* the end at the other side of the connection
          ChunkSizes  \* the numbers of bytes one write may hold

VARIABLES sent,       \* sent[e]: number of bytes end e has sent
          received    \* received[e]: the bytes end e has received, in order

vars == <<sent, received>>

Init ==
    /\ sent = [e \in End |-> 0]
    /\ received = [e \in End |-> <<>>]

Send(e, n) ==
    /\ sent' = [sent EXCEPT ![e] = @ + n]
    /\ UNCHANGED received

\* The next n bytes of the other end arrive, n of them at once.
Deliver(e, n) ==
    /\ Len(received[e]) + n <= sent[Other(e)]
    /\ received' = [received EXCEPT
           ![e] = @ \o [i \in 1..n |-> Len(received[e]) + i]]
    /\ UNCHANGED sent

Next == \E e \in End, n \in ChunkSizes : Send(e, n) \/ Deliver(e, n)

Spec == Init /\ [][Next]_vars
==============================================================================
