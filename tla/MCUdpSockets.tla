---------------------------- MODULE MCUdpSockets ----------------------------
(* The instance of UdpSockets that TLC explores. *)
EXTENDS UdpSockets, TLC

MCSymmetry == Permutations(Socket)

\* A request to the one port that programs name, and answers from it.
MCArrivals == {[from |-> 5, src |-> p, to |-> 1, dst |-> q] : p \in {7, 8},
                                                             q \in {7, 8}}
==============================================================================
