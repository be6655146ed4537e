---------------------------- MODULE MCIpNetwork ----------------------------
(* Two hosts, a and b, on two networks joined by the router gw. *)
EXTENDS IpNetwork

CONSTANTS a, b, gw, a1, r1, r2, b2

At(net, host) == [net |-> net, host |-> host]

\* One network number below that of the loopback interface, one above.
MCNodeOf == a1 :> a @@ r1 :> gw @@ r2 :> gw @@ b2 :> b
MCAddrOf == a1 :> At(10, 2) @@ r1 :> At(10, 1) @@ r2 :> At(192, 1) @@ b2 :> At(192, 2)
MCGateway == a1 :> At(10, 1) @@ b2 :> At(192, 1)
             @@ r1 :> NoGateway @@ r2 :> NoGateway
MCMetric == a1 :> 100 @@ b2 :> 100 @@ r1 :> 100 @@ r2 :> 100

MCButOne == {a1, r1, r2}

Op(n, kind, dst) == [node |-> n, kind |-> kind, dst |-> dst]

\* A ping across the router, one to an interface of the router behind the
\* other, one to an own address, a datagram the other way, and one to an
\* address that nobody has.
MCSends == {Op(a, "request", At(192, 2)), Op(b, "request", At(10, 1)),
            Op(gw, "request", At(10, 1)), Op(b, "data", At(10, 2)),
            Op(a, "data", At(10, 9))}
==============================================================================
