------------------------------ MODULE IpNetwork ------------------------------
(***************************************************************************)
(* The lower layers of the network stack on machines joined by wires:      *)
(* interfaces that ifconfig raises and lowers, the routing table of each   *)
(* machine, ARP, and IPv4 packets that are sent, forwarded and handed to   *)
(* the layers above, with the ICMP layer answering echo requests.          *)
(*                                                                         *)
(* A machine handles one signal at a time, but a packet whose next hop is  *)
(* not in the ARP cache waits in event.pull, which goes on dispatching     *)
(* signals to the handlers; these may send, and wait, in turn.  Waits are  *)
(* therefore a stack, and only the newest one sees the "arp" signals.      *)
(*                                                                         *)
(* Each interface is raised at most once.  A packet's ttl is left out: the *)
(* fragments a packet is sent as start at the default again at each hop.   *)
(* Payloads are small enough for one fragment.                             *)
(***************************************************************************)
EXTENDS Integers, Sequences, FiniteSets, SequencesExt

CONSTANTS
    Node,         \* the machines
    Iface,        \* their network cards, which are their own MAC addresses
    NodeOf,       \* NodeOf[i]: the machine card i is in
    AddrOf,       \* AddrOf[i]: the address configured for it
    Gateway,      \* Gateway[i]: the gateway configured for it, or NoGateway
    Metric,       \* Metric[i]: the metric of that default route
    NoGateway,
    Lo,           \* the loopback interface (of any machine)
    InitiallyUp,  \* the interfaces raised during boot
    Sends,        \* what the programs send
    MaxSends,     \* bound: how many packets they send in all
    MayIfDown,    \* interfaces may be lowered
    Lossy,        \* frames may be lost
    Patient       \* time-outs happen only when nothing is on its way

\* An address is the network it belongs to and the host in it.
Addr == [net : Nat, host : Nat]
LoNet == 127
LoAddr == [net |-> LoNet, host |-> 1]

\* A route; network 0 is the default route, which admits every address.
Route == [net : Nat, gateway : Addr, iface : Iface \cup {Lo}, metric : Nat]

Kinds == {"data", "request", "reply"}
Packet == [id : Nat, kind : Kinds, src : Addr, dst : Addr]
SendOp == [node : Node, kind : Kinds \ {"reply"}, dst : Addr]

\* What is in a machine's signal queue: frames for its card "at", and the
\* "arp" signal that the ARP layer pushes.
Signal == [t : {"request"}, at : Iface, from : Iface, addr : Addr]
          \cup [t : {"reply"}, at : Iface, mac : Iface, addr : Addr]
          \cup [t : {"ip"}, at : Iface, packet : Packet]
          \cup [t : {"arp"}, mac : Iface, addr : Addr]

\* A packet waiting in getAddress for the MAC address of its next hop.
Wait == [iface : Iface, hop : Addr, packet : Packet]

ASSUME ConstantsOK ==
    /\ IsFiniteSet(Iface)
    /\ NodeOf \in [Iface -> Node]
    /\ AddrOf \in [Iface -> Addr]
    /\ \A i \in Iface : AddrOf[i].net \notin {0, LoNet}
    /\ \A i, j \in Iface : i # j => /\ AddrOf[i] # AddrOf[j]
                                    /\ NodeOf[i] = NodeOf[j] =>
                                           AddrOf[i].net # AddrOf[j].net
    /\ Gateway \in [Iface -> Addr \cup {NoGateway}]
    /\ Metric \in [Iface -> Nat]
    /\ NoGateway \notin Addr
    /\ Lo \notin Iface
    /\ InitiallyUp \subseteq Iface
    /\ Sends \subseteq SendOp
    /\ MaxSends \in Nat
    /\ {MayIfDown, Lossy, Patient} \subseteq BOOLEAN

VARIABLES
    up,       \* the interfaces in network.interfaces
    raised,   \* the cards an EthernetInterface listens on
    routes,   \* routes[n]: the routing table of n, in its order
    arp,      \* arp[n]: the ARP cache of n
    signals,  \* signals[n]: the signal queue of n
    waiting,  \* waiting[n]: the sends of n that wait, the newest first
    sent,     \* the packets programs have sent
    handed,   \* handed[n]: the packets n has handed to the layer above
    lost      \* the packets dropped on their way

vars == <<up, raised, routes, arp, signals, waiting, sent, handed, lost>>

------------------------------------------------------------------------------
(* The routing table *)

\* The order addRoute sorts by.
Before(a, b) ==
    \/ a.net # 0 /\ b.net = 0
    \/ a.net = 0 /\ b.net = 0 /\ a.metric > b.metric
    \/ a.net # 0 /\ b.net # 0 /\ \/ a.metric > b.metric
                                 \/ a.metric = b.metric /\ a.net < b.net

\* table.sort is not stable: routes neither of which comes before the other
\* may end up either way.
Sorted(s) == \A j \in DOMAIN s, k \in DOMAIN s : j < k => ~Before(s[k], s[j])
Orders(S) == {s \in SetToSeqs(S) : Sorted(s)}

LoRoute == [net |-> LoNet, gateway |-> LoAddr, iface |-> Lo, metric |-> 0]

\* The routes that raising i adds.
RoutesOf(i) ==
    {[net |-> AddrOf[i].net, gateway |-> AddrOf[i], iface |-> i, metric |-> 0]}
    \cup (IF Gateway[i] = NoGateway THEN {}
          ELSE {[net |-> 0, gateway |-> Gateway[i], iface |-> i,
                 metric |-> Metric[i]]})

\* table.remove for the keys 1..k in turn: the loops of removeByInterface and
\* removeGateway run over the keys of the list of indexes they have found.
RemoveKeys(s, k) ==
    LET left[v \in 0..k] ==
            IF v = 0 THEN s
            ELSE IF v <= Len(left[v - 1]) THEN RemoveAt(left[v - 1], v)
            ELSE left[v - 1]
    IN left[k]

RemoveGateway(s, a) ==
    RemoveKeys(s, Cardinality({k \in DOMAIN s : s[k].gateway = a}))

RemoveByInterface(s, i) ==
    RemoveGateway(RemoveKeys(s, Cardinality({k \in DOMAIN s : s[k].iface = i})),
                  AddrOf[i])

\* getRoute: the first route that admits the address.
Admits(r, a) == r.net \in {0, a.net}
HasRoute(n, a) == \E k \in DOMAIN routes[n] : Admits(routes[n][k], a)
RouteTo(n, a) ==
    routes[n][CHOOSE k \in DOMAIN routes[n] :
                  /\ Admits(routes[n][k], a)
                  /\ \A j \in 1..(k - 1) : ~Admits(routes[n][j], a)]

IfaceAddr(i) == IF i = Lo THEN LoAddr ELSE AddrOf[i]
SourceFor(n, a) == IfaceAddr(RouteTo(n, a).iface)

\* The address IPv4Router:send passes to the interface.
NextHop(n, a) ==
    LET r == RouteTo(n, a)
    IN IF r.gateway = IfaceAddr(r.iface) THEN a ELSE r.gateway

\* The interface hands the packet to itself.
Here(n, a) ==
    /\ HasRoute(n, a)
    /\ RouteTo(n, a).iface = Lo \/ NextHop(n, a) = AddrOf[RouteTo(n, a).iface]

------------------------------------------------------------------------------
(* What a packet leads to on a machine *)

\* Mutant of Replies: the answer is addressed to where the request went.
RepliesToSelf(n, p) ==
    IF p.kind = "request" /\ HasRoute(n, p.src)
    THEN {[id |-> p.id, kind |-> "reply", src |-> p.src, dst |-> p.dst]}
    ELSE {}

\* The ICMP layer answers an echo request; looking up the local address
\* raises an error when there is no way back.
Replies(n, p) ==
    IF p.kind = "request" /\ HasRoute(n, p.src)
    THEN {[id |-> p.id, kind |-> "reply", src |-> SourceFor(n, p.src),
           dst |-> p.src]}
    ELSE {}

\* The packets handed up, and the ones that leave, when p is n's own ("mine")
\* or is passed to the router.
HandedUp(n, p, mine) ==
    IF mine \/ Here(n, p.dst)
    THEN {p} \cup {q \in Replies(n, p) : Here(n, q.dst)} ELSE {}
Leaving(n, p, mine) ==
    IF mine \/ Here(n, p.dst)
    THEN {q \in Replies(n, p) : ~Here(n, q.dst)} ELSE {p}

\* No route to p's destination, or back to its source.
Dropped(n, p, mine) ==
    {q \in Leaving(n, p, mine) : ~HasRoute(n, q.dst)}
    \cup (IF p \in HandedUp(n, p, mine) /\ p.kind = "request"
             /\ Replies(n, p) = {} THEN {p} ELSE {})

\* The cards that hear a broadcast of card i.
Hears(i) == {c \in raised \ {i} : AddrOf[c].net = AddrOf[i].net}

\* The queues sig with the frames fs; a machine has one card on each network,
\* so it gets one of them at most.
Frames(sig, fs) ==
    [n \in Node |->
        LET own == {f \in fs : NodeOf[f.at] = n}
        IN IF own = {} THEN sig[n] ELSE Append(sig[n], CHOOSE f \in own : TRUE)]

IpFrame(c, p) == [t |-> "ip", at |-> c, packet |-> p]

\* IPv4Layer:send of the packets in out (one at most), with the queues sig.
Passed(n, out, sig) ==
    IF out = {}
    THEN signals' = sig /\ UNCHANGED waiting
    ELSE \E p \in out :
         LET i == RouteTo(n, p.dst).iface
             h == NextHop(n, p.dst)
         IN IF h \in DOMAIN arp[n]
            THEN /\ signals' = Frames(sig, {IpFrame(arp[n][h], p)})
                 /\ UNCHANGED waiting
            ELSE /\ signals' = Frames(sig, {[t |-> "request", at |-> c, from |-> i,
                                            addr |-> h] : c \in Hears(i)})
                 /\ waiting' = [waiting EXCEPT ![n] =
                                   <<[iface |-> i, hop |-> h, packet |-> p]>> \o @]

\* Everything n does with the packet p.
Process(n, p, mine, sig) ==
    /\ handed' = [handed EXCEPT ![n] = @ \cup HandedUp(n, p, mine)]
    /\ lost' = lost \cup Dropped(n, p, mine)
    /\ Passed(n, Leaving(n, p, mine) \ Dropped(n, p, mine), sig)

------------------------------------------------------------------------------
BootRoutes(n) ==
    {LoRoute} \cup UNION {RoutesOf(i) : i \in {j \in InitiallyUp : NodeOf[j] = n}}

Init ==
    /\ up = InitiallyUp
    /\ raised = InitiallyUp
    /\ routes \in {f \in [Node -> UNION {Orders(BootRoutes(n)) : n \in Node}] :
                      \A n \in Node : f[n] \in Orders(BootRoutes(n))}
    /\ arp = [n \in Node |-> <<>>]
    /\ signals = [n \in Node |-> <<>>]
    /\ waiting = [n \in Node |-> <<>>]
    /\ sent = {}
    /\ handed = [n \in Node |-> {}]
    /\ lost = {}

------------------------------------------------------------------------------
(* Programs and the administrator *)

\* A program, or a timer that fires while another send waits, sends a packet.
Send(op) ==
    LET p == [id |-> Cardinality(sent) + 1, kind |-> op.kind,
              src |-> SourceFor(op.node, op.dst), dst |-> op.dst]
    IN /\ Cardinality(sent) < MaxSends
       /\ HasRoute(op.node, op.dst)
       /\ sent' = sent \cup {p}
       /\ Process(op.node, p, FALSE, signals)
       /\ UNCHANGED <<up, raised, routes, arp>>

IfUp(i) ==
    LET n == NodeOf[i]
    IN /\ i \notin raised
       /\ up' = up \cup {i}
       /\ raised' = raised \cup {i}
       /\ \E new \in Orders(ToSet(routes[n]) \cup RoutesOf(i)) :
              routes' = [routes EXCEPT ![n] = new]
       /\ UNCHANGED <<arp, signals, waiting, sent, handed, lost>>

\* The card goes on listening: nothing closes its EthernetInterface.
IfDown(i) ==
    /\ MayIfDown
    /\ i \in up
    /\ up' = up \ {i}
    /\ routes' = [routes EXCEPT ![NodeOf[i]] = RemoveByInterface(@, i)]
    /\ UNCHANGED <<raised, arp, signals, waiting, sent, handed, lost>>

------------------------------------------------------------------------------
(* The signals of machine n *)

Rest(n) == [signals EXCEPT ![n] = Tail(@)]

\* Mutant of Asked: every machine that hears a request answers it.
AskedOfAny(s) == TRUE

\* The request is about the address of the card that got it.
Asked(s) == s.addr = AddrOf[s.at]

RcvRequest(n) ==
    /\ signals[n] # <<>>
    /\ LET s == Head(signals[n])
       IN /\ s.t = "request"
          /\ signals' = IF Asked(s)
                        THEN Frames(Rest(n), {[t |-> "reply", at |-> s.from,
                                                mac |-> s.at, addr |-> s.addr]})
                        ELSE Rest(n)
    /\ UNCHANGED <<up, raised, routes, arp, waiting, sent, handed, lost>>

Cached(cache, addr, mac) ==
    [a \in DOMAIN cache \cup {addr} |-> IF a = addr THEN mac ELSE cache[a]]

\* addCached: the cache, then the signal.
RcvReply(n) ==
    /\ signals[n] # <<>>
    /\ LET s == Head(signals[n])
       IN /\ s.t = "reply"
          /\ arp' = [arp EXCEPT ![n] = Cached(@, s.addr, s.mac)]
          /\ signals' = [signals EXCEPT ![n] =
                            Append(Tail(@), [t |-> "arp", mac |-> s.mac,
                                             addr |-> s.addr])]
    /\ UNCHANGED <<up, raised, routes, waiting, sent, handed, lost>>

\* Mutant of Mine: a packet is accepted by any card it reaches.
MineAlways(s) == TRUE

Mine(s) == s.packet.dst = AddrOf[s.at]

\* IPv4Layer:payloadHandler: the packet is for this interface, or is routed.
RcvIp(n) ==
    /\ signals[n] # <<>>
    /\ LET s == Head(signals[n])
       IN /\ s.t = "ip"
          /\ Process(n, s.packet, Mine(s), Rest(n))
    /\ UNCHANGED <<up, raised, routes, arp, sent>>

\* Mutant of Resumed: the send stays where it waited.
ResumedStays(n) == waiting[n]

\* The waits once the newest has its answer.
Resumed(n) == Tail(waiting[n])

\* The newest wait gets the signal; if it is not the one it waits for, or
\* nothing waits, the signal is discarded.
RcvArp(n) ==
    /\ signals[n] # <<>>
    /\ LET s == Head(signals[n])
       IN /\ s.t = "arp"
          /\ IF waiting[n] # <<>> /\ waiting[n][1].hop = s.addr
             THEN /\ waiting' = [waiting EXCEPT ![n] = Resumed(n)]
                  /\ signals' = Frames(Rest(n),
                                       {IpFrame(s.mac, waiting[n][1].packet)})
             ELSE signals' = Rest(n) /\ UNCHANGED waiting
    /\ UNCHANGED <<up, raised, routes, arp, sent, handed, lost>>

Receive(n) == RcvRequest(n) \/ RcvReply(n) \/ RcvIp(n) \/ RcvArp(n)

\* Mutant of GiveUp: getAddress waits without a limit.
GiveUpNever(n) == FALSE /\ UNCHANGED vars

\* "Cannot resolve IP": when the newest wait has lasted its second, the older
\* ones have lasted theirs, and end one after the other without taking another
\* signal in between.
GiveUp(n) ==
    /\ waiting[n] # <<>>
    /\ Patient => \A m \in Node : signals[m] = <<>>
    /\ waiting' = [waiting EXCEPT ![n] = <<>>]
    /\ lost' = lost \cup {waiting[n][k].packet : k \in DOMAIN waiting[n]}
    /\ UNCHANGED <<up, raised, routes, arp, signals, sent, handed>>

\* A frame is lost on the wire, or a signal because the queue was full.
Lose(n) ==
    /\ Lossy
    /\ signals[n] # <<>>
    /\ signals' = Rest(n)
    /\ lost' = lost \cup (IF Head(signals[n]).t = "ip"
                          THEN {Head(signals[n]).packet} ELSE {})
    /\ UNCHANGED <<up, raised, routes, arp, waiting, sent, handed>>

------------------------------------------------------------------------------
Next ==
    \/ \E op \in Sends : Send(op)
    \/ \E i \in Iface : IfUp(i) \/ IfDown(i)
    \/ \E n \in Node : Receive(n) \/ GiveUp(n) \/ Lose(n)

\* A machine goes on taking signals from its queue, and its waits time out.
Fairness == \A n \in Node : WF_vars(Receive(n)) /\ WF_vars(GiveUp(n))

Spec == Init /\ [][Next]_vars /\ Fairness

------------------------------------------------------------------------------
\* Every variable keeps its type.
TypeOK ==
    /\ up \subseteq raised
    /\ raised \subseteq Iface
    /\ routes \in [Node -> Seq(Route)]
    /\ \A n \in Node : \E A \in SUBSET {AddrOf[i] : i \in Iface} :
           arp[n] \in [A -> Iface]
    /\ signals \in [Node -> Seq(Signal)]
    /\ waiting \in [Node -> Seq(Wait)]
    /\ sent \subseteq Packet
    /\ handed \in [Node -> SUBSET Packet]
    /\ lost \subseteq Packet

\* The ARP caches never lie: an address is mapped to the card it is
\* configured on, whoever asked, and however requests and answers overtook
\* each other.
ArpTruth == \A n \in Node : \A a \in DOMAIN arp[n] : AddrOf[arp[n][a]] = a

\* The copies of packet k of the given kind: in a queue, in a wait, handed up.
QueuedAt(n, k, kind) ==
    {j \in DOMAIN signals[n] : /\ signals[n][j].t = "ip"
                               /\ signals[n][j].packet.id = k
                               /\ signals[n][j].packet.kind = kind}
WaitingAt(n, k, kind) ==
    {j \in DOMAIN waiting[n] : /\ waiting[n][j].packet.id = k
                               /\ waiting[n][j].packet.kind = kind}
HandedAt(n, k, kind) == {p \in handed[n] : p.id = k /\ p.kind = kind}
Copies(k, kind) ==
    (UNION {{"queued"} \X {n} \X QueuedAt(n, k, kind) : n \in Node})
    \cup (UNION {{"waiting"} \X {n} \X WaitingAt(n, k, kind) : n \in Node})
    \cup (UNION {{"handed"} \X {n} \X HandedAt(n, k, kind) : n \in Node})

\* A packet is never duplicated: neither a nested wait, a repeated ARP answer
\* nor a time-out leaves a second copy behind, and each machine hands it up
\* once.
AtMostOnce ==
    \A k \in 1..MaxSends, kind \in Kinds : Cardinality(Copies(k, kind)) <= 1

\* The loopback interface of each machine answers to all of its network.
Owns(n, a) == a.net = LoNet \/ \E i \in Iface : NodeOf[i] = n /\ AddrOf[i] = a

\* A packet is handed up only on the machine it is addressed to, whatever
\* the routes of the machines on its way have become.
HandedToAddressee == \A n \in Node : \A p \in handed[n] : Owns(n, p.dst)

\* An echo reply handed up answers a request this very machine has sent, and
\* that the machine it was addressed to has handled.
RepliesAnswer ==
    \A n \in Node : \A q \in handed[n] : q.kind = "reply" =>
        \E p \in sent : /\ p.id = q.id
                        /\ p.kind = "request"
                        /\ Owns(n, p.src)
                        /\ \E m \in Node : Owns(m, p.dst) /\ p \in handed[m]

IsSent(k, kind) == \E p \in sent : p.id = k /\ p.kind = kind
IsHanded(k, kind) == \E n \in Node : HandedAt(n, k, kind) # {}
IsLost(k) == \E p \in lost : p.id = k

\* Every echo request is answered unless it or its answer was dropped at a
\* place that can be named: no packet waits, or is sent around, for ever.
EchoAnswered ==
    \A k \in 1..MaxSends :
        IsSent(k, "request") ~> (IsHanded(k, "reply") \/ IsLost(k))

==============================================================================
