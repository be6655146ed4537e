------------------------------- MODULE IpProofs -------------------------------
(***************************************************************************)
(* Proofs about IpNetwork: types, the ARP caches, who is handed a packet,  *)
(* and what an echo reply answers.                                         *)
(***************************************************************************)
EXTENDS IpNetwork, FiniteSetTheorems, WellFoundedInduction, TLAPS

\* Induction over the naturals in the one form the provers can use.
LEMMA Least ==
    ASSUME NEW T, T \subseteq Nat, T # {}
    PROVE  \E x \in T : \A y \in T : x <= y
<1>1. PICK x \in T : \A y \in T : ~(<<y, x>> \in OpToRel(<, Nat))
  BY NatLessThanWellFounded, WFMin
<1>2. ASSUME NEW y \in T PROVE x <= y
  <2>1. ASSUME y < x PROVE FALSE
    <3>1. <<y, x>> \in {ss \in Nat \X Nat : ss[1] < ss[2]}
      BY <2>1
    <3>2. <<y, x>> \in OpToRel(<, Nat)
      BY <3>1, Zenon DEF OpToRel
    <3> QED
      BY <3>2, <1>1
  <2> QED
    BY <2>1
<1> QED
  BY <1>2

LEMMA Induct ==
    ASSUME NEW k \in Nat, NEW T, 0 \in T,
           \A j \in 0..k : j > 0 /\ j - 1 \in T => j \in T
    PROVE  \A j \in 0..k : j \in T
<1> SUFFICES ASSUME (0..k) \ T # {} PROVE FALSE
  OBVIOUS
<1>1. PICK x \in (0..k) \ T : \A y \in (0..k) \ T : x <= y
  <2>1. (0..k) \ T \subseteq Nat
    OBVIOUS
  <2> QED
    BY <2>1, Least
<1>2. x > 0 /\ x - 1 \in 0..k /\ ~(x <= x - 1)
  BY <1>1
<1> QED
  BY <1>1, <1>2

-----------------------------------------------------------------------------
(* Routing tables.                                                         *)

\* A route of machine n.
RouteOK(n, r) ==
    /\ r \in Route
    /\ \/ r.iface = Lo /\ r.net = LoNet
       \/ r.iface \in Iface /\ NodeOf[r.iface] = n
Table(n) == {r \in Route : RouteOK(n, r)}

LEMMA RemoveAtType ==
    ASSUME NEW R, NEW s \in Seq(R), NEW v \in Nat \ {0}, v <= Len(s)
    PROVE  RemoveAt(s, v) \in Seq(R)
BY DEF RemoveAt

\* Whatever positions are removed, what is left are routes of the table.
LEMMA RemoveKeysType ==
    ASSUME NEW R, NEW s \in Seq(R), NEW k \in Nat
    PROVE  RemoveKeys(s, k) \in Seq(R)
<1> DEFINE Del(t, v) == IF v <= Len(t) THEN RemoveAt(t, v) ELSE t
           Good(j, f) == /\ f = [v \in 0..j |-> f[v]] /\ f[0] = s
                         /\ \A v \in 1..j : f[v] = Del(f[v - 1], v)
           T == {j \in Nat : \E f : Good(j, f)}
<1>1. 0 \in T
  <2>1. Good(0, [v \in 0..0 |-> s])
    OBVIOUS
  <2> QED
    BY <2>1
<1>2. ASSUME NEW j \in 0..k, j > 0, j - 1 \in T PROVE j \in T
  <2>1. PICK f : Good(j - 1, f)
    BY <1>2
  <2> DEFINE g == [v \in 0..j |-> IF v = j THEN Del(f[j - 1], j) ELSE f[v]]
  <2>2. Good(j, g)
    <3> HIDE DEF Del
    <3>1. g = [v \in 0..j |-> g[v]] /\ g[0] = s
      BY <1>2, <2>1
    <3>2. ASSUME NEW v \in 1..j PROVE g[v] = Del(g[v - 1], v)
      <4>1. g[v - 1] = f[v - 1]
        OBVIOUS
      <4>2. CASE v = j
        BY <4>1, <4>2
      <4>3. CASE v # j
        <5>1. v \in 1..(j - 1)
          BY <4>3
        <5>2. f[v] = Del(f[v - 1], v)
          BY <5>1, <2>1
        <5>3. g[v] = f[v]
          BY <4>3
        <5> QED
          BY <4>1, <5>2, <5>3
      <4> QED
        BY <4>2, <4>3
    <3> QED
      BY <3>1, <3>2
  <2> HIDE DEF Good
  <2> QED
    BY <1>2, <2>2
<1>3. PICK f : Good(k, f)
  <2> HIDE DEF T
  <2>1. k \in T
    BY <1>1, <1>2, Induct, SMTT(30)
  <2> QED
    BY <2>1 DEF T
<1> DEFINE IsLeft(t) ==
      t = [v \in 0..k |-> IF v = 0 THEN s
                          ELSE IF v <= Len(t[v - 1]) THEN RemoveAt(t[v - 1], v)
                          ELSE t[v - 1]]
<1>4. IsLeft(f)
  <2>1. f = [v \in 0..k |-> f[v]] /\ f[0] = s
    BY <1>3
  <2>2. \A v \in 0..k : v # 0 => v \in 1..k
    OBVIOUS
  <2>3. \A v \in 0..k : f[v] = IF v = 0 THEN s
                              ELSE IF v <= Len(f[v - 1])
                                   THEN RemoveAt(f[v - 1], v) ELSE f[v - 1]
    BY <1>3, <2>1, <2>2
  <2> QED
    BY <2>1, <2>3
<1>5. PICK t : IsLeft(t) /\ RemoveKeys(s, k) = t[k]
  <2> HIDE DEF Good
  <2> QED
    BY <1>4 DEF RemoveKeys
<1> DEFINE U == {j \in 0..k : t[j] \in Seq(R)}
<1>6. 0 \in U
  BY <1>5
<1>7. ASSUME NEW j \in 0..k, j > 0, j - 1 \in U PROVE j \in U
  <2>1. t[j] = IF j <= Len(t[j - 1]) THEN RemoveAt(t[j - 1], j) ELSE t[j - 1]
    BY <1>5, <1>7
  <2> QED
    BY <1>7, <2>1, RemoveAtType
<1>8. k \in U
  <2> HIDE DEF U
  <2> QED
    BY <1>6, <1>7, Induct, SMTT(30)
<1> QED
  BY <1>5, <1>8

LEMMA RemoveByInterfaceType ==
    ASSUME NEW R, NEW s \in Seq(R), NEW i
    PROVE  RemoveByInterface(s, i) \in Seq(R)
<1>1. ASSUME NEW u \in Seq(R), NEW K, K \subseteq DOMAIN u
      PROVE  Cardinality(K) \in Nat
  <2>1. IsFiniteSet(DOMAIN u)
    <3>1. DOMAIN u = 1..Len(u) /\ Len(u) \in Nat
      OBVIOUS
    <3>2. IsFiniteSet(1..Len(u))
      BY <3>1, FS_Interval
    <3> QED
      BY <3>1, <3>2
  <2>2. IsFiniteSet(K)
    BY <1>1, <2>1, FS_Subset
  <2> QED
    BY <2>2, FS_CardinalityType
<1>2. PICK u : u = RemoveKeys(s, Cardinality({k \in DOMAIN s : s[k].iface = i}))
  OBVIOUS
<1>3. u \in Seq(R)
  BY <1>1, <1>2, RemoveKeysType
<1>4. RemoveGateway(u, AddrOf[i]) \in Seq(R)
  BY <1>1, <1>3, RemoveKeysType DEF RemoveGateway
<1> QED
  BY <1>2, <1>4 DEF RemoveByInterface

LEMMA OrdersType ==
    ASSUME NEW S, IsFiniteSet(S), NEW s \in Orders(S)
    PROVE  s \in Seq(S)
<1>1. Cardinality(S) \in Nat
  BY FS_CardinalityType
<1> QED
  BY <1>1 DEF Orders, SetToSeqs

\* Every machine's routing table, and its caches and queues, given the packets
\* S that were sent and those H that were handed up.
RoutesOK == routes \in [Node -> Seq(Route)]
            /\ \A n \in Node : routes[n] \in Seq(Table(n))

LEMMA ConstantTypes ==
    /\ LoAddr \in Addr
    /\ \A i \in Iface : AddrOf[i] \in Addr /\ IfaceAddr(i) = AddrOf[i]
    /\ IfaceAddr(Lo) = LoAddr
    /\ Lo \notin Iface
BY ConstantsOK DEF LoAddr, LoNet, Addr, IfaceAddr

\* The route that is found is the table's, and admits the address.
LEMMA RouteFound ==
    ASSUME RoutesOK, NEW n \in Node, NEW a, HasRoute(n, a)
    PROVE  RouteOK(n, RouteTo(n, a)) /\ Admits(RouteTo(n, a), a)
<1> DEFINE r == routes[n]
           T == {k \in DOMAIN r : Admits(r[k], a)}
<1>1. r \in Seq(Table(n)) /\ DOMAIN r = 1..Len(r) /\ Len(r) \in Nat
  BY DEF RoutesOK
<1>2. PICK k \in T : \A j \in T : k <= j
  <2>1. T \subseteq Nat /\ T # {}
    BY <1>1 DEF HasRoute
  <2> HIDE DEF T
  <2> QED
    BY <2>1, Least
<1>3. \A j \in 1..(k - 1) : ~Admits(r[j], a)
  <2>1. ASSUME NEW j \in 1..(k - 1) PROVE ~Admits(r[j], a)
    <3>1. j \in DOMAIN r /\ ~(k <= j)
      BY <1>1, <1>2
    <3> QED
      BY <1>2, <3>1
  <2> QED
    BY <2>1
<1>4. PICK l \in DOMAIN r : Admits(r[l], a) /\ RouteTo(n, a) = r[l]
  BY <1>2, <1>3 DEF RouteTo
<1>5. r[l] \in Table(n)
  BY <1>1, <1>4
<1> QED
  BY <1>4, <1>5 DEF Table

LEMMA RouteTypes ==
    ASSUME RoutesOK, NEW n \in Node, NEW a \in Addr, HasRoute(n, a)
    PROVE  /\ SourceFor(n, a) \in Addr
           /\ NextHop(n, a) \in Addr
           /\ ~Here(n, a) => RouteTo(n, a).iface \in Iface
<1>1. RouteOK(n, RouteTo(n, a))
  BY RouteFound
<1> QED
  BY <1>1, ConstantTypes DEF RouteOK, Route, SourceFor, NextHop, Here

\* A machine hands itself only what is addressed to it.
LEMMA HereIsOwn ==
    ASSUME RoutesOK, NEW n \in Node, NEW a \in Addr, Here(n, a)
    PROVE  Owns(n, a)
<1>1. HasRoute(n, a)
  BY DEF Here
<1>2. PICK r : r = RouteTo(n, a)
  OBVIOUS
<1>3. RouteOK(n, r) /\ Admits(r, a)
  BY <1>1, <1>2, RouteFound
<1>4. CASE r.iface = Lo
  BY <1>3, <1>4, ConstantTypes DEF RouteOK, Admits, Owns, LoNet
<1>5. CASE r.iface # Lo
  <2>1. r.iface \in Iface /\ NodeOf[r.iface] = n
    BY <1>3, <1>5 DEF RouteOK
  <2>2. NextHop(n, a) = AddrOf[r.iface]
    BY <1>2, <1>5 DEF Here
  <2>3. a = AddrOf[r.iface]
    BY <1>2, <2>1, <2>2, ConstantTypes DEF NextHop
  <2> QED
    BY <2>1, <2>3 DEF Owns
<1> QED
  BY <1>4, <1>5

LEMMA RepliesType ==
    ASSUME RoutesOK, NEW n \in Node, NEW p \in Packet, NEW q \in Replies(n, p)
    PROVE  /\ q \in Packet /\ q.kind = "reply"
           /\ p.kind = "request" /\ q.id = p.id /\ q.dst = p.src
<1>1. p.src \in Addr /\ p.id \in Nat
  BY DEF Packet
<1>2. /\ p.kind = "request" /\ HasRoute(n, p.src)
      /\ q = [id |-> p.id, kind |-> "reply", src |-> SourceFor(n, p.src),
              dst |-> p.src]
  BY DEF Replies
<1>3. SourceFor(n, p.src) \in Addr
  BY <1>1, <1>2, RouteTypes
<1> QED
  BY <1>1, <1>2, <1>3 DEF Packet, Kinds

-----------------------------------------------------------------------------
(* Packets and signals under way.                                          *)

\* The reply q, when the packets S were sent and H[m] was handed up on m.
Answers(q, S, H) ==
    \E p \in S : /\ p.id = q.id /\ p.kind = "request" /\ q.dst = p.src
                 /\ \E m \in Node : Owns(m, p.dst) /\ p \in H[m]

Honest(p, S, H) ==
    /\ p \in Packet
    /\ p.kind = "request" => p \in S
    /\ p.kind = "reply" => Answers(p, S, H)

\* A signal in the queue of n: at a card of n; ARP answers are true.
SignalOK(n, s, S, H) ==
    /\ s \in Signal
    /\ s.t # "arp" => NodeOf[s.at] = n
    /\ s.t \in {"reply", "arp"} => AddrOf[s.mac] = s.addr
    /\ s.t = "ip" => Honest(s.packet, S, H)

QueuesOK(sig, S, H) ==
    /\ sig \in [Node -> Seq(Signal)]
    /\ \A n \in Node : \A j \in DOMAIN sig[n] : SignalOK(n, sig[n][j], S, H)

WaitsOK(w, S, H) ==
    /\ w \in [Node -> Seq(Wait)]
    /\ \A n \in Node : \A j \in DOMAIN w[n] : Honest(w[n][j].packet, S, H)

HandedOK(S, H) ==
    /\ H \in [Node -> SUBSET Packet]
    /\ \A n \in Node : \A p \in H[n] : Honest(p, S, H) /\ Owns(n, p.dst)

Grown(S, H, S2, H2) == S \subseteq S2 /\ \A n \in Node : H[n] \subseteq H2[n]

LEMMA HonestGrows ==
    ASSUME NEW S, NEW H, NEW S2, NEW H2, Grown(S, H, S2, H2),
           NEW p, Honest(p, S, H)
    PROVE  Honest(p, S2, H2)
BY DEF Grown, Honest, Answers

LEMMA QueuesGrow ==
    ASSUME NEW S, NEW H, NEW S2, NEW H2, Grown(S, H, S2, H2),
           NEW sig, QueuesOK(sig, S, H)
    PROVE  QueuesOK(sig, S2, H2)
BY HonestGrows DEF QueuesOK, SignalOK

LEMMA WaitsGrow ==
    ASSUME NEW S, NEW H, NEW S2, NEW H2, Grown(S, H, S2, H2),
           NEW w, WaitsOK(w, S, H)
    PROVE  WaitsOK(w, S2, H2)
BY HonestGrows DEF WaitsOK

LEMMA TailOK ==
    ASSUME NEW S, NEW H, NEW sig, QueuesOK(sig, S, H), NEW n \in Node,
           sig[n] # <<>>, NEW new, new = [sig EXCEPT ![n] = Tail(@)]
    PROVE  QueuesOK(new, S, H) /\ SignalOK(n, Head(sig[n]), S, H)
<1>1. sig[n] \in Seq(Signal) /\ new \in [Node -> Seq(Signal)]
  BY DEF QueuesOK
<1>2. Head(sig[n]) = sig[n][1] /\ 1 \in DOMAIN sig[n]
  BY <1>1
<1>3. \A j \in DOMAIN new[n] : j + 1 \in DOMAIN sig[n] /\ new[n][j] = sig[n][j + 1]
  BY <1>1
<1> QED
  BY <1>1, <1>2, <1>3 DEF QueuesOK

LEMMA AppendOK ==
    ASSUME NEW S, NEW H, NEW sig, QueuesOK(sig, S, H), NEW n \in Node,
           NEW s, SignalOK(n, s, S, H), NEW new, new = Append(sig[n], s)
    PROVE  new \in Seq(Signal) /\ \A j \in DOMAIN new : SignalOK(n, new[j], S, H)
<1>1. sig[n] \in Seq(Signal) /\ s \in Signal
  BY DEF QueuesOK, SignalOK
<1>2. new \in Seq(Signal) /\ DOMAIN new = 1..(Len(sig[n]) + 1)
  BY <1>1
<1>3. ASSUME NEW j \in DOMAIN new PROVE SignalOK(n, new[j], S, H)
  <2>1. CASE j = Len(sig[n]) + 1
    BY <1>1, <2>1
  <2>2. CASE j # Len(sig[n]) + 1
    <3>1. j \in DOMAIN sig[n] /\ new[j] = sig[n][j]
      BY <1>1, <1>2, <2>2
    <3> QED
      BY <3>1 DEF QueuesOK
  <2> QED
    BY <2>1, <2>2
<1> QED
  BY <1>2, <1>3

LEMMA FramesOK ==
    ASSUME NEW S, NEW H, NEW sig, QueuesOK(sig, S, H), NEW fs,
           \A f \in fs : f.t # "arp" /\ \A n \in Node :
                             NodeOf[f.at] = n => SignalOK(n, f, S, H)
    PROVE  QueuesOK(Frames(sig, fs), S, H)
<1>1. PICK new : new = Frames(sig, fs)
  OBVIOUS
<1>2. ASSUME NEW n \in Node
      PROVE  new[n] \in Seq(Signal) /\ \A j \in DOMAIN new[n] : SignalOK(n, new[n][j], S, H)
  <2> DEFINE own == {f \in fs : NodeOf[f.at] = n}
  <2>1. CASE own = {}
    BY <1>1, <2>1 DEF Frames, QueuesOK
  <2>2. CASE own # {}
    <3>1. PICK f \in own : new[n] = Append(sig[n], f)
      BY <1>1, <2>2 DEF Frames
    <3> QED
      BY <3>1, AppendOK
  <2> QED
    BY <2>1, <2>2
<1>3. new = [n \in Node |-> new[n]]
  BY <1>1 DEF Frames
<1> QED
  BY <1>1, <1>2, <1>3 DEF QueuesOK

-----------------------------------------------------------------------------
(* What a machine does with a packet.                                      *)

\* A cache, and that it does not lie.
CacheOK(c) ==
    /\ \E A \in SUBSET {AddrOf[i] : i \in Iface} : c \in [A -> Iface]
    /\ \A a \in DOMAIN c : AddrOf[c[a]] = a
ArpOK == arp = [n \in Node |-> arp[n]] /\ \A n \in Node : CacheOK(arp[n])

LEMMA IpFrameOK ==
    ASSUME NEW S, NEW H, NEW p, Honest(p, S, H), NEW c \in Iface
    PROVE  /\ IpFrame(c, p).t # "arp"
           /\ \A n \in Node : NodeOf[IpFrame(c, p).at] = n
                                  => SignalOK(n, IpFrame(c, p), S, H)
BY DEF IpFrame, SignalOK, Signal, Honest

LEMMA PassedOK ==
    ASSUME RoutesOK, ArpOK, raised \subseteq Iface,
           NEW S, NEW H, NEW sig, QueuesOK(sig, S, H), WaitsOK(waiting, S, H),
           NEW n \in Node, NEW out,
           \A p \in out : /\ Honest(p, S, H)
                          /\ HasRoute(n, p.dst) /\ ~Here(n, p.dst),
           Passed(n, out, sig)
    PROVE  QueuesOK(signals', S, H) /\ WaitsOK(waiting', S, H)
<1>1. CASE out = {}
  BY <1>1 DEF Passed
<1>2. CASE out # {}
  <2>1. PICK p \in out :
          LET i == RouteTo(n, p.dst).iface
              h == NextHop(n, p.dst)
          IN IF h \in DOMAIN arp[n]
             THEN /\ signals' = Frames(sig, {IpFrame(arp[n][h], p)})
                  /\ UNCHANGED waiting
             ELSE /\ signals' = Frames(sig, {[t |-> "request", at |-> c, from |-> i,
                                             addr |-> h] : c \in Hears(i)})
                  /\ waiting' = [waiting EXCEPT ![n] =
                                    <<[iface |-> i, hop |-> h, packet |-> p]>> \o @]
    BY <1>2, Zenon DEF Passed
  <2>2. PICK i, h : i = RouteTo(n, p.dst).iface /\ h = NextHop(n, p.dst)
    OBVIOUS
  <2>3. Honest(p, S, H) /\ p \in Packet /\ i \in Iface /\ h \in Addr
    <3>1. p \in Packet /\ p.dst \in Addr
      BY DEF Honest, Packet
    <3> QED
      BY <2>2, <3>1, RouteTypes
  <2>4. CASE h \in DOMAIN arp[n]
    <3>1. arp[n][h] \in Iface
      BY <2>4 DEF ArpOK, CacheOK
    <3>2. PICK c \in Iface : c = arp[n][h]
      BY <3>1
    <3>3. signals' = Frames(sig, {IpFrame(c, p)}) /\ UNCHANGED waiting
      BY <2>1, <2>2, <2>4, <3>2
    <3>4. \A f \in {IpFrame(c, p)} : f.t # "arp" /\ \A m \in Node :
                              NodeOf[f.at] = m => SignalOK(m, f, S, H)
      BY <2>3, IpFrameOK
    <3>5. QueuesOK(Frames(sig, {IpFrame(c, p)}), S, H)
      BY <3>4, FramesOK
    <3> QED
      BY <3>3, <3>5
  <2>5. CASE h \notin DOMAIN arp[n]
    <3>1. PICK fs : fs = {[t |-> "request", at |-> c, from |-> i, addr |-> h]
                              : c \in Hears(i)}
      OBVIOUS
    <3>2. PICK w : w = [iface |-> i, hop |-> h, packet |-> p]
      OBVIOUS
    <3>3. signals' = Frames(sig, fs) /\ waiting' = [waiting EXCEPT ![n] = <<w>> \o @]
      BY <2>1, <2>2, <2>5, <3>1, <3>2
    <3>4. \A f \in fs : f.t # "arp" /\ \A m \in Node :
                              NodeOf[f.at] = m => SignalOK(m, f, S, H)
      BY <2>3, <3>1 DEF Hears, SignalOK, Signal
    <3>5. QueuesOK(signals', S, H)
      BY <3>3, <3>4, FramesOK
    <3>6. w \in Wait /\ w.packet = p
      BY <2>3, <3>2 DEF Wait
    <3>7. waiting[n] \in Seq(Wait) /\ waiting' \in [Node -> Seq(Wait)]
          /\ waiting'[n] = <<w>> \o waiting[n]
      BY <3>3, <3>6 DEF WaitsOK
    <3>8. \A j \in DOMAIN waiting'[n] :
              \/ waiting'[n][j] = w
              \/ j - 1 \in DOMAIN waiting[n] /\ waiting'[n][j] = waiting[n][j - 1]
      BY <3>6, <3>7
    <3>9. WaitsOK(waiting', S, H)
      BY <2>3, <3>3, <3>6, <3>7, <3>8 DEF WaitsOK
    <3> QED
      BY <3>5, <3>9
  <2> QED
    BY <2>4, <2>5
<1> QED
  BY <1>1, <1>2

LEMMA ProcessOK ==
    ASSUME RoutesOK, ArpOK, raised \subseteq Iface,
           NEW S, NEW H, H = handed, HandedOK(S, H),
           NEW sig, QueuesOK(sig, S, H), WaitsOK(waiting, S, H),
           NEW n \in Node, NEW p, Honest(p, S, H),
           NEW mine \in BOOLEAN, mine => Owns(n, p.dst),
           lost \subseteq Packet,
           Process(n, p, mine, sig)
    PROVE  /\ HandedOK(S, handed')
           /\ QueuesOK(signals', S, handed') /\ WaitsOK(waiting', S, handed')
           /\ lost' \subseteq Packet
<1>1. p \in Packet /\ p.dst \in Addr
  BY DEF Honest, Packet
<1>2. mine \/ Here(n, p.dst) => Owns(n, p.dst)
  BY <1>1, HereIsOwn
<1>3. PICK up1, out : /\ up1 = HandedUp(n, p, mine)
                      /\ out = Leaving(n, p, mine) \ Dropped(n, p, mine)
  OBVIOUS
<1>4. PICK H2 : H2 = [H EXCEPT ![n] = @ \cup up1]
  OBVIOUS
<1>5. handed' = H2 /\ Passed(n, out, sig)
  BY <1>3, <1>4 DEF Process
<1>6. up1 \subseteq {p} \cup Replies(n, p)
  BY <1>3 DEF HandedUp
<1>7. up1 \subseteq Packet
  BY <1>1, <1>6, RepliesType
<1>8. /\ H \in [Node -> SUBSET Packet] /\ H2 \in [Node -> SUBSET Packet]
      /\ H2[n] = H[n] \cup up1
      /\ \A m \in Node : m # n => H2[m] = H[m]
  BY <1>4, <1>7 DEF HandedOK
<1>9. Grown(S, H, S, H2)
  BY <1>8 DEF Grown
<1>10. ASSUME NEW q \in Replies(n, p), mine \/ Here(n, p.dst)
       PROVE  q \in Packet /\ Honest(q, S, H2)
  <2>1. /\ q \in Packet /\ q.kind = "reply" /\ p.kind = "request"
        /\ q.id = p.id /\ q.dst = p.src
    BY <1>1, RepliesType
  <2>2. p \in S
    BY <2>1 DEF Honest
  <2>3. p \in H2[n] /\ Owns(n, p.dst)
    BY <1>2, <1>3, <1>8, <1>10 DEF HandedUp
  <2> QED
    BY <2>1, <2>2, <2>3 DEF Honest, Answers
<1>11. Honest(p, S, H2)
  BY <1>9, HonestGrows
<1>12. \A q \in up1 : Honest(q, S, H2) /\ Owns(n, q.dst)
  <2>1. ASSUME NEW q \in up1 PROVE Honest(q, S, H2) /\ Owns(n, q.dst)
    <3>1. mine \/ Here(n, p.dst)
      BY <1>3 DEF HandedUp
    <3>2. CASE q = p
      BY <1>2, <1>11, <3>1, <3>2
    <3>3. CASE q # p
      <4>1. q \in Replies(n, p) /\ Here(n, q.dst)
        BY <1>3, <3>1, <3>3 DEF HandedUp
      <4>2. q \in Packet /\ Honest(q, S, H2)
        BY <1>10, <3>1, <4>1
      <4>3. q.dst \in Addr
        BY <4>2 DEF Packet
      <4> QED
        BY <4>1, <4>2, <4>3, HereIsOwn
    <3> QED
      BY <3>2, <3>3
  <2> QED
    BY <2>1
<1>13. HandedOK(S, H2)
  <2>1. \A m \in Node : \A q \in H[m] : Honest(q, S, H2) /\ Owns(m, q.dst)
    BY <1>9, HonestGrows DEF HandedOK
  <2> QED
    BY <1>8, <1>12, <2>1 DEF HandedOK
<1>14. \A q \in out : Honest(q, S, H2) /\ HasRoute(n, q.dst) /\ ~Here(n, q.dst)
  <2>1. ASSUME NEW q \in out
        PROVE  Honest(q, S, H2) /\ HasRoute(n, q.dst) /\ ~Here(n, q.dst)
    <3>1. HasRoute(n, q.dst)
      BY <1>3 DEF Dropped
    <3>2. CASE mine \/ Here(n, p.dst)
      <4>1. q \in Replies(n, p) /\ ~Here(n, q.dst)
        BY <1>3, <3>2 DEF Leaving
      <4> QED
        BY <1>10, <3>1, <3>2, <4>1
    <3>3. CASE ~(mine \/ Here(n, p.dst))
      BY <1>3, <1>11, <3>1, <3>3 DEF Leaving
    <3> QED
      BY <3>2, <3>3
  <2> QED
    BY <2>1
<1>15. QueuesOK(sig, S, H2) /\ WaitsOK(waiting, S, H2)
  BY <1>9, QueuesGrow, WaitsGrow
<1>16. QueuesOK(signals', S, H2) /\ WaitsOK(waiting', S, H2)
  BY <1>5, <1>14, <1>15, PassedOK
<1>17. lost' \subseteq Packet
  <2>1. Leaving(n, p, mine) \subseteq {p} \cup Replies(n, p)
    BY DEF Leaving
  <2>2. Dropped(n, p, mine) \subseteq Packet
    BY <1>1, <2>1, RepliesType DEF Dropped
  <2> QED
    BY <2>2 DEF Process
<1> QED
  BY <1>5, <1>13, <1>16, <1>17

-----------------------------------------------------------------------------
(* The invariant.                                                          *)

Inv ==
    /\ up \subseteq raised /\ raised \subseteq Iface
    /\ RoutesOK
    /\ ArpOK
    /\ sent \subseteq Packet /\ IsFiniteSet(sent)
    /\ lost \subseteq Packet
    /\ QueuesOK(signals, sent, handed)
    /\ WaitsOK(waiting, sent, handed)
    /\ HandedOK(sent, handed)

\* The routes that booting and raising a card enter are the machine's.
LEMMA RoutesOfOK ==
    ASSUME NEW i \in Iface
    PROVE  RoutesOf(i) \subseteq Table(NodeOf[i]) /\ IsFiniteSet(RoutesOf(i))
<1>1. PICK r : r = [net |-> AddrOf[i].net, gateway |-> AddrOf[i], iface |-> i,
                    metric |-> 0]
  OBVIOUS
<1>2. PICK d : d = [net |-> 0, gateway |-> Gateway[i], iface |-> i,
                    metric |-> Metric[i]]
  OBVIOUS
<1>3. RoutesOf(i) = {r} \cup IF Gateway[i] = NoGateway THEN {} ELSE {d}
  BY <1>1, <1>2 DEF RoutesOf
<1>4. r \in Table(NodeOf[i])
  BY <1>1, ConstantsOK DEF Table, RouteOK, Route, Addr
<1>5. Gateway[i] # NoGateway => d \in Table(NodeOf[i])
  BY <1>2, ConstantsOK DEF Table, RouteOK, Route, Addr
<1>6. IsFiniteSet({r}) /\ IsFiniteSet({d}) /\ IsFiniteSet({})
  BY FS_Singleton, FS_EmptySet
<1>7. IsFiniteSet(RoutesOf(i))
  <2>1. CASE Gateway[i] = NoGateway
    BY <1>3, <1>6, <2>1
  <2>2. CASE Gateway[i] # NoGateway
    BY <1>3, <1>6, <2>2, FS_Union
  <2> QED
    BY <2>1, <2>2
<1> QED
  BY <1>3, <1>4, <1>5, <1>7

LEMMA BootRoutesOK ==
    ASSUME NEW n \in Node
    PROVE  BootRoutes(n) \subseteq Table(n) /\ IsFiniteSet(BootRoutes(n))
<1> DEFINE up0 == {j \in InitiallyUp : NodeOf[j] = n}
           sets == {RoutesOf(i) : i \in up0}
<1>1. LoRoute \in Table(n)
  BY ConstantTypes DEF LoRoute, Table, RouteOK, Route, LoNet, Addr, LoAddr
<1>2. up0 \subseteq Iface
  BY ConstantsOK
<1>3. UNION sets \subseteq Table(n)
  BY <1>2, RoutesOfOK
<1>4. IsFiniteSet(sets)
  <2>1. IsFiniteSet(up0)
    BY <1>2, ConstantsOK, FS_Subset
  <2>2. PICK f : f = [i \in up0 |-> RoutesOf(i)]
    OBVIOUS
  <2>3. f \in Surjection(up0, sets)
    BY <2>2 DEF Surjection
  <2> QED
    BY <2>1, <2>3, FS_Surjection
<1>5. \A T \in sets : IsFiniteSet(T)
  BY <1>2, RoutesOfOK
<1>6. IsFiniteSet(UNION sets) /\ IsFiniteSet({LoRoute})
  BY <1>4, <1>5, FS_UNION, FS_Singleton
<1>7. IsFiniteSet({LoRoute} \cup UNION sets)
  BY <1>6, FS_Union
<1>8. BootRoutes(n) = {LoRoute} \cup UNION sets
  BY DEF BootRoutes
<1> QED
  BY <1>1, <1>3, <1>7, <1>8

LEMMA OrdersOK ==
    ASSUME NEW n \in Node, NEW R, R \subseteq Table(n), IsFiniteSet(R),
           NEW s \in Orders(R)
    PROVE  s \in Seq(Table(n))
BY OrdersType

LEMMA TableRoutes == \A n \in Node : Seq(Table(n)) \subseteq Seq(Route)
BY DEF Table

LEMMA InitInv == Init => Inv
<1> SUFFICES ASSUME Init PROVE Inv
  OBVIOUS
<1>1. \A n \in Node : routes[n] \in Orders(BootRoutes(n)) /\ DOMAIN routes = Node
      /\ routes = [m \in Node |-> routes[m]]
  BY DEF Init
<1>2. \A n \in Node : routes[n] \in Seq(Table(n))
  BY <1>1, BootRoutesOK, OrdersOK
<1>3. RoutesOK
  <2>1. routes = [m \in Node |-> routes[m]]
    BY DEF Init
  <2> QED
    BY <1>2, <2>1, TableRoutes DEF RoutesOK
<1>4. ArpOK
  <2>1. DOMAIN <<>> = {} /\ <<>> \in [{} -> Iface]
    OBVIOUS
  <2>2. CacheOK(<<>>)
    BY <2>1 DEF CacheOK
  <2> QED
    BY <2>2 DEF Init, ArpOK
<1>5. \A S, H : QueuesOK(signals, S, H) /\ WaitsOK(waiting, S, H)
  BY DEF Init, QueuesOK, WaitsOK
<1>6. HandedOK(sent, handed)
  BY DEF Init, HandedOK
<1>7. sent = {} /\ IsFiniteSet(sent)
  BY FS_EmptySet DEF Init
<1> QED
  BY <1>3, <1>4, <1>5, <1>6, <1>7, ConstantsOK DEF Init, Inv

-----------------------------------------------------------------------------
(* Programs and the administrator.                                         *)

LEMMA SendInv == ASSUME Inv, NEW op \in Sends, Send(op) PROVE Inv'
<1>1. PICK p : p = [id |-> Cardinality(sent) + 1, kind |-> op.kind,
                    src |-> SourceFor(op.node, op.dst), dst |-> op.dst]
  OBVIOUS
<1>2. op.node \in Node /\ op.kind \in Kinds \ {"reply"} /\ op.dst \in Addr
  BY ConstantsOK DEF SendOp
<1>3. /\ HasRoute(op.node, op.dst)
      /\ sent' = sent \cup {p}
      /\ Process(op.node, p, FALSE, signals)
      /\ UNCHANGED <<up, raised, routes, arp>>
  BY <1>1 DEF Send
<1>4. Cardinality(sent) \in Nat
  BY FS_CardinalityType DEF Inv
<1>5. SourceFor(op.node, op.dst) \in Addr
  BY <1>2, <1>3, RouteTypes DEF Inv
<1>6. p \in Packet /\ p.kind # "reply"
  BY <1>1, <1>2, <1>4, <1>5 DEF Packet
<1>7. PICK S, H : S = sent \cup {p} /\ H = handed
  OBVIOUS
<1>8. Honest(p, S, H)
  BY <1>6, <1>7 DEF Honest
<1>9. Grown(sent, H, S, H)
  BY <1>7 DEF Grown
<1>10. QueuesOK(signals, S, H) /\ WaitsOK(waiting, S, H)
  BY <1>7, <1>9, QueuesGrow, WaitsGrow DEF Inv
<1>11. HandedOK(S, H)
  BY <1>7, <1>9, HonestGrows DEF Inv, HandedOK
<1>12. /\ HandedOK(S, handed')
       /\ QueuesOK(signals', S, handed') /\ WaitsOK(waiting', S, handed')
       /\ lost' \subseteq Packet
  BY <1>2, <1>3, <1>7, <1>8, <1>10, <1>11, ProcessOK DEF Inv
<1>13. S = sent' /\ sent' \subseteq Packet /\ IsFiniteSet(sent')
  <2>1. IsFiniteSet({p}) /\ IsFiniteSet(sent)
    BY FS_Singleton DEF Inv
  <2>2. IsFiniteSet(sent \cup {p})
    BY <2>1, FS_Union
  <2> QED
    BY <1>3, <1>6, <1>7, <2>2 DEF Inv
<1>14. RoutesOK' /\ ArpOK' /\ (up \subseteq raised)' /\ (raised \subseteq Iface)'
  BY <1>3 DEF Inv, RoutesOK, ArpOK
<1> QED
  BY <1>12, <1>13, <1>14 DEF Inv

LEMMA IfUpInv == ASSUME Inv, NEW i \in Iface, IfUp(i) PROVE Inv'
<1>1. PICK n : n = NodeOf[i]
  OBVIOUS
<1>2. n \in Node
  BY <1>1, ConstantsOK
<1>3. PICK R : R = ToSet(routes[n]) \cup RoutesOf(i)
  OBVIOUS
<1>4. PICK new \in Orders(R) : routes' = [routes EXCEPT ![n] = new]
  BY <1>1, <1>3 DEF IfUp
<1>5. routes[n] \in Seq(Table(n)) /\ Len(routes[n]) \in Nat
  BY <1>2 DEF Inv, RoutesOK
<1>6. R \subseteq Table(n) /\ IsFiniteSet(R)
  <2>1. ToSet(routes[n]) \subseteq Table(n)
    BY <1>5 DEF ToSet
  <2>2. IsFiniteSet(ToSet(routes[n]))
    <3>1. IsFiniteSet(1..Len(routes[n]))
      BY <1>5, FS_Interval
    <3>2. routes[n] \in Surjection(1..Len(routes[n]), ToSet(routes[n]))
      BY <1>5 DEF ToSet, Surjection
    <3> QED
      BY <3>1, <3>2, FS_Surjection
  <2>3. IsFiniteSet(ToSet(routes[n]) \cup RoutesOf(i))
    BY <2>2, RoutesOfOK, FS_Union
  <2> QED
    BY <1>1, <1>3, <2>1, <2>3, RoutesOfOK
<1>7. new \in Seq(Table(n))
  BY <1>2, <1>4, <1>6, OrdersOK
<1>8. RoutesOK'
  BY <1>2, <1>4, <1>7, TableRoutes DEF Inv, RoutesOK
<1>9. up' \subseteq raised' /\ raised' \subseteq Iface
  BY DEF IfUp, Inv
<1> QED
  BY <1>8, <1>9 DEF Inv, IfUp, ArpOK

LEMMA IfDownInv == ASSUME Inv, NEW i \in Iface, IfDown(i) PROVE Inv'
<1>1. PICK n, new : n = NodeOf[i] /\ new = RemoveByInterface(routes[n], i)
  OBVIOUS
<1>2. n \in Node /\ routes' = [routes EXCEPT ![n] = new]
  BY <1>1, ConstantsOK DEF IfDown
<1>3. new \in Seq(Table(n))
  BY <1>1, <1>2, RemoveByInterfaceType DEF Inv, RoutesOK
<1>4. RoutesOK'
  BY <1>2, <1>3, TableRoutes DEF Inv, RoutesOK
<1> QED
  BY <1>4 DEF Inv, IfDown, ArpOK

-----------------------------------------------------------------------------
(* The signals of machine n.                                               *)

LEMMA RestOK ==
    ASSUME Inv, NEW n \in Node, signals[n] # <<>>
    PROVE  /\ QueuesOK(Rest(n), sent, handed)
           /\ SignalOK(n, Head(signals[n]), sent, handed)
BY TailOK DEF Inv, Rest

\* What a step that leaves the tables and packets alone still has to show.
LEMMA SignalStep ==
    ASSUME Inv, UNCHANGED <<up, raised, routes, sent, handed>>,
           ArpOK', lost' \subseteq Packet,
           QueuesOK(signals', sent, handed), WaitsOK(waiting', sent, handed)
    PROVE  Inv'
BY DEF Inv, RoutesOK

LEMMA RcvRequestInv == ASSUME Inv, NEW n \in Node, RcvRequest(n) PROVE Inv'
<1>1. PICK s : s = Head(signals[n])
  OBVIOUS
<1>2. QueuesOK(Rest(n), sent, handed) /\ SignalOK(n, s, sent, handed)
  BY <1>1, RestOK DEF RcvRequest
<1>3. s.t = "request" /\ s.at \in Iface /\ s.from \in Iface /\ s.addr \in Addr
  BY <1>1, <1>2 DEF RcvRequest, SignalOK, Signal
<1>4. PICK f : f = [t |-> "reply", at |-> s.from, mac |-> s.at, addr |-> s.addr]
  OBVIOUS
<1>5. Asked(s) => \A m \in Node : NodeOf[f.at] = m => SignalOK(m, f, sent, handed)
  BY <1>3, <1>4 DEF Asked, SignalOK, Signal
<1>6. f.t # "arp"
  BY <1>4
<1>7. signals' = IF Asked(s) THEN Frames(Rest(n), {f}) ELSE Rest(n)
  BY <1>1, <1>4 DEF RcvRequest
<1>8. QueuesOK(signals', sent, handed)
  <2>1. CASE Asked(s)
    <3>1. QueuesOK(Frames(Rest(n), {f}), sent, handed)
      BY <1>2, <1>5, <1>6, <2>1, FramesOK
    <3> QED
      BY <1>7, <2>1, <3>1
  <2>2. CASE ~Asked(s)
    BY <1>2, <1>7, <2>2
  <2> QED
    BY <2>1, <2>2
<1>9. ArpOK' /\ WaitsOK(waiting', sent, handed)
  BY DEF RcvRequest, Inv, ArpOK
<1> QED
  BY <1>8, <1>9, SignalStep DEF RcvRequest, Inv

LEMMA CacheGrows ==
    ASSUME NEW c, CacheOK(c), NEW i \in Iface, NEW a, AddrOf[i] = a
    PROVE  CacheOK(Cached(c, a, i))
<1>1. PICK A \in SUBSET {AddrOf[j] : j \in Iface} : c \in [A -> Iface]
  BY DEF CacheOK
<1>2. PICK d : d = Cached(c, a, i)
  OBVIOUS
<1>3. d = [x \in A \cup {a} |-> IF x = a THEN i ELSE c[x]]
  BY <1>1, <1>2 DEF Cached
<1>4. A \cup {a} \in SUBSET {AddrOf[j] : j \in Iface}
  BY <1>1
<1>5. d \in [A \cup {a} -> Iface]
  BY <1>1, <1>3
<1>6. \A x \in DOMAIN d : AddrOf[d[x]] = x
  BY <1>1, <1>3 DEF CacheOK
<1> QED
  BY <1>2, <1>4, <1>5, <1>6 DEF CacheOK

LEMMA RcvReplyInv == ASSUME Inv, NEW n \in Node, RcvReply(n) PROVE Inv'
<1>1. PICK s : s = Head(signals[n])
  OBVIOUS
<1>2. QueuesOK(Rest(n), sent, handed) /\ SignalOK(n, s, sent, handed)
  BY <1>1, RestOK DEF RcvReply
<1>3. s.t = "reply" /\ s.mac \in Iface /\ s.addr \in Addr /\ AddrOf[s.mac] = s.addr
  BY <1>1, <1>2 DEF RcvReply, SignalOK, Signal
<1>4. PICK c, f : /\ c = Cached(arp[n], s.addr, s.mac)
                  /\ f = [t |-> "arp", mac |-> s.mac, addr |-> s.addr]
  OBVIOUS
<1>5. SignalOK(n, f, sent, handed)
  BY <1>3, <1>4 DEF SignalOK, Signal
<1>6. PICK sig : sig = Rest(n)
  OBVIOUS
<1>7. /\ arp' = [arp EXCEPT ![n] = c]
      /\ signals' = [signals EXCEPT ![n] = Append(Tail(@), f)]
  BY <1>1, <1>4 DEF RcvReply
<1>8. /\ signals \in [Node -> Seq(Signal)] /\ sig = [signals EXCEPT ![n] = Tail(@)]
      /\ QueuesOK(sig, sent, handed)
  BY <1>2, <1>6 DEF Inv, QueuesOK, Rest
<1>9. PICK new : new = Append(sig[n], f)
  OBVIOUS
<1>10. new \in Seq(Signal) /\ \A j \in DOMAIN new : SignalOK(n, new[j], sent, handed)
  BY <1>5, <1>8, <1>9, AppendOK
<1>11. signals' = [sig EXCEPT ![n] = new]
  BY <1>7, <1>8, <1>9
<1>12. QueuesOK(signals', sent, handed)
  BY <1>8, <1>10, <1>11 DEF QueuesOK
<1>13. ArpOK'
  <2>1. CacheOK(c)
    BY <1>3, <1>4, CacheGrows DEF Inv, ArpOK
  <2> QED
    BY <1>7, <2>1 DEF Inv, ArpOK
<1> QED
  BY <1>12, <1>13, SignalStep DEF RcvReply, Inv

LEMMA RcvIpInv == ASSUME Inv, NEW n \in Node, RcvIp(n) PROVE Inv'
<1>1. PICK s, sig : s = Head(signals[n]) /\ sig = Rest(n)
  OBVIOUS
<1>2. QueuesOK(sig, sent, handed) /\ SignalOK(n, s, sent, handed)
  BY <1>1, RestOK DEF RcvIp
<1>3. PICK p, mine : p = s.packet /\ mine = Mine(s)
  OBVIOUS
<1>4. s.t = "ip" /\ s.at \in Iface /\ Honest(p, sent, handed) /\ NodeOf[s.at] = n
  BY <1>1, <1>2, <1>3 DEF RcvIp, SignalOK, Signal
<1>5. mine \in BOOLEAN /\ (mine => Owns(n, p.dst))
  BY <1>3, <1>4 DEF Mine, Owns
<1>6. Process(n, p, mine, sig) /\ UNCHANGED <<up, raised, routes, arp, sent>>
  BY <1>1, <1>3 DEF RcvIp
<1>7. PICK S, H : S = sent /\ H = handed
  OBVIOUS
<1>8. /\ HandedOK(S, handed')
      /\ QueuesOK(signals', S, handed') /\ WaitsOK(waiting', S, handed')
      /\ lost' \subseteq Packet
  BY <1>2, <1>4, <1>5, <1>6, <1>7, ProcessOK DEF Inv
<1> QED
  BY <1>6, <1>7, <1>8 DEF Inv, RoutesOK, ArpOK

LEMMA RcvArpInv == ASSUME Inv, NEW n \in Node, RcvArp(n) PROVE Inv'
<1>1. PICK s, sig : s = Head(signals[n]) /\ sig = Rest(n)
  OBVIOUS
<1>2. QueuesOK(sig, sent, handed) /\ SignalOK(n, s, sent, handed)
  BY <1>1, RestOK DEF RcvArp
<1>3. s.t = "arp" /\ s.mac \in Iface
  BY <1>1, <1>2 DEF RcvArp, SignalOK, Signal
<1>4. ArpOK' /\ lost' \subseteq Packet
  BY DEF RcvArp, Inv, ArpOK
<1>5. CASE waiting[n] # <<>> /\ waiting[n][1].hop = s.addr
  <2>1. PICK p : p = waiting[n][1].packet
    OBVIOUS
  <2>2. /\ waiting' = [waiting EXCEPT ![n] = Tail(@)]
        /\ signals' = Frames(sig, {IpFrame(s.mac, p)})
    BY <1>1, <1>5, <2>1 DEF RcvArp, Resumed
  <2>3. waiting[n] \in Seq(Wait) /\ waiting \in [Node -> Seq(Wait)]
    BY DEF Inv, WaitsOK
  <2>4. Honest(p, sent, handed)
    <3>1. 1 \in DOMAIN waiting[n]
      BY <1>5, <2>3
    <3> QED
      BY <2>1, <3>1 DEF Inv, WaitsOK
  <2>5. PICK f : f = IpFrame(s.mac, p)
    OBVIOUS
  <2>6. f.t # "arp" /\ \A m \in Node : NodeOf[f.at] = m => SignalOK(m, f, sent, handed)
    BY <1>3, <2>4, <2>5, IpFrameOK
  <2>7. QueuesOK(Frames(sig, {f}), sent, handed)
    BY <1>2, <2>6, FramesOK
  <2>8. WaitsOK(waiting', sent, handed)
    <3>1. \A j \in DOMAIN Tail(waiting[n]) :
              j + 1 \in DOMAIN waiting[n] /\ Tail(waiting[n])[j] = waiting[n][j + 1]
      BY <1>5, <2>3
    <3>2. Tail(waiting[n]) \in Seq(Wait)
      BY <1>5, <2>3
    <3> QED
      BY <2>2, <2>3, <3>1, <3>2 DEF Inv, WaitsOK
  <2> QED
    BY <1>4, <2>2, <2>5, <2>7, <2>8, SignalStep DEF RcvArp, Inv
<1>6. CASE ~(waiting[n] # <<>> /\ waiting[n][1].hop = s.addr)
  <2>1. signals' = sig /\ UNCHANGED waiting
    BY <1>1, <1>6 DEF RcvArp
  <2> QED
    BY <1>2, <1>4, <2>1, SignalStep DEF RcvArp, Inv
<1> QED
  BY <1>5, <1>6

LEMMA GiveUpInv == ASSUME Inv, NEW n \in Node, GiveUp(n) PROVE Inv'
<1>1. lost' \subseteq Packet
  <2>1. \A k \in DOMAIN waiting[n] : waiting[n][k].packet \in Packet
    BY DEF Inv, WaitsOK, Honest
  <2> QED
    BY <2>1 DEF GiveUp, Inv
<1>2. WaitsOK(waiting', sent, handed)
  BY DEF GiveUp, Inv, WaitsOK
<1> QED
  BY <1>1, <1>2, SignalStep DEF GiveUp, Inv, ArpOK

LEMMA LoseInv == ASSUME Inv, NEW n \in Node, Lose(n) PROVE Inv'
<1>1. QueuesOK(signals', sent, handed) /\ SignalOK(n, Head(signals[n]), sent, handed)
  BY RestOK DEF Lose
<1>2. lost' \subseteq Packet
  BY <1>1 DEF Lose, Inv, SignalOK, Honest
<1> QED
  BY <1>1, <1>2, SignalStep DEF Lose, Inv, ArpOK

LEMMA StepInv == ASSUME Inv, [Next]_vars PROVE Inv'
<1>1. CASE UNCHANGED vars
  <2>1. ArpOK' /\ RoutesOK'
    BY <1>1 DEF vars, Inv, ArpOK, RoutesOK
  <2> QED
    BY <1>1, <2>1 DEF vars, Inv
<1>2. CASE Next
  BY <1>2, SendInv, IfUpInv, IfDownInv, RcvRequestInv, RcvReplyInv, RcvIpInv,
     RcvArpInv, GiveUpInv, LoseInv DEF Next, Receive
<1> QED
  BY <1>1, <1>2

LEMMA AlwaysInv == Spec => []Inv
<1>1. Init => Inv
  BY InitInv
<1>2. Inv /\ [Next]_vars => Inv'
  BY StepInv
<1> QED
  BY <1>1, <1>2, PTL DEF Spec

-----------------------------------------------------------------------------
\* Routing tables, caches, queues and waits keep their types, for any network
\* and whatever is sent, lost, raised or lowered.
THEOREM TypeCorrect == Spec => []TypeOK
<1>1. Inv => TypeOK
  BY DEF Inv, TypeOK, RoutesOK, ArpOK, CacheOK, QueuesOK, WaitsOK, HandedOK
<1> QED
  BY <1>1, AlwaysInv, PTL

\* No ARP cache ever maps an address to a card it is not configured on,
\* however requests, answers and losses interleave.
THEOREM CachesNeverLie == Spec => []ArpTruth
<1>1. Inv => ArpTruth
  BY DEF Inv, ArpTruth, ArpOK, CacheOK
<1> QED
  BY <1>1, AlwaysInv, PTL

\* A packet is handed up only where it is addressed to, on any topology, while
\* interfaces are raised and lowered and the wrong routes are removed.
THEOREM OnlyAddresseesGetIt == Spec => []HandedToAddressee
<1>1. Inv => HandedToAddressee
  BY DEF Inv, HandedToAddressee, HandedOK
<1> QED
  BY <1>1, AlwaysInv, PTL

\* An echo reply is handed up only to the machine that sent the request, after
\* the machine that was asked has handled it.
THEOREM RepliesAreEarned == Spec => []RepliesAnswer
<1>1. ASSUME Inv, NEW n \in Node, NEW q \in handed[n], q.kind = "reply"
      PROVE  \E p \in sent : /\ p.id = q.id
                             /\ p.kind = "request"
                             /\ Owns(n, p.src)
                             /\ \E m \in Node : Owns(m, p.dst) /\ p \in handed[m]
  <2>1. Honest(q, sent, handed) /\ Owns(n, q.dst)
    BY <1>1 DEF Inv, HandedOK
  <2> QED
    BY <1>1, <2>1 DEF Honest, Answers
<1>2. Inv => RepliesAnswer
  BY <1>1 DEF RepliesAnswer
<1> QED
  BY <1>2, AlwaysInv, PTL

-----------------------------------------------------------------------------
(* No packet is duplicated.  In(f, M) is where elements of M are in the     *)
(* sequences f, and the copies of a packet are those in the queues, in the  *)
(* waits and handed up.                                                     *)

Single(S) == \A x, y \in S : x = y
In(f, M) == {x \in Node \X Nat : /\ x[2] \in DOMAIN f[x[1]]
                                 /\ f[x[1]][x[2]] \in M}
Frame(k, kind) == {s \in Signal : /\ s.t = "ip"
                                  /\ s.packet.id = k /\ s.packet.kind = kind}
Held(k, kind) == {w \in Wait : w.packet.id = k /\ w.packet.kind = kind}
Upper(h, k, kind) == {x \in Node \X Packet : /\ x[2] \in h[x[1]]
                                             /\ x[2].id = k /\ x[2].kind = kind}

None(sig, w, h, k, kind) ==
    In(sig, Frame(k, kind)) = {} /\ In(w, Held(k, kind)) = {} /\ Upper(h, k, kind) = {}
One(sig, w, h, k, kind) ==
    /\ Single(In(sig, Frame(k, kind)))
    /\ Single(In(w, Held(k, kind)))
    /\ Single(Upper(h, k, kind))
    /\ In(sig, Frame(k, kind)) = {} \/ In(w, Held(k, kind)) = {}
    /\ In(sig, Frame(k, kind)) = {} \/ Upper(h, k, kind) = {}
    /\ In(w, Held(k, kind)) = {} \/ Upper(h, k, kind) = {}

Sequences(f, E) == f \in [Node -> Seq(E)]
Becomes(g, f, n, new) == g = [f EXCEPT ![n] = new]

\* The first element of one sequence is removed.
LEMMA TailIn ==
    ASSUME NEW E, NEW f, Sequences(f, E), NEW n \in Node, f[n] # <<>>,
           NEW g, Becomes(g, f, n, Tail(f[n])), NEW M
    PROVE  /\ In(f, M) = {} => In(g, M) = {}
           /\ Single(In(f, M)) => Single(In(g, M))
           /\ Single(In(f, M)) /\ f[n][1] \in M => In(g, M) = {}
           /\ f[n][1] \in M => <<n, 1>> \in In(f, M)
<1>1. /\ \A m \in Node : m # n => g[m] = f[m]
      /\ g[n] = Tail(f[n]) /\ f[n] \in Seq(E)
  BY DEF Sequences, Becomes
<1>2. \A j \in Nat : j \in DOMAIN g[n] =>
          j + 1 \in Nat /\ j + 1 \in DOMAIN f[n] /\ g[n][j] = f[n][j + 1]
          /\ j + 1 # 1
  <2>1. PICK s, u : s = f[n] /\ u = g[n]
    OBVIOUS
  <2>2. s \in Seq(E) /\ s # <<>> /\ u = Tail(s)
    BY <1>1, <2>1
  <2>3. \A j \in Nat : j \in DOMAIN u =>
            j + 1 \in DOMAIN s /\ u[j] = s[j + 1] /\ j # 0
    BY <2>2
  <2> QED
    BY <2>1, <2>3
<1>3. 1 \in DOMAIN f[n]
  BY <1>1
<1>4. f[n][1] \in M => <<n, 1>> \in In(f, M)
  BY <1>3 DEF In
<1>5. \A m \in Node : \A j \in Nat : <<m, j>> \in In(g, M) =>
          \/ m # n /\ <<m, j>> \in In(f, M)
          \/ m = n /\ <<n, j + 1>> \in In(f, M) /\ j + 1 # 1
  BY <1>1, <1>2 DEF In
<1>6. \A x \in In(g, M) : x = <<x[1], x[2]>> /\ x[1] \in Node /\ x[2] \in Nat
  BY DEF In
<1>7. ASSUME NEW x \in In(g, M)
      PROVE  \/ x[1] # n /\ x \in In(f, M)
             \/ x[1] = n /\ <<n, x[2] + 1>> \in In(f, M) /\ x[2] + 1 # 1
  <2>1. PICK m, j : m = x[1] /\ j = x[2] /\ x = <<m, j>> /\ m \in Node /\ j \in Nat
    BY <1>6
  <2> QED
    BY <1>5, <2>1
<1>8. ASSUME Single(In(f, M)), NEW x \in In(g, M), NEW y \in In(g, M)
      PROVE  x = y
  <2>1. x = <<x[1], x[2]>> /\ y = <<y[1], y[2]>> /\ x[2] \in Nat /\ y[2] \in Nat
    BY <1>6
  <2>2. CASE x[1] # n /\ y[1] # n
    BY <1>7, <1>8, <2>2 DEF Single
  <2>3. CASE x[1] = n /\ y[1] = n
    <3>1. <<n, x[2] + 1>> = <<n, y[2] + 1>>
      BY <1>7, <1>8, <2>3 DEF Single
    <3> QED
      BY <2>1, <2>3, <3>1
  <2>4. CASE x[1] # n /\ y[1] = n
    <3>1. x = <<n, y[2] + 1>>
      BY <1>7, <1>8, <2>4 DEF Single
    <3> QED
      BY <2>4, <3>1
  <2>5. CASE x[1] = n /\ y[1] # n
    <3>1. y = <<n, x[2] + 1>>
      BY <1>7, <1>8, <2>5 DEF Single
    <3> QED
      BY <2>5, <3>1
  <2> QED
    BY <2>2, <2>3, <2>4, <2>5
<1>9. ASSUME Single(In(f, M)), f[n][1] \in M, NEW x \in In(g, M) PROVE FALSE
  <2>1. <<n, 1>> \in In(f, M)
    BY <1>4, <1>9
  <2>2. CASE x[1] # n
    <3>1. x = <<n, 1>>
      BY <1>7, <1>9, <2>1, <2>2 DEF Single
    <3> QED
      BY <2>2, <3>1
  <2>3. CASE x[1] = n
    <3>1. <<n, x[2] + 1>> = <<n, 1>> /\ x[2] + 1 # 1
      BY <1>7, <1>9, <2>1, <2>3 DEF Single
    <3> QED
      BY <3>1
  <2> QED
    BY <2>2, <2>3
<1> QED
  BY <1>4, <1>7, <1>8, <1>9 DEF Single

\* An element is added at the end of one sequence, or at its beginning.
LEMMA AddIn ==
    ASSUME NEW E, NEW f, Sequences(f, E), NEW n \in Node, NEW e \in E,
           NEW g, Becomes(g, f, n, Append(f[n], e)) \/ Becomes(g, f, n, <<e>> \o f[n]),
           NEW M
    PROVE  /\ e \notin M /\ In(f, M) = {} => In(g, M) = {}
           /\ e \notin M /\ Single(In(f, M)) => Single(In(g, M))
           /\ e \in M /\ In(f, M) = {} => Single(In(g, M))
<1>1. PICK new :
        /\ \A m \in Node : m # n => g[m] = f[m]
        /\ g[n] = new /\ f[n] \in Seq(E)
        /\ new = Append(f[n], e) \/ new = <<e>> \o f[n]
  BY DEF Sequences, Becomes
<1>2. PICK d, k : /\ d \in {0, 1} /\ k \in Nat
                  /\ \A j \in Nat : j \in DOMAIN new =>
                         \/ j = k /\ new[j] = e
                         \/ /\ j # k /\ j - d \in Nat /\ j - d \in DOMAIN f[n]
                            /\ new[j] = f[n][j - d]
  <2>1. CASE new = Append(f[n], e)
    <3>1. \A j \in Nat : j \in DOMAIN new =>
              \/ j = Len(f[n]) + 1 /\ new[j] = e
              \/ /\ j # Len(f[n]) + 1 /\ j - 0 \in Nat /\ j - 0 \in DOMAIN f[n]
                 /\ new[j] = f[n][j - 0]
      BY <1>1, <2>1
    <3>2. Len(f[n]) + 1 \in Nat
      BY <1>1
    <3> QED
      BY <3>1, <3>2
  <2>2. CASE new = <<e>> \o f[n]
    <3>1. PICK s : s = f[n]
      OBVIOUS
    <3>2. s \in Seq(E) /\ new = <<e>> \o s
      BY <1>1, <2>2, <3>1
    <3>3. DOMAIN new = 1..(Len(s) + 1) /\ DOMAIN s = 1..Len(s) /\ Len(s) \in Nat
      BY <3>2
    <3>4. new[1] = e /\ \A j \in 1..(Len(s) + 1) : j # 1 => new[j] = s[j - 1]
      BY <3>2
    <3>5. \A j \in Nat : j \in DOMAIN new =>
              \/ j = 1 /\ new[j] = e
              \/ /\ j # 1 /\ j - 1 \in Nat /\ j - 1 \in DOMAIN f[n]
                 /\ new[j] = f[n][j - 1]
      BY <3>1, <3>3, <3>4
    <3> WITNESS 1, 1
    <3> QED
      BY <3>5, 1 \in {0, 1}, 1 \in Nat
  <2> QED
    BY <1>1, <2>1, <2>2
<1>3. \A m \in Node : \A j \in Nat : <<m, j>> \in In(g, M) =>
          \/ m # n /\ <<m, j>> \in In(f, M)
          \/ m = n /\ j = k /\ e \in M
          \/ m = n /\ j # k /\ j - d \in Nat /\ <<n, j - d>> \in In(f, M)
  BY <1>1, <1>2 DEF In
<1>4. \A x \in In(g, M) : x = <<x[1], x[2]>> /\ x[1] \in Node /\ x[2] \in Nat
  BY DEF In
<1>5. ASSUME NEW x \in In(g, M)
      PROVE  \/ x[1] # n /\ x \in In(f, M)
             \/ x = <<n, k>> /\ e \in M
             \/ x[1] = n /\ x[2] - d \in Nat /\ <<n, x[2] - d>> \in In(f, M)
  <2>1. PICK m, j : m = x[1] /\ j = x[2] /\ x = <<m, j>> /\ m \in Node /\ j \in Nat
    BY <1>4
  <2> QED
    BY <1>3, <2>1
<1>6. ASSUME e \notin M, Single(In(f, M)), NEW x \in In(g, M), NEW y \in In(g, M)
      PROVE  x = y
  <2>1. x = <<x[1], x[2]>> /\ y = <<y[1], y[2]>> /\ x[2] \in Nat /\ y[2] \in Nat
    BY <1>4
  <2>2. CASE x[1] # n /\ y[1] # n
    <3>1. x \in In(f, M) /\ y \in In(f, M)
      BY <1>5, <1>6, <2>2
    <3> QED
      BY <1>6, <3>1 DEF Single
  <2>3. CASE x[1] = n /\ y[1] = n
    <3>1. <<n, x[2] - d>> \in In(f, M) /\ <<n, y[2] - d>> \in In(f, M)
      BY <1>5, <1>6, <2>3
    <3>2. <<n, x[2] - d>> = <<n, y[2] - d>>
      BY <1>6, <3>1 DEF Single
    <3>3. x[2] - d = y[2] - d
      BY <3>2
    <3>4. x[2] = y[2]
      BY <1>2, <2>1, <3>3
    <3> QED
      BY <2>1, <2>3, <3>4
  <2>4. CASE x[1] # n /\ y[1] = n
    <3>1. x \in In(f, M) /\ <<n, y[2] - d>> \in In(f, M)
      BY <1>5, <1>6, <2>4
    <3>2. x = <<n, y[2] - d>>
      BY <1>6, <3>1 DEF Single
    <3> QED
      BY <2>4, <3>2
  <2>5. CASE x[1] = n /\ y[1] # n
    <3>1. y \in In(f, M) /\ <<n, x[2] - d>> \in In(f, M)
      BY <1>5, <1>6, <2>5
    <3>2. y = <<n, x[2] - d>>
      BY <1>6, <3>1 DEF Single
    <3> QED
      BY <2>5, <3>2
  <2> QED
    BY <2>2, <2>3, <2>4, <2>5
<1>7. ASSUME e \notin M, In(f, M) = {} PROVE In(g, M) = {}
  BY <1>5, <1>7
<1>8. ASSUME In(f, M) = {}, NEW x \in In(g, M), NEW y \in In(g, M)
      PROVE  x = y
  BY <1>5, <1>8
<1> QED
  BY <1>6, <1>7, <1>8 DEF Single

\* Frames for one card, a frame of packet p or another.
LEMMA FrameIn ==
    ASSUME NEW sig, Sequences(sig, Signal), NEW f \in Signal, f.at \in Iface,
           NEW M
    PROVE  LET g == Frames(sig, {f}) IN
           /\ f \notin M /\ In(sig, M) = {} => In(g, M) = {}
           /\ f \notin M /\ Single(In(sig, M)) => Single(In(g, M))
           /\ f \in M /\ In(sig, M) = {} => Single(In(g, M))
<1>1. PICK n, g : n = NodeOf[f.at] /\ g = Frames(sig, {f})
  OBVIOUS
<1>2. n \in Node
  BY <1>1, ConstantsOK
<1>3. g = [sig EXCEPT ![n] = Append(sig[n], f)]
  <2>1. \A m \in Node : {h \in {f} : NodeOf[h.at] = m} = IF m = n THEN {f} ELSE {}
    BY <1>1
  <2>2. (CHOOSE h \in {f} : TRUE) = f
    OBVIOUS
  <2>3. \A m \in Node : g[m] = IF m = n THEN Append(sig[n], f) ELSE sig[m]
    BY <1>1, <2>1, <2>2 DEF Frames
  <2>4. g = [m \in Node |-> g[m]]
    BY <1>1 DEF Frames
  <2> QED
    BY <2>3, <2>4 DEF Sequences
<1>4. Becomes(g, sig, n, Append(sig[n], f))
  BY <1>3 DEF Becomes
<1>5. /\ f \notin M /\ In(sig, M) = {} => In(g, M) = {}
      /\ f \notin M /\ Single(In(sig, M)) => Single(In(g, M))
      /\ f \in M /\ In(sig, M) = {} => Single(In(g, M))
  BY <1>2, <1>4, AddIn
<1> QED
  BY <1>1, <1>5

\* Signals are added that are no frames of M.
LEMMA OthersIn ==
    ASSUME NEW E, NEW f, Sequences(f, E), NEW g, NEW M,
           \A n \in Node : \/ g[n] = f[n]
                           \/ \E e \in E : e \notin M /\ g[n] = Append(f[n], e)
    PROVE  In(g, M) = In(f, M)
<1>1. ASSUME NEW n \in Node, NEW j \in Nat
      PROVE  j \in DOMAIN g[n] /\ g[n][j] \in M <=> j \in DOMAIN f[n] /\ f[n][j] \in M
  <2>1. CASE g[n] = f[n]
    BY <2>1
  <2>2. CASE \E e \in E : e \notin M /\ g[n] = Append(f[n], e)
    <3>1. PICK e \in E : e \notin M /\ g[n] = Append(f[n], e)
      BY <2>2
    <3>2. PICK s, u : s = f[n] /\ u = g[n]
      OBVIOUS
    <3>3. s \in Seq(E) /\ u = Append(s, e)
      BY <3>1, <3>2 DEF Sequences
    <3>4. /\ DOMAIN u = 1..(Len(s) + 1) /\ DOMAIN s = 1..Len(s) /\ Len(s) \in Nat
          /\ u[Len(s) + 1] = e /\ \A i \in 1..Len(s) : u[i] = s[i]
      BY <3>3
    <3>5. j \in DOMAIN u => j \in DOMAIN s \/ j = Len(s) + 1
      BY <3>4
    <3>6. j \in DOMAIN s => j \in DOMAIN u
      BY <3>4
    <3> QED
      BY <3>1, <3>2, <3>4, <3>5, <3>6
  <2> QED
    BY <2>1, <2>2
<1> QED
  BY <1>1, Zenon DEF In

LEMMA FramesIn ==
    ASSUME NEW sig, Sequences(sig, Signal), NEW fs, fs \subseteq Signal, NEW M,
           fs \cap M = {}
    PROVE  In(Frames(sig, fs), M) = In(sig, M)
<1>1. PICK g : g = Frames(sig, fs)
  OBVIOUS
<1>2. ASSUME NEW n \in Node
      PROVE  \/ g[n] = sig[n]
             \/ \E e \in Signal : e \notin M /\ g[n] = Append(sig[n], e)
  <2> DEFINE own == {f \in fs : NodeOf[f.at] = n}
  <2>1. CASE own = {}
    BY <1>1, <2>1 DEF Frames
  <2>2. CASE own # {}
    <3>1. PICK f \in own : g[n] = Append(sig[n], f)
      BY <1>1, <2>2 DEF Frames
    <3> QED
      BY <3>1
  <2> QED
    BY <2>1, <2>2
<1> QED
  BY <1>1, <1>2, OthersIn

\* The first signal of n is taken: a frame that is taken was the only copy.
LEMMA TakeSignal ==
    ASSUME NEW sig, Sequences(sig, Signal), NEW n \in Node, sig[n] # <<>>,
           NEW s2, Becomes(s2, sig, n, Tail(sig[n])), NEW w, NEW h,
           NEW k, NEW kind
    PROVE  /\ None(sig, w, h, k, kind) => None(s2, w, h, k, kind)
           /\ One(sig, w, h, k, kind) => One(s2, w, h, k, kind)
           /\ One(sig, w, h, k, kind) /\ sig[n][1] \in Frame(k, kind)
                  => None(s2, w, h, k, kind) /\ Upper(h, k, kind) = {}
<1> DEFINE M == Frame(k, kind)
<1>1. /\ In(sig, M) = {} => In(s2, M) = {}
      /\ Single(In(sig, M)) => Single(In(s2, M))
      /\ Single(In(sig, M)) /\ sig[n][1] \in M => In(s2, M) = {}
      /\ sig[n][1] \in M => <<n, 1>> \in In(sig, M)
  <2> HIDE DEF M
  <2> QED
    BY TailIn
<1> QED
  BY <1>1 DEF None, One

\* The newest wait of n ends.
LEMMA TakeWait ==
    ASSUME NEW sig, NEW w, Sequences(w, Wait), NEW n \in Node, w[n] # <<>>,
           NEW w2, Becomes(w2, w, n, Tail(w[n])), NEW h, NEW k, NEW kind
    PROVE  /\ None(sig, w, h, k, kind) => None(sig, w2, h, k, kind)
           /\ One(sig, w, h, k, kind) => One(sig, w2, h, k, kind)
           /\ One(sig, w, h, k, kind) /\ w[n][1] \in Held(k, kind)
                  => None(sig, w2, h, k, kind)
<1> DEFINE M == Held(k, kind)
<1>1. /\ In(w, M) = {} => In(w2, M) = {}
      /\ Single(In(w, M)) => Single(In(w2, M))
      /\ Single(In(w, M)) /\ w[n][1] \in M => In(w2, M) = {}
      /\ w[n][1] \in M => <<n, 1>> \in In(w, M)
  <2> HIDE DEF M
  <2> QED
    BY TailIn
<1> QED
  BY <1>1 DEF None, One

\* A frame of packet q is put in a queue.
LEMMA PutFrame ==
    ASSUME NEW sig, Sequences(sig, Signal), NEW q \in Packet, NEW c \in Iface,
           NEW w, NEW h, NEW k, NEW kind
    PROVE  LET s2 == Frames(sig, {IpFrame(c, q)})
               same == q.id = k /\ q.kind = kind
           IN  /\ ~same /\ None(sig, w, h, k, kind) => None(s2, w, h, k, kind)
               /\ ~same /\ One(sig, w, h, k, kind) => One(s2, w, h, k, kind)
               /\ same /\ None(sig, w, h, k, kind) => One(s2, w, h, k, kind)
<1>1. PICK f : f = IpFrame(c, q)
  OBVIOUS
<1>2. f \in Signal /\ f.at \in Iface
  BY <1>1 DEF IpFrame, Signal
<1>3. PICK same : same = (q.id = k /\ q.kind = kind)
  OBVIOUS
<1>4. f \in Frame(k, kind) <=> same
  BY <1>1, <1>2, <1>3 DEF IpFrame, Frame
<1>5. PICK s2 : s2 = Frames(sig, {f})
  OBVIOUS
<1> DEFINE M == Frame(k, kind)
<1>6. /\ f \notin M /\ In(sig, M) = {} => In(s2, M) = {}
      /\ f \notin M /\ Single(In(sig, M)) => Single(In(s2, M))
      /\ f \in M /\ In(sig, M) = {} => Single(In(s2, M))
  <2> HIDE DEF M
  <2> QED
    BY <1>2, <1>5, FrameIn
<1>7. Single({})
  BY DEF Single
<1>8. /\ ~same /\ None(sig, w, h, k, kind) => None(s2, w, h, k, kind)
      /\ ~same /\ One(sig, w, h, k, kind) => One(s2, w, h, k, kind)
      /\ same /\ None(sig, w, h, k, kind) => One(s2, w, h, k, kind)
  BY <1>4, <1>6, <1>7 DEF None, One
<1> QED
  BY <1>1, <1>3, <1>5, <1>8

\* A wait for packet q is begun.
LEMMA PutWait ==
    ASSUME NEW sig, NEW w, Sequences(w, Wait), NEW n \in Node, NEW x \in Wait,
           NEW w2, Becomes(w2, w, n, <<x>> \o w[n]), NEW h, NEW k, NEW kind
    PROVE  LET same == x.packet.id = k /\ x.packet.kind = kind
           IN  /\ ~same /\ None(sig, w, h, k, kind) => None(sig, w2, h, k, kind)
               /\ ~same /\ One(sig, w, h, k, kind) => One(sig, w2, h, k, kind)
               /\ same /\ None(sig, w, h, k, kind) => One(sig, w2, h, k, kind)
<1>1. PICK same : same = (x.packet.id = k /\ x.packet.kind = kind)
  OBVIOUS
<1>2. x \in Held(k, kind) <=> same
  BY <1>1 DEF Held
<1> DEFINE M == Held(k, kind)
<1>3. /\ x \notin M /\ In(w, M) = {} => In(w2, M) = {}
      /\ x \notin M /\ Single(In(w, M)) => Single(In(w2, M))
      /\ x \in M /\ In(w, M) = {} => Single(In(w2, M))
  <2> HIDE DEF M
  <2> QED
    BY AddIn
<1>4. Single({})
  BY DEF Single
<1>5. /\ ~same /\ None(sig, w, h, k, kind) => None(sig, w2, h, k, kind)
      /\ ~same /\ One(sig, w, h, k, kind) => One(sig, w2, h, k, kind)
      /\ same /\ None(sig, w, h, k, kind) => One(sig, w2, h, k, kind)
  BY <1>2, <1>3, <1>4 DEF None, One
<1> QED
  BY <1>1, <1>5

PacketSets(h) == h \in [Node -> SUBSET Packet]
Distinct(us) == \A x, y \in us : x.id = y.id /\ x.kind = y.kind => x = y

\* The packets of us are handed up on n.
LEMMA PutUp ==
    ASSUME NEW sig, NEW w, NEW h, PacketSets(h), NEW n \in Node,
           NEW us, us \subseteq Packet, Distinct(us),
           NEW h2, Becomes(h2, h, n, h[n] \cup us),
           NEW k, NEW kind
    PROVE  LET same == \E x \in us : x.id = k /\ x.kind = kind
           IN  /\ ~same /\ None(sig, w, h, k, kind) => None(sig, w, h2, k, kind)
               /\ ~same /\ One(sig, w, h, k, kind) => One(sig, w, h2, k, kind)
               /\ same /\ None(sig, w, h, k, kind) => One(sig, w, h2, k, kind)
<1>1. \A m \in Node : h2[m] = h[m] \/ (m = n /\ h2[m] = h[m] \cup us)
  BY DEF PacketSets, Becomes
<1>2. ASSUME NEW x \in Upper(h2, k, kind)
      PROVE  /\ x \in Node \X Packet /\ x[2].id = k /\ x[2].kind = kind
             /\ x \in Upper(h, k, kind) \/ (x[1] = n /\ x[2] \in us)
  BY <1>1 DEF Upper
<1>3. ASSUME ~(\E x \in us : x.id = k /\ x.kind = kind)
      PROVE  Upper(h2, k, kind) \subseteq Upper(h, k, kind)
  BY <1>2, <1>3
<1>4. ASSUME Upper(h, k, kind) = {}
      PROVE  Single(Upper(h2, k, kind))
  <2>1. ASSUME NEW x \in Upper(h2, k, kind), NEW y \in Upper(h2, k, kind)
        PROVE  x = y
    <3>1. x[1] = y[1] /\ x[2] = y[2]
      BY <1>2, <1>4 DEF Distinct
    <3>2. x \in Node \X Packet /\ y \in Node \X Packet
      BY <1>2
    <3> QED
      BY <3>1, <3>2
  <2> QED
    BY <2>1 DEF Single
<1>5. Single({})
  BY DEF Single
<1> QED
  BY <1>3, <1>4, <1>5 DEF None, One, Single

LEMMA NoneIsOne ==
    ASSUME NEW sig, NEW w, NEW h, NEW k, NEW kind, None(sig, w, h, k, kind)
    PROVE  One(sig, w, h, k, kind)
BY DEF None, One, Single

\* IPv4Layer:send puts the packet in one place.
LEMMA PassedOnce ==
    ASSUME RoutesOK, ArpOK, raised \subseteq Iface,
           NEW sig, Sequences(sig, Signal), Sequences(waiting, Wait),
           NEW n \in Node, NEW out, \A x, y \in out : x = y,
           \A q \in out : q \in Packet /\ HasRoute(n, q.dst) /\ ~Here(n, q.dst),
           Passed(n, out, sig), NEW h, NEW k, NEW kind
    PROVE  LET same == \E x \in out : x.id = k /\ x.kind = kind
           IN  /\ ~same /\ None(sig, waiting, h, k, kind)
                      => None(signals', waiting', h, k, kind)
               /\ ~same /\ One(sig, waiting, h, k, kind)
                      => One(signals', waiting', h, k, kind)
               /\ same /\ None(sig, waiting, h, k, kind)
                      => One(signals', waiting', h, k, kind)
<1>1. CASE out = {}
  BY <1>1 DEF Passed
<1>2. CASE out # {}
  <2>1. PICK p \in out :
          LET i == RouteTo(n, p.dst).iface
              hop == NextHop(n, p.dst)
          IN IF hop \in DOMAIN arp[n]
             THEN /\ signals' = Frames(sig, {IpFrame(arp[n][hop], p)})
                  /\ UNCHANGED waiting
             ELSE /\ signals' = Frames(sig, {[t |-> "request", at |-> c, from |-> i,
                                             addr |-> hop] : c \in Hears(i)})
                  /\ waiting' = [waiting EXCEPT ![n] =
                                    <<[iface |-> i, hop |-> hop, packet |-> p]>> \o @]
    BY <1>2, Zenon DEF Passed
  <2>2. PICK i, hop : i = RouteTo(n, p.dst).iface /\ hop = NextHop(n, p.dst)
    OBVIOUS
  <2>3. p \in Packet /\ i \in Iface /\ hop \in Addr
    <3>1. p \in Packet /\ p.dst \in Addr
      BY DEF Packet
    <3> QED
      BY <2>2, <3>1, RouteTypes
  <2>4. PICK same : same = (p.id = k /\ p.kind = kind)
    OBVIOUS
  <2>5. (\E x \in out : x.id = k /\ x.kind = kind) <=> same
    BY <2>4
  <2>6. CASE hop \in DOMAIN arp[n]
    <3>1. arp[n][hop] \in Iface
      BY <2>6 DEF ArpOK, CacheOK
    <3>2. PICK c \in Iface : c = arp[n][hop]
      BY <3>1
    <3>3. PICK s2 : s2 = Frames(sig, {IpFrame(c, p)})
      OBVIOUS
    <3>4. signals' = s2 /\ waiting' = waiting
      BY <2>1, <2>2, <2>6, <3>2, <3>3
    <3>5. /\ ~same /\ None(sig, waiting, h, k, kind) => None(s2, waiting, h, k, kind)
          /\ ~same /\ One(sig, waiting, h, k, kind) => One(s2, waiting, h, k, kind)
          /\ same /\ None(sig, waiting, h, k, kind) => One(s2, waiting, h, k, kind)
      BY <2>3, <2>4, <3>3, PutFrame
    <3> QED
      BY <2>5, <3>4, <3>5
  <2>7. CASE hop \notin DOMAIN arp[n]
    <3>1. PICK fs : fs = {[t |-> "request", at |-> c, from |-> i, addr |-> hop]
                              : c \in Hears(i)}
      OBVIOUS
    <3>2. PICK x : x = [iface |-> i, hop |-> hop, packet |-> p]
      OBVIOUS
    <3>3. PICK s2, w2 : s2 = Frames(sig, fs)
                        /\ w2 = [waiting EXCEPT ![n] = <<x>> \o @]
      OBVIOUS
    <3>4. signals' = s2 /\ waiting' = w2
      BY <2>1, <2>2, <2>7, <3>1, <3>2, <3>3
    <3>5. fs \subseteq Signal /\ fs \cap Frame(k, kind) = {}
      BY <2>3, <3>1 DEF Hears, Signal, Frame
    <3>6. In(s2, Frame(k, kind)) = In(sig, Frame(k, kind))
      BY <3>3, <3>5, FramesIn
    <3>7. x \in Wait /\ x.packet = p
      BY <2>3, <3>2 DEF Wait
    <3>8. Becomes(w2, waiting, n, <<x>> \o waiting[n])
      BY <3>3 DEF Becomes
    <3>9. /\ ~same /\ None(s2, waiting, h, k, kind) => None(s2, w2, h, k, kind)
          /\ ~same /\ One(s2, waiting, h, k, kind) => One(s2, w2, h, k, kind)
          /\ same /\ None(s2, waiting, h, k, kind) => One(s2, w2, h, k, kind)
      BY <2>4, <3>7, <3>8, PutWait
    <3>10. /\ None(sig, waiting, h, k, kind) => None(s2, waiting, h, k, kind)
           /\ One(sig, waiting, h, k, kind) => One(s2, waiting, h, k, kind)
      BY <3>6 DEF None, One
    <3> QED
      BY <2>5, <3>4, <3>9, <3>10
  <2> QED
    BY <2>6, <2>7
<1> QED
  BY <1>1, <1>2

\* What a machine does with p puts p, and a reply to it, in one place each.
LEMMA ProcessOnce ==
    ASSUME RoutesOK, ArpOK, raised \subseteq Iface,
           NEW H, PacketSets(H), H = handed,
           NEW sig, Sequences(sig, Signal), Sequences(waiting, Wait),
           NEW n \in Node, NEW p \in Packet, NEW mine \in BOOLEAN,
           Process(n, p, mine, sig), NEW k, NEW kind
    PROVE  LET new == p.id = k /\ \/ p.kind = kind
                                  \/ p.kind = "request" /\ kind = "reply"
           IN  /\ ~new /\ None(sig, waiting, H, k, kind)
                      => None(signals', waiting', handed', k, kind)
               /\ ~new /\ One(sig, waiting, H, k, kind)
                      => One(signals', waiting', handed', k, kind)
               /\ None(sig, waiting, H, k, kind)
                      => /\ One(signals', waiting', handed', k, kind)
                         /\ \/ None(signals', waiting', handed', k, kind)
                            \/ p.kind = kind
                            \/ /\ p.id = k /\ p.kind = "request"
                               /\ Upper(handed', k, "request") # {}
<1>1. PICK us, out, new :
        /\ us = HandedUp(n, p, mine)
        /\ out = Leaving(n, p, mine) \ Dropped(n, p, mine)
        /\ new = (p.id = k /\ \/ p.kind = kind
                              \/ p.kind = "request" /\ kind = "reply")
  OBVIOUS
<1>2. PICK H2 : H2 = [H EXCEPT ![n] = @ \cup us]
  OBVIOUS
<1>3. handed' = H2 /\ Passed(n, out, sig)
  BY <1>1, <1>2 DEF Process
<1>4. \A x, y \in Replies(n, p) : x = y
  BY DEF Replies
<1>5. \A x \in Replies(n, p) : /\ x \in Packet /\ x.kind = "reply" /\ p.kind = "request"
                               /\ x.id = p.id
  BY RepliesType
<1>6. \A x, y \in {p} \cup Replies(n, p) : x.kind = y.kind => x = y
  BY <1>4, <1>5
<1>7. /\ us \subseteq {p} \cup Replies(n, p) /\ out \subseteq {p} \cup Replies(n, p)
      /\ \A x, y \in out : x = y
      /\ us \cap out = {}
      /\ \A x \in us \cup out : x = p \/ (x \in Replies(n, p) /\ p \in us)
  BY <1>1, <1>4, <1>5 DEF HandedUp, Leaving
<1>8. us \in SUBSET Packet /\ out \subseteq Packet
  BY <1>5, <1>7
<1>9. \A q \in out : q \in Packet /\ HasRoute(n, q.dst) /\ ~Here(n, q.dst)
  BY <1>1, <1>8 DEF Leaving, Dropped
<1>10. PICK sameUp, sameOut :
         /\ sameUp = (\E x \in us : x.id = k /\ x.kind = kind)
         /\ sameOut = (\E x \in out : x.id = k /\ x.kind = kind)
  OBVIOUS
<1>11. ~(sameUp /\ sameOut)
  BY <1>6, <1>7, <1>10
<1>12. sameUp \/ sameOut => new
  <2>1. ASSUME NEW x \in us \cup out, x.id = k, x.kind = kind
        PROVE  p.id = k /\ (p.kind = kind \/ (p.kind = "request" /\ kind = "reply"))
    <3>1. x = p \/ x \in Replies(n, p)
      BY <1>7
    <3> QED
      BY <1>5, <2>1, <3>1
  <2>2. new = (p.id = k /\ (p.kind = kind \/ (p.kind = "request" /\ kind = "reply")))
    BY <1>1
  <2> QED
    BY <1>10, <2>1, <2>2
<1>13. /\ ~sameUp /\ None(sig, waiting, H, k, kind) => None(sig, waiting, H2, k, kind)
       /\ ~sameUp /\ One(sig, waiting, H, k, kind) => One(sig, waiting, H2, k, kind)
       /\ sameUp /\ None(sig, waiting, H, k, kind) => One(sig, waiting, H2, k, kind)
  <2>1. Distinct(us)
    BY <1>6, <1>7 DEF Distinct
  <2>2. Becomes(H2, H, n, H[n] \cup us)
    BY <1>2 DEF Becomes
  <2>3. PICK w : w = waiting
    OBVIOUS
  <2>4. LET same == \E x \in us : x.id = k /\ x.kind = kind
        IN  /\ ~same /\ None(sig, w, H, k, kind) => None(sig, w, H2, k, kind)
            /\ ~same /\ One(sig, w, H, k, kind) => One(sig, w, H2, k, kind)
            /\ same /\ None(sig, w, H, k, kind) => One(sig, w, H2, k, kind)
    BY <1>8, <2>1, <2>2, PutUp, SMTT(30)
  <2> QED
    BY <1>10, <2>3, <2>4
<1>14. /\ ~sameOut /\ None(sig, waiting, H2, k, kind)
              => None(signals', waiting', H2, k, kind)
       /\ ~sameOut /\ One(sig, waiting, H2, k, kind)
              => One(signals', waiting', H2, k, kind)
       /\ sameOut /\ None(sig, waiting, H2, k, kind)
              => One(signals', waiting', H2, k, kind)
  BY <1>3, <1>7, <1>9, <1>10, PassedOnce
<1>15. /\ ~new /\ None(sig, waiting, H, k, kind)
              => None(signals', waiting', H2, k, kind)
       /\ ~new /\ One(sig, waiting, H, k, kind)
              => One(signals', waiting', H2, k, kind)
  BY <1>12, <1>13, <1>14
<1>16. None(sig, waiting, H, k, kind) =>
           /\ One(signals', waiting', H2, k, kind)
           /\ sameUp \/ sameOut \/ None(signals', waiting', H2, k, kind)
  <2>1. \A s, w, h : None(s, w, h, k, kind) => One(s, w, h, k, kind)
    BY NoneIsOne
  <2> QED
    BY <1>11, <1>13, <1>14, <2>1
<1>17. ASSUME sameUp \/ sameOut, p.kind # kind
       PROVE  p.id = k /\ p.kind = "request" /\ Upper(H2, k, "request") # {}
  <2>1. PICK x \in us \cup out : x.id = k /\ x.kind = kind
    BY <1>10, <1>17
  <2>2. x \in Replies(n, p) /\ p \in us
    BY <1>7, <1>17, <2>1
  <2>3. p.id = k /\ p.kind = "request"
    BY <1>5, <2>1, <2>2
  <2>4. p \in H2[n]
    BY <1>2, <2>2 DEF PacketSets
  <2>5. <<n, p>> \in Upper(H2, k, "request")
    BY <2>3, <2>4 DEF Upper
  <2> QED
    BY <2>3, <2>5
<1> QED
  BY <1>1, <1>3, <1>15, <1>16, <1>17

\* Packets are numbered up to c, no packet is in two places, and there is a
\* reply only to a request that was handed up.
Counted(sig, w, h, c) ==
    /\ \A k \in Nat : \A kind \in Kinds : One(sig, w, h, k, kind)
    /\ \A k \in Nat : \A kind \in Kinds : k > c => None(sig, w, h, k, kind)
    /\ \A k \in Nat : None(sig, w, h, k, "reply") \/ Upper(h, k, "request") # {}

LEMMA ProcessCounted ==
    ASSUME RoutesOK, ArpOK, raised \subseteq Iface,
           NEW H, PacketSets(H), H = handed,
           NEW sig, Sequences(sig, Signal), Sequences(waiting, Wait),
           NEW n \in Node, NEW p \in Packet, NEW mine \in BOOLEAN,
           Process(n, p, mine, sig),
           NEW c \in Nat, NEW c2 \in Nat, c <= c2, p.id <= c2,
           Counted(sig, waiting, H, c),
           None(sig, waiting, H, p.id, p.kind),
           p.kind = "reply" => Upper(H, p.id, "request") # {},
           p.kind = "request" => None(sig, waiting, H, p.id, "reply")
    PROVE  Counted(signals', waiting', handed', c2)
<1>1. p.id \in Nat /\ p.kind \in Kinds
  BY DEF Packet
<1>2. PICK s2, w2, H2 : s2 = signals' /\ w2 = waiting' /\ H2 = handed'
  OBVIOUS
<1>3. ASSUME NEW k, NEW kind
      PROVE  LET new == p.id = k /\ \/ p.kind = kind
                                    \/ p.kind = "request" /\ kind = "reply"
             IN  /\ ~new /\ None(sig, waiting, H, k, kind) => None(s2, w2, H2, k, kind)
                 /\ ~new /\ One(sig, waiting, H, k, kind) => One(s2, w2, H2, k, kind)
                 /\ None(sig, waiting, H, k, kind)
                        => /\ One(s2, w2, H2, k, kind)
                           /\ \/ None(s2, w2, H2, k, kind)
                              \/ p.kind = kind
                              \/ /\ p.id = k /\ p.kind = "request"
                                 /\ Upper(H2, k, "request") # {}
  BY <1>2, ProcessOnce
<1>4. \A k : Upper(H, k, "request") \subseteq Upper(H2, k, "request")
  <2>1. \A m \in Node : H[m] \subseteq H2[m]
    BY <1>2 DEF Process
  <2> QED
    BY <2>1 DEF Upper
<1>5. ASSUME NEW k \in Nat, NEW kind \in Kinds PROVE One(s2, w2, H2, k, kind)
  <2>1. CASE p.id = k /\ (p.kind = kind \/ (p.kind = "request" /\ kind = "reply"))
    <3>1. None(sig, waiting, H, k, kind)
      BY <2>1
    <3> QED
      BY <1>3, <3>1
  <2>2. CASE ~(p.id = k /\ (p.kind = kind \/ (p.kind = "request" /\ kind = "reply")))
    <3>1. One(sig, waiting, H, k, kind)
      BY DEF Counted
    <3> QED
      BY <1>3, <2>2, <3>1
  <2> QED
    BY <2>1, <2>2
<1>6. ASSUME NEW k \in Nat, NEW kind \in Kinds, k > c2 PROVE None(s2, w2, H2, k, kind)
  <2>1. k > c /\ p.id # k
    BY <1>1, <1>6
  <2>2. None(sig, waiting, H, k, kind)
    BY <2>1 DEF Counted
  <2> QED
    BY <1>3, <2>1, <2>2
<1>7. ASSUME NEW k \in Nat, ~None(s2, w2, H2, k, "reply")
      PROVE  Upper(H2, k, "request") # {}
  <2>1. CASE Upper(H, k, "request") # {}
    BY <1>4, <2>1
  <2>2. CASE Upper(H, k, "request") = {}
    <3>1. None(sig, waiting, H, k, "reply")
      BY <2>2 DEF Counted
    <3>2. p.kind = "reply" => p.id = k
      BY <1>3, <1>7, <3>1
    <3>3. p.kind # "reply"
      BY <2>2, <3>2
    <3> QED
      BY <1>3, <1>7, <3>1, <3>3
  <2> QED
    BY <2>1, <2>2
<1>8. Counted(s2, w2, H2, c2)
  BY <1>5, <1>6, <1>7 DEF Counted
<1> QED
  BY <1>2, <1>8

OnceInv ==
    /\ Inv
    /\ \A x \in sent : x.id <= Cardinality(sent)
    /\ Counted(signals, waiting, handed, Cardinality(sent))

Keeps(sig, w, h, s2, w2) ==
    \A k, kind : /\ None(sig, w, h, k, kind) => None(s2, w2, h, k, kind)
                 /\ One(sig, w, h, k, kind) => One(s2, w2, h, k, kind)

LEMMA CountedKeeps ==
    ASSUME NEW sig, NEW w, NEW h, NEW c, Counted(sig, w, h, c),
           NEW s2, NEW w2, Keeps(sig, w, h, s2, w2)
    PROVE  Counted(s2, w2, h, c)
BY DEF Counted, Keeps

LEMMA TypesOnce ==
    ASSUME OnceInv
    PROVE  /\ Sequences(signals, Signal) /\ Sequences(waiting, Wait)
           /\ PacketSets(handed) /\ Cardinality(sent) \in Nat
           /\ RoutesOK /\ ArpOK /\ raised \subseteq Iface
<1>1. Cardinality(sent) \in Nat
  BY FS_CardinalityType DEF OnceInv, Inv
<1> QED
  BY <1>1 DEF OnceInv, Inv, QueuesOK, WaitsOK, HandedOK, Sequences, PacketSets

\* A step that moves no packet up, and of which nothing else is to be shown.
LEMMA QuietOnce ==
    ASSUME OnceInv, Inv', UNCHANGED <<sent, handed>>,
           Keeps(signals, waiting, handed, signals', waiting')
    PROVE  OnceInv'
<1>1. PICK c, H : c = Cardinality(sent) /\ H = handed
  OBVIOUS
<1>2. Counted(signals', waiting', H, c)
  BY <1>1, CountedKeeps DEF OnceInv
<1> QED
  BY <1>1, <1>2 DEF OnceInv

LEMMA InitOnce == Init => OnceInv
<1> SUFFICES ASSUME Init PROVE OnceInv
  OBVIOUS
<1>1. \A k, kind : None(signals, waiting, handed, k, kind)
  BY DEF Init, None, In, Upper
<1>2. \A k, kind : One(signals, waiting, handed, k, kind)
  BY <1>1, NoneIsOne
<1> QED
  BY <1>1, <1>2, InitInv DEF Init, OnceInv, Counted

LEMMA SendOnce == ASSUME OnceInv, NEW op \in Sends, Send(op) PROVE OnceInv'
<1>1. PICK c, p : /\ c = Cardinality(sent)
                  /\ p = [id |-> c + 1, kind |-> op.kind,
                          src |-> SourceFor(op.node, op.dst), dst |-> op.dst]
  OBVIOUS
<1>2. op.node \in Node /\ op.kind \in Kinds \ {"reply"} /\ op.dst \in Addr
  BY ConstantsOK DEF SendOp
<1>3. /\ HasRoute(op.node, op.dst)
      /\ sent' = sent \cup {p}
      /\ Process(op.node, p, FALSE, signals)
  BY <1>1 DEF Send
<1>4. SourceFor(op.node, op.dst) \in Addr
  BY <1>2, <1>3, RouteTypes, TypesOnce
<1>5. c \in Nat /\ p \in Packet /\ p.kind # "reply" /\ p.id = c + 1
  BY <1>1, <1>2, <1>4, TypesOnce DEF Packet
<1>6. Cardinality(sent') = c + 1
  <2>1. p \notin sent
    BY <1>1, <1>5 DEF OnceInv
  <2>2. IsFiniteSet(sent)
    BY DEF OnceInv, Inv
  <2> QED
    BY <1>1, <1>3, <2>1, <2>2, FS_AddElement
<1>7. \A x \in sent' : x.id <= Cardinality(sent')
  <2>1. \A x \in sent : x.id \in Nat /\ x.id <= c
    BY <1>1 DEF OnceInv, Inv, Packet
  <2> QED
    BY <1>3, <1>5, <1>6, <2>1
<1>8. PICK H, sig : H = handed /\ sig = signals
  OBVIOUS
<1>9. \A kind \in Kinds : None(sig, waiting, H, c + 1, kind)
  BY <1>1, <1>5, <1>8 DEF OnceInv, Counted
<1>10. p.kind \in Kinds /\ "reply" \in Kinds
  BY <1>5 DEF Packet, Kinds
<1>11. Counted(sig, waiting, H, c)
  BY <1>1, <1>8 DEF OnceInv
<1>12. PICK c2 : c2 = c + 1
  OBVIOUS
<1>13. c2 \in Nat /\ c <= c2 /\ p.id <= c2
  BY <1>5, <1>12
<1>14. /\ None(sig, waiting, H, p.id, p.kind)
       /\ p.kind = "reply" => Upper(H, p.id, "request") # {}
       /\ p.kind = "request" => None(sig, waiting, H, p.id, "reply")
  BY <1>5, <1>9, <1>10
<1>15. FALSE \in BOOLEAN /\ Process(op.node, p, FALSE, sig)
  BY <1>3, <1>8
<1>16. /\ Sequences(sig, Signal) /\ Sequences(waiting, Wait) /\ PacketSets(H)
       /\ RoutesOK /\ ArpOK /\ raised \subseteq Iface
  BY <1>8, TypesOnce
<1>17. Counted(signals', waiting', handed', c2)
  BY <1>2, <1>5, <1>8, <1>11, <1>13, <1>14, <1>15, <1>16, ProcessCounted
<1>18. Inv'
  BY SendInv DEF OnceInv
<1> QED
  BY <1>6, <1>7, <1>12, <1>17, <1>18 DEF OnceInv

LEMMA RcvIpOnce == ASSUME OnceInv, NEW n \in Node, RcvIp(n) PROVE OnceInv'
<1>1. PICK s, p : s = Head(signals[n]) /\ p = s.packet
  OBVIOUS
<1>2. PICK sig, H, c, mine :
        sig = Rest(n) /\ H = handed /\ c = Cardinality(sent) /\ mine = Mine(s)
  OBVIOUS
<1>3. SignalOK(n, s, sent, handed) /\ QueuesOK(sig, sent, handed)
  BY <1>1, <1>2, RestOK DEF RcvIp, OnceInv
<1>4. s \in Signal /\ s.t = "ip" /\ p \in Packet /\ signals[n] # <<>>
  BY <1>1, <1>3 DEF RcvIp, SignalOK, Honest
<1>5. p.id \in Nat /\ p.kind \in Kinds
  BY <1>4 DEF Packet
<1>6. signals[n][1] \in Frame(p.id, p.kind)
  BY <1>1, <1>4 DEF Frame
<1>7. Becomes(sig, signals, n, Tail(signals[n]))
  BY <1>2 DEF Becomes, Rest
<1>8. ASSUME NEW k, NEW kind
      PROVE  /\ None(signals, waiting, H, k, kind) => None(sig, waiting, H, k, kind)
             /\ One(signals, waiting, H, k, kind) => One(sig, waiting, H, k, kind)
             /\ One(signals, waiting, H, k, kind) /\ signals[n][1] \in Frame(k, kind)
                  => None(sig, waiting, H, k, kind) /\ Upper(H, k, kind) = {}
  BY <1>4, <1>7, TakeSignal, TypesOnce
<1>9. Counted(signals, waiting, H, c)
  BY <1>2 DEF OnceInv
<1>10. Counted(sig, waiting, H, c)
  <2>1. Keeps(signals, waiting, H, sig, waiting)
    BY <1>8 DEF Keeps
  <2> QED
    BY <1>9, <2>1, CountedKeeps
<1>11. One(signals, waiting, H, p.id, p.kind)
  BY <1>5, <1>9 DEF Counted
<1>12. None(sig, waiting, H, p.id, p.kind) /\ Upper(H, p.id, p.kind) = {}
  BY <1>6, <1>8, <1>11
<1>13. p.kind = "request" => None(sig, waiting, H, p.id, "reply")
  BY <1>5, <1>10, <1>12 DEF Counted
<1>14. ~None(signals, waiting, H, p.id, p.kind)
  <2>1. signals[n] \in Seq(Signal) /\ signals[n] # <<>>
    BY <1>4, TypesOnce DEF Sequences
  <2>2. 1 \in Nat /\ 1 \in DOMAIN signals[n]
    BY <2>1
  <2>3. <<n, 1>> \in In(signals, Frame(p.id, p.kind))
    BY <1>6, <2>2 DEF In
  <2> QED
    BY <2>3 DEF None
<1>15. p.kind = "reply" => Upper(H, p.id, "request") # {}
  <2>1. ~None(signals, waiting, H, p.id, p.kind)
    BY <1>14
  <2> QED
    BY <1>5, <1>9, <2>1 DEF Counted
<1>16. c \in Nat /\ c <= c /\ p.id <= c
  <2>1. c \in Nat
    BY <1>2, TypesOnce
  <2>2. p.id > c => None(signals, waiting, H, p.id, p.kind)
    BY <1>5, <1>9 DEF Counted
  <2> QED
    BY <1>5, <1>14, <2>1, <2>2
<1>17. mine \in BOOLEAN /\ Process(n, p, mine, sig)
  BY <1>1, <1>2 DEF RcvIp, Mine
<1>18. Sequences(sig, Signal) /\ Sequences(waiting, Wait) /\ PacketSets(H)
       /\ RoutesOK /\ ArpOK /\ raised \subseteq Iface
  BY <1>2, <1>3, TypesOnce DEF QueuesOK, Sequences
<1>19. Counted(signals', waiting', handed', c)
  BY <1>2, <1>4, <1>10, <1>12, <1>13, <1>15, <1>16, <1>17, <1>18, ProcessCounted
<1>20. Inv' /\ UNCHANGED sent
  BY RcvIpInv DEF OnceInv, RcvIp
<1> QED
  BY <1>2, <1>19, <1>20 DEF OnceInv

\* Taking the first signal, and adding frames that carry no packet.
LEMMA TakeKeeps ==
    ASSUME OnceInv, NEW n \in Node, signals[n] # <<>>
    PROVE  /\ Keeps(signals, waiting, handed, Rest(n), waiting)
           /\ Sequences(Rest(n), Signal)
<1>1. PICK sig, H : sig = Rest(n) /\ H = handed
  OBVIOUS
<1>2. Becomes(sig, signals, n, Tail(signals[n]))
  BY <1>1 DEF Becomes, Rest
<1>3. \A k, kind :
          /\ None(signals, waiting, H, k, kind) => None(sig, waiting, H, k, kind)
          /\ One(signals, waiting, H, k, kind) => One(sig, waiting, H, k, kind)
  BY <1>2, TakeSignal, TypesOnce
<1>4. Sequences(sig, Signal)
  BY <1>1, RestOK DEF OnceInv, QueuesOK, Sequences
<1> QED
  BY <1>1, <1>3, <1>4 DEF Keeps

LEMMA KeepsOn ==
    ASSUME NEW s1, NEW w1, NEW s2, NEW w2, NEW s3, NEW w3, NEW h,
           Keeps(s1, w1, h, s2, w2), Keeps(s2, w2, h, s3, w3)
    PROVE  Keeps(s1, w1, h, s3, w3)
BY DEF Keeps

LEMMA SameFrames ==
    ASSUME NEW sig, NEW s2, NEW w, NEW h,
           \A k, kind : In(s2, Frame(k, kind)) = In(sig, Frame(k, kind))
    PROVE  Keeps(sig, w, h, s2, w)
BY DEF Keeps, None, One

LEMMA RcvRequestOnce == ASSUME OnceInv, NEW n \in Node, RcvRequest(n) PROVE OnceInv'
<1>1. PICK s, sig : s = Head(signals[n]) /\ sig = Rest(n)
  OBVIOUS
<1>2. SignalOK(n, s, sent, handed)
  BY <1>1, RestOK DEF RcvRequest, OnceInv
<1>3. s.t = "request" /\ s.at \in Iface /\ s.from \in Iface /\ s.addr \in Addr
  BY <1>1, <1>2 DEF RcvRequest, SignalOK, Signal
<1>4. PICK f, new : /\ f = [t |-> "reply", at |-> s.from, mac |-> s.at,
                            addr |-> s.addr]
                    /\ new = Frames(sig, {f})
  OBVIOUS
<1>5. f \in Signal /\ \A k, kind : {f} \cap Frame(k, kind) = {}
  BY <1>3, <1>4 DEF Signal, Frame
<1>6. /\ Keeps(signals, waiting, handed, sig, waiting)
      /\ Sequences(sig, Signal)
  BY <1>1, TakeKeeps DEF RcvRequest
<1>7. \A k, kind : In(new, Frame(k, kind)) = In(sig, Frame(k, kind))
  BY <1>4, <1>5, <1>6, FramesIn
<1>8. Keeps(signals, waiting, handed, new, waiting)
  BY <1>6, <1>7, SameFrames, KeepsOn
<1>9. signals' = sig \/ signals' = new
  BY <1>1, <1>4 DEF RcvRequest
<1>10. Inv' /\ UNCHANGED <<sent, handed, waiting>>
  BY RcvRequestInv DEF RcvRequest, OnceInv
<1> QED
  BY <1>6, <1>8, <1>9, <1>10, QuietOnce

LEMMA RcvReplyOnce == ASSUME OnceInv, NEW n \in Node, RcvReply(n) PROVE OnceInv'
<1>1. PICK s, sig : s = Head(signals[n]) /\ sig = Rest(n)
  OBVIOUS
<1>2. SignalOK(n, s, sent, handed)
  BY <1>1, RestOK DEF RcvReply, OnceInv
<1>3. s.t = "reply" /\ s.mac \in Iface /\ s.addr \in Addr
  BY <1>1, <1>2 DEF RcvReply, SignalOK, Signal
<1>4. PICK f, new : /\ f = [t |-> "arp", mac |-> s.mac, addr |-> s.addr]
                    /\ new = signals'
  OBVIOUS
<1>5. f \in Signal /\ \A k, kind : f \notin Frame(k, kind)
  BY <1>3, <1>4 DEF Signal, Frame
<1>6. /\ Keeps(signals, waiting, handed, sig, waiting)
      /\ Sequences(sig, Signal)
  BY <1>1, TakeKeeps DEF RcvReply
<1>7. \A m \in Node : new[m] = sig[m] \/ new[m] = Append(sig[m], f)
  <2>1. new = [signals EXCEPT ![n] = Append(Tail(@), f)]
    BY <1>1, <1>4 DEF RcvReply
  <2>2. sig = [signals EXCEPT ![n] = Tail(@)] /\ DOMAIN signals = Node
    BY <1>1, TypesOnce DEF Rest, Sequences
  <2> QED
    BY <2>1, <2>2
<1>8. \A k, kind : In(new, Frame(k, kind)) = In(sig, Frame(k, kind))
  BY <1>5, <1>6, <1>7, OthersIn
<1>9. Keeps(signals, waiting, handed, new, waiting)
  BY <1>6, <1>8, SameFrames, KeepsOn
<1>10. Inv' /\ UNCHANGED <<sent, handed, waiting>>
  BY RcvReplyInv DEF RcvReply, OnceInv
<1> QED
  BY <1>4, <1>9, <1>10, QuietOnce

LEMMA RcvArpOnce == ASSUME OnceInv, NEW n \in Node, RcvArp(n) PROVE OnceInv'
<1>1. PICK s, sig, H : s = Head(signals[n]) /\ sig = Rest(n) /\ H = handed
  OBVIOUS
<1>2. SignalOK(n, s, sent, handed)
  BY <1>1, RestOK DEF RcvArp, OnceInv
<1>3. s.t = "arp" /\ s.mac \in Iface
  BY <1>1, <1>2 DEF RcvArp, SignalOK, Signal
<1>4. Keeps(signals, waiting, H, sig, waiting) /\ Sequences(sig, Signal)
  BY <1>1, TakeKeeps DEF RcvArp
<1>5. Inv' /\ UNCHANGED <<sent, handed>>
  BY RcvArpInv DEF RcvArp, OnceInv
<1>6. CASE waiting[n] # <<>> /\ waiting[n][1].hop = s.addr
  <2>1. PICK x, p : x = waiting[n][1] /\ p = x.packet
    OBVIOUS
  <2>2. waiting' = [waiting EXCEPT ![n] = Tail(@)]
        /\ signals' = Frames(sig, {IpFrame(s.mac, p)})
    BY <1>1, <1>6, <2>1 DEF RcvArp, Resumed
  <2>3. PICK s2, w2 : s2 = signals' /\ w2 = waiting'
    OBVIOUS
  <2>4. x \in Wait /\ p \in Packet
    <3>1. waiting[n] \in Seq(Wait) /\ 1 \in DOMAIN waiting[n]
      BY <1>6, TypesOnce DEF Sequences
    <3>2. x \in Wait
      BY <2>1, <3>1
    <3> QED
      BY <2>1, <3>2 DEF Wait
  <2>5. Becomes(w2, waiting, n, Tail(waiting[n])) /\ Sequences(waiting, Wait)
    BY <2>2, <2>3, TypesOnce DEF Becomes
  <2>6. ASSUME NEW k, NEW kind
        PROVE  /\ None(signals, waiting, H, k, kind) => None(s2, w2, H, k, kind)
               /\ One(signals, waiting, H, k, kind) => One(s2, w2, H, k, kind)
    <3>1. PICK same : same = (p.id = k /\ p.kind = kind)
      OBVIOUS
    <3>2. /\ None(sig, waiting, H, k, kind) => None(sig, w2, H, k, kind)
          /\ One(sig, waiting, H, k, kind) => One(sig, w2, H, k, kind)
          /\ One(sig, waiting, H, k, kind) /\ waiting[n][1] \in Held(k, kind)
                  => None(sig, w2, H, k, kind)
      BY <1>6, <2>5, TakeWait
    <3>3. waiting[n][1] \in Held(k, kind) <=> same
      BY <2>1, <2>4, <3>1 DEF Held
    <3>4. /\ ~same /\ None(sig, w2, H, k, kind) => None(s2, w2, H, k, kind)
          /\ ~same /\ One(sig, w2, H, k, kind) => One(s2, w2, H, k, kind)
          /\ same /\ None(sig, w2, H, k, kind) => One(s2, w2, H, k, kind)
      BY <1>3, <1>4, <2>2, <2>3, <2>4, <3>1, PutFrame
    <3>5. same => ~None(sig, waiting, H, k, kind)
      <4>1. same => <<n, 1>> \in In(waiting, Held(k, kind))
        BY <1>6, <2>5, <3>3, TailIn
      <4> QED
        BY <4>1 DEF None
    <3>6. /\ None(signals, waiting, H, k, kind) => None(sig, waiting, H, k, kind)
          /\ One(signals, waiting, H, k, kind) => One(sig, waiting, H, k, kind)
      BY <1>4 DEF Keeps
    <3> QED
      BY <3>2, <3>3, <3>4, <3>5, <3>6
  <2>7. Keeps(signals, waiting, H, s2, w2)
    BY <2>6 DEF Keeps
  <2> QED
    BY <1>1, <1>5, <2>3, <2>7, QuietOnce
<1>7. CASE ~(waiting[n] # <<>> /\ waiting[n][1].hop = s.addr)
  <2>1. signals' = sig /\ UNCHANGED waiting
    BY <1>1, <1>7 DEF RcvArp
  <2> QED
    BY <1>1, <1>4, <1>5, <2>1, QuietOnce
<1> QED
  BY <1>6, <1>7

LEMMA GiveUpOnce == ASSUME OnceInv, NEW n \in Node, GiveUp(n) PROVE OnceInv'
<1>1. PICK w2, H : w2 = waiting' /\ H = handed
  OBVIOUS
<1>2. \A m \in Node : w2[m] = waiting[m] \/ w2[m] = <<>>
  BY <1>1, TypesOnce DEF GiveUp, Sequences
<1>3. \A k, kind : In(w2, Held(k, kind)) \subseteq In(waiting, Held(k, kind))
  BY <1>2 DEF In
<1>4. Keeps(signals, waiting, H, signals, w2)
  BY <1>3 DEF Keeps, None, One, Single
<1>5. Inv' /\ UNCHANGED <<sent, handed, signals>>
  BY GiveUpInv DEF GiveUp, OnceInv
<1> QED
  BY <1>1, <1>4, <1>5, QuietOnce

LEMMA LoseOnce == ASSUME OnceInv, NEW n \in Node, Lose(n) PROVE OnceInv'
<1>1. Keeps(signals, waiting, handed, Rest(n), waiting)
  BY TakeKeeps DEF Lose
<1>2. Inv' /\ UNCHANGED <<sent, handed, waiting>> /\ signals' = Rest(n)
  BY LoseInv DEF Lose, OnceInv
<1> QED
  BY <1>1, <1>2, QuietOnce

LEMMA StepOnce == ASSUME OnceInv, [Next]_vars PROVE OnceInv'
<1>1. Keeps(signals, waiting, handed, signals, waiting)
  BY DEF Keeps
<1>2. Inv'
  BY StepInv DEF OnceInv
<1>3. CASE UNCHANGED vars
  BY <1>1, <1>2, <1>3, QuietOnce DEF vars
<1>4. ASSUME NEW i \in Iface, IfUp(i) \/ IfDown(i) PROVE OnceInv'
  BY <1>1, <1>2, <1>4, QuietOnce DEF IfUp, IfDown
<1>5. CASE Next
  BY <1>4, <1>5, SendOnce, RcvRequestOnce, RcvReplyOnce, RcvIpOnce, RcvArpOnce,
     GiveUpOnce, LoseOnce DEF Next, Receive
<1> QED
  BY <1>3, <1>5

LEMMA OneIsEnough ==
    ASSUME OnceInv, NEW k \in Nat, NEW kind \in Kinds
    PROVE  Cardinality(Copies(k, kind)) <= 1
<1> DEFINE Q == UNION {{"queued"} \X {n} \X QueuedAt(n, k, kind) : n \in Node}
           W == UNION {{"waiting"} \X {n} \X WaitingAt(n, k, kind) : n \in Node}
           U == UNION {{"handed"} \X {n} \X HandedAt(n, k, kind) : n \in Node}
<1>1. One(signals, waiting, handed, k, kind)
  BY DEF OnceInv, Counted
<1>2. \A x \in Q : /\ x = <<"queued", x[2], x[3]>>
                   /\ <<x[2], x[3]>> \in In(signals, Frame(k, kind))
  <2>1. \A n \in Node : \A j \in QueuedAt(n, k, kind) :
            <<n, j>> \in In(signals, Frame(k, kind))
    BY TypesOnce DEF QueuedAt, In, Frame, Sequences
  <2> QED
    BY <2>1
<1>3. \A x \in W : /\ x = <<"waiting", x[2], x[3]>>
                   /\ <<x[2], x[3]>> \in In(waiting, Held(k, kind))
  <2>1. \A n \in Node : \A j \in WaitingAt(n, k, kind) :
            <<n, j>> \in In(waiting, Held(k, kind))
    BY TypesOnce DEF WaitingAt, In, Held, Sequences
  <2> QED
    BY <2>1
<1>4. \A x \in U : /\ x = <<"handed", x[2], x[3]>>
                   /\ <<x[2], x[3]>> \in Upper(handed, k, kind)
  <2>1. \A n \in Node : \A p \in HandedAt(n, k, kind) :
            <<n, p>> \in Upper(handed, k, kind)
    BY TypesOnce DEF HandedAt, Upper, PacketSets
  <2> QED
    BY <2>1
<1>5. Copies(k, kind) = Q \cup W \cup U
  BY DEF Copies
<1> HIDE DEF Q, W, U
<1>6. ASSUME NEW x \in Copies(k, kind), NEW y \in Copies(k, kind) PROVE x = y
  <2>1. CASE x \in Q /\ y \in Q
    <3>1. <<x[2], x[3]>> = <<y[2], y[3]>>
      BY <1>1, <1>2, <2>1 DEF One, Single
    <3> QED
      BY <1>2, <2>1, <3>1
  <2>2. CASE x \in W /\ y \in W
    <3>1. <<x[2], x[3]>> = <<y[2], y[3]>>
      BY <1>1, <1>3, <2>2 DEF One, Single
    <3> QED
      BY <1>3, <2>2, <3>1
  <2>3. CASE x \in U /\ y \in U
    <3>1. <<x[2], x[3]>> = <<y[2], y[3]>>
      BY <1>1, <1>4, <2>3 DEF One, Single
    <3> QED
      BY <1>4, <2>3, <3>1
  <2>4. ~(x \in Q /\ y \in W) /\ ~(x \in W /\ y \in Q)
    BY <1>1, <1>2, <1>3 DEF One
  <2>5. ~(x \in Q /\ y \in U) /\ ~(x \in U /\ y \in Q)
    BY <1>1, <1>2, <1>4 DEF One
  <2>6. ~(x \in W /\ y \in U) /\ ~(x \in U /\ y \in W)
    BY <1>1, <1>3, <1>4 DEF One
  <2> QED
    BY <1>5, <2>1, <2>2, <2>3, <2>4, <2>5, <2>6
<1>7. CASE Copies(k, kind) = {}
  BY <1>7, FS_EmptySet
<1>8. CASE Copies(k, kind) # {}
  <2>1. PICK x : Copies(k, kind) = {x}
    BY <1>6, <1>8
  <2> QED
    BY <2>1, FS_Singleton
<1> QED
  BY <1>7, <1>8

\* No packet is ever in two places: not in two queues or waits, nor handed up
\* and still on its way, whatever is sent from inside a wait, answered twice,
\* late or never, on any topology and for any number of packets.
THEOREM NothingIsDuplicated == Spec => []AtMostOnce
<1>1. Init => OnceInv
  BY InitOnce
<1>2. OnceInv /\ [Next]_vars => OnceInv'
  BY StepOnce
<1>3. OnceInv => AtMostOnce
  <2>1. \A k \in 1..MaxSends : k \in Nat
    BY ConstantsOK
  <2> QED
    BY <2>1, OneIsEnough DEF AtMostOnce
<1> QED
  BY <1>1, <1>2, <1>3, PTL DEF Spec

=============================================================================
