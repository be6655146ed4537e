------------------------------ MODULE TcpProofs ------------------------------
(***************************************************************************)
(* Theorems about TcpConnection, for any number of clients, any initial    *)
(* sequence numbers, any losses and any applications.                      *)
(*                                                                         *)
(* The invariant Inv says of every socket what its numbers mean while it   *)
(* still takes data (SockOK), of every segment in a channel what it tells  *)
(* its receiver (SegOK), of every channel that the data in it are the      *)
(* bytes after those received, in order (FlowOK), and of every client that *)
(* its SYN exists once (SynOnce).  It is kept by every action: the lemmas  *)
(* ActorStep and FieldsStep reduce an action to what it does to the one    *)
(* socket that acts.                                                       *)
(***************************************************************************)
EXTENDS TcpConnection, SequenceTheorems, TLAPS

-----------------------------------------------------------------------------
(* The invariant.                                                          *)

\* The socket was opened, and will not take data any more.
Taking == {"SYN-SENT", "SYN-RECEIVED", "ESTABLISHED"}
Finished(s) == app[s] # "idle" /\ tcb[s].state \notin Taking

\* The sequence number of the first byte of s; how many bytes reached s.
First(s) == ISS[s] + 1
Received(s) == Len(Stream(s))

\* What s has given up or its peer has acknowledged its SYN.
Answered(s) == app[s] = "closed" \/ tcb[s].sndUna > ISS[s]

\* A socket nobody has opened.
IdleOK(s) ==
    app[s] = "idle" => /\ tcb[s].state = "CLOSED"
                       /\ tcb[s].sndNxt = ISS[s]
                       /\ sent[s] = 0
                       /\ s \notin table

\* The numbers of what s sends.
SendOK(s) ==
    /\ app[s] \in {"connecting", "accepting", "open"} =>
          tcb[s].sndNxt = First(s) + sent[s] \/ Finished(Peer(s))
    /\ ISS[s] <= tcb[s].sndUna
    /\ ~Finished(s) => tcb[s].sndUna <= First(s) + Received(Peer(s))

\* The numbers of what s expects.  rcvNxt stays behind the stream when the
\* acknowledgment of the last data could not be built.
RecvOK(s) ==
    /\ tcb[s].state \in {"SYN-RECEIVED", "ESTABLISHED"} =>
          /\ First(Peer(s)) <= tcb[s].rcvNxt
          /\ tcb[s].rcvNxt <= First(Peer(s)) + Received(s)
    /\ tcb[s].rcvNxt <= MaxSeq
    /\ app[s] = "open" => tcb[s].rcvNxt # -1
    /\ \A i \in 1..Received(s) : Stream(s)[i] = i
    /\ Received(s) <= sent[Peer(s)]

\* The handshake of s with fields t.
HandshakeOK(s, t) ==
    /\ t.state = "SYN-SENT" => s[2] = "active" /\ t.sndNxt > ISS[s]
    /\ t.state = "SYN-RECEIVED" => s[2] = "passive"
    /\ t.state \in {"FIN-WAIT-1", "FIN-WAIT-2", "TIME-WAIT"} => app[s] = "closed"
    /\ s[2] = "active" /\ t.state \in {"ESTABLISHED", "CLOSE-WAIT", "LAST-ACK"}
          => t.sndUna > ISS[s]
    /\ s[2] = "passive" /\ t.state = "ESTABLISHED" => Answered(Peer(s))
StateOK(s) == HandshakeOK(s, tcb[s])

SockOK(s) == IdleOK(s) /\ SendOK(s) /\ RecvOK(s) /\ StateOK(s)

\* A segment s has sent.
SynOK(s, g) ==
    "SYN" \in g.flags =>
        /\ g.seq = ISS[s]
        /\ g.data = <<>>
        /\ "ACK" \notin g.flags => s[2] = "active" /\ g.flags = {"SYN"}
        /\ "ACK" \in g.flags => s[2] = "passive" /\ g.ack = First(Peer(s))
AckOK(s, g) ==
    "ACK" \in g.flags =>
        /\ Finished(Peer(s)) \/ g.ack <= First(Peer(s)) + Received(s)
        /\ s[2] = "active" => Answered(s)
FinOK(s, g) == "FIN" \in g.flags => Finished(s) /\ g.data = <<>>
SegOK(s, g) == SynOK(s, g) /\ AckOK(s, g) /\ FinOK(s, g)

\* The bytes of s in segment g, one of the sizes the application writes, after
\* the first n of them and up to the m-th.
Carries(s, g, n, m) ==
    /\ Len(g.data) \in PayloadSizes
    /\ First(s) + n <= g.seq
    /\ g.seq + Len(g.data) <= First(s) + m
    /\ \A i \in 1..Len(g.data) : g.data[i] = g.seq - First(s) + i

\* The data in the channel q from s carries bytes after the n-th, in order.
InOrder(s, q, n, m) ==
    /\ \A j \in 1..Len(q) : q[j].data # <<>> => Carries(s, q[j], n, m)
    /\ \A j, k \in 1..Len(q) :
          j < k /\ q[j].data # <<>> /\ q[k].data # <<>>
          => q[j].seq + Len(q[j].data) <= q[k].seq

\* What is on its way to a socket that still takes data follows what it has.
FlowOK(s) ==
    ~Finished(s) =>
        InOrder(Peer(s), net[Peer(s)], Received(s), sent[Peer(s)])

\* The one SYN of a client: not sent, on its way, in the backlog or accepted.
SynOnce(c) ==
    LET q == net[<<c, "active">>]
    IN  /\ \A j \in 1..Len(q) : IsSyn(q[j]) =>
              /\ app[<<c, "active">>] # "idle"
              /\ app[<<c, "passive">>] = "idle"
              /\ \A i \in 1..Len(backlog) : backlog[i] # c
              /\ \A k \in 1..Len(q) : IsSyn(q[k]) => j = k
        /\ \A j \in 1..Len(backlog) : backlog[j] = c =>
              /\ app[<<c, "active">>] # "idle"
              /\ app[<<c, "passive">>] = "idle"
              /\ \A k \in 1..Len(backlog) : backlog[k] = c => j = k
        /\ app[<<c, "active">>] = "idle" => app[<<c, "passive">>] = "idle"

AcceptOK == accepting # NoClient => app[<<accepting, "passive">>] = "accepting"

Inv ==
    /\ TypeOK
    /\ \A s \in Sock : /\ SockOK(s) /\ FlowOK(s)
                       /\ \A j \in 1..Len(net[s]) : SegOK(s, net[s][j])
    /\ \A c \in Clients : SynOnce(c)
    /\ AcceptOK

-----------------------------------------------------------------------------
(* Sockets, sequences and segments.                                        *)

Tcb == [state : States, sndNxt : Nat, sndUna : Nat, rcvNxt : Nat \cup {-1},
        outBuffer : SUBSET Segment]

LEMMA PeerFacts ==
    ASSUME NEW s \in Sock
    PROVE  /\ Peer(s) \in Sock /\ Peer(s) # s /\ Peer(Peer(s)) = s
           /\ s[1] \in Clients /\ s[2] \in Sides
           /\ s[2] = "active" => s = <<s[1], "active">> /\ Peer(s) = <<s[1], "passive">>
           /\ s[2] = "passive" => s = <<s[1], "passive">> /\ Peer(s) = <<s[1], "active">>
BY DEF Sock, Sides, Peer

LEMMA ClientSocks ==
    ASSUME NEW c \in Clients
    PROVE  /\ <<c, "active">> \in Sock /\ <<c, "passive">> \in Sock
           /\ Peer(<<c, "active">>) = <<c, "passive">>
           /\ Peer(<<c, "passive">>) = <<c, "active">>
BY DEF Sock, Sides, Peer

LEMMA SegLenNat ==
    ASSUME NEW g \in Segment
    PROVE  /\ SegLen(g) \in Nat
           /\ g.data = <<>> => SegLen(g) = (IF "FIN" \in g.flags THEN 1 ELSE 0)
                                           + (IF "SYN" \in g.flags THEN 1 ELSE 0)
<1> DEFINE f == IF "FIN" \in g.flags THEN 1 ELSE 0
           y == IF "SYN" \in g.flags THEN 1 ELSE 0
<1>1. f \in Nat /\ y \in Nat /\ Len(g.data) \in Nat
  BY DEF Segment
<1>2. SegLen(g) = Len(g.data) + f + y
  BY DEF SegLen
<1>3. g.data = <<>> => Len(g.data) = 0
  OBVIOUS
<1> HIDE DEF f, y
<1>4. SegLen(g) \in Nat /\ (g.data = <<>> => SegLen(g) = f + y)
  BY <1>1, <1>2, <1>3
<1> QED
  BY <1>4 DEF f, y

\* The fields after a segment is sent.
LEMMA SendRawFields ==
    ASSUME NEW t \in Tcb, NEW g \in Segment
    PROVE  /\ SendRaw(t, g) \in Tcb
           /\ SendRaw(t, g).state = t.state
           /\ SendRaw(t, g).sndUna = t.sndUna
           /\ SendRaw(t, g).rcvNxt = t.rcvNxt
           /\ SendRaw(t, g).sndNxt = t.sndNxt + SegLen(g)
<1> DEFINE o == {h \in t.outBuffer : h.seq # g.seq} \cup {g}
           n == t.sndNxt + SegLen(g)
<1>1. n \in Nat
  BY SegLenNat DEF Tcb
<1>2. o \in SUBSET Segment
  BY DEF Tcb
<1>3. SendRaw(t, g) = [t EXCEPT !.outBuffer = o, !.sndNxt = n]
  BY DEF SendRaw
<1> HIDE DEF o, n
<1>4. /\ SendRaw(t, g) \in Tcb
      /\ SendRaw(t, g).state = t.state
      /\ SendRaw(t, g).sndUna = t.sndUna
      /\ SendRaw(t, g).rcvNxt = t.rcvNxt
      /\ SendRaw(t, g).sndNxt = n
  BY <1>1, <1>2, <1>3 DEF Tcb
<1> QED
  BY <1>4 DEF n

LEMMA AckNumberNat ==
    ASSUME NEW g \in Segment
    PROVE  /\ AckNumber(g) \in Nat
           /\ g.data = <<>> => AckNumber(g) = g.seq + 1
           /\ g.data # <<>> => AckNumber(g) = g.seq + Len(g.data)
<1>1. g.seq \in Nat /\ Len(g.data) \in Nat
  BY DEF Segment
<1>2. CASE g.data = <<>>
  BY <1>1, <1>2 DEF AckNumber
<1>3. CASE g.data # <<>>
  BY <1>1, <1>3 DEF AckNumber
<1> QED
  BY <1>2, <1>3

\* An acknowledgment, where it can be built.
LEMMA MakeAckFields ==
    ASSUME ConstantsOK, NEW t \in Tcb, NEW g \in Segment, CanAck(t, g),
           NEW flags \in SUBSET Flags
    PROVE  /\ MakeAck(t, g, flags) \in Segment
           /\ MakeAck(t, g, flags).flags = {"ACK"} \cup flags
           /\ MakeAck(t, g, flags).seq = t.sndNxt
           /\ MakeAck(t, g, flags).ack = AckNumber(g)
           /\ MakeAck(t, g, flags).data = <<>>
<1>1. AckNumber(g) \in Nat
  BY AckNumberNat
<1>2. AckNumber(g) \in 0..MaxSeq /\ t.sndNxt \in 0..MaxSeq
  BY <1>1 DEF CanAck, CanMake, Tcb, ConstantsOK
<1> DEFINE f == IF t.state = "ESTABLISHED" THEN {"ACK"} ELSE {}
           k == IF t.state = "ESTABLISHED" THEN t.rcvNxt ELSE 0
           x == f \cup {"ACK"} \cup flags
<1>3. x = {"ACK"} \cup flags /\ x \in SUBSET Flags
  BY DEF Flags
<1>4. MakeSegment(t) = [flags |-> f, seq |-> t.sndNxt, ack |-> k, data |-> <<>>]
  BY DEF MakeSegment
<1>5. MakeAck(t, g, flags) = [MakeSegment(t) EXCEPT !.flags = MakeSegment(t).flags
                                 \cup {"ACK"} \cup flags, !.ack = AckNumber(g)]
  BY DEF MakeAck
<1>6. MakeSegment(t).flags \cup {"ACK"} \cup flags = x
  BY <1>4
<1>7. <<>> \in Seq(Nat) /\ f \in SUBSET Flags
  BY DEF Flags
<1> HIDE DEF f, k, x
<1>8. MakeAck(t, g, flags) = [[flags |-> f, seq |-> t.sndNxt, ack |-> k,
                   data |-> <<>>] EXCEPT !.flags = x, !.ack = AckNumber(g)]
  BY <1>4, <1>5, <1>6
<1> QED
  BY <1>2, <1>3, <1>7, <1>8 DEF Segment

\* The fields after an acknowledgment with more flags is sent.
LEMMA SendAckFields ==
    ASSUME ConstantsOK, NEW t \in Tcb, NEW g \in Segment, CanAck(t, g),
           NEW flags \in SUBSET Flags
    PROVE  /\ SendAck(t, g, flags) \in Tcb
           /\ SendAck(t, g, flags).state = t.state
           /\ SendAck(t, g, flags).sndUna = t.sndUna
           /\ SendAck(t, g, flags).rcvNxt = AckNumber(g)
           /\ SendAck(t, g, flags).sndNxt =
                 t.sndNxt + (IF "FIN" \in flags THEN 1 ELSE 0)
                          + (IF "SYN" \in flags THEN 1 ELSE 0)
<1> DEFINE u == [t EXCEPT !.rcvNxt = AckNumber(g)]
           a == MakeAck(t, g, flags)
<1>1. AckNumber(g) \in Nat
  BY AckNumberNat
<1>2. /\ u \in Tcb /\ u.state = t.state /\ u.sndUna = t.sndUna
      /\ u.rcvNxt = AckNumber(g) /\ u.sndNxt = t.sndNxt
  BY <1>1 DEF Tcb
<1>3. /\ a \in Segment
      /\ SegLen(a) = (IF "FIN" \in flags THEN 1 ELSE 0)
                       + (IF "SYN" \in flags THEN 1 ELSE 0)
  BY MakeAckFields, SegLenNat
<1>4. SendAck(t, g, flags) = SendRaw(u, a)
  BY DEF SendAck
<1> HIDE DEF u, a
<1> QED
  BY <1>2, <1>3, <1>4, SendRawFields DEF Tcb

\* Taking an acknowledgment number into account moves sndUna forward only.
LEMMA ProcessAckFields ==
    ASSUME NEW t \in Tcb, NEW g \in Segment, NEW u, u = ProcessAck(t, g)
    PROVE  /\ u \in Tcb
           /\ u.state = t.state /\ u.rcvNxt = t.rcvNxt /\ u.sndNxt = t.sndNxt
           /\ u.sndUna # t.sndUna =>
                 u.sndUna = g.ack /\ t.sndUna < g.ack /\ "ACK" \in g.flags
           /\ "ACK" \in g.flags /\ t.sndUna < g.ack /\ g.ack <= t.sndNxt
              => u.sndUna = g.ack
<1> DEFINE o == {h \in t.outBuffer : h.seq + SegLen(h) > g.ack}
           taken == "ACK" \in g.flags /\ t.sndUna < g.ack /\ g.ack <= t.sndNxt
<1>1. o \in SUBSET Segment
  BY DEF Tcb
<1>2. g.ack \in Nat
  BY DEF Segment
<1>3. u = IF taken THEN [t EXCEPT !.sndUna = g.ack, !.outBuffer = o] ELSE t
  BY DEF ProcessAck
<1> HIDE DEF o
<1>4. CASE taken
  <2>1. u = [t EXCEPT !.sndUna = g.ack, !.outBuffer = o]
    BY <1>3, <1>4
  <2> HIDE DEF taken
  <2>2. /\ u \in Tcb /\ u.sndUna = g.ack
        /\ u.state = t.state /\ u.rcvNxt = t.rcvNxt /\ u.sndNxt = t.sndNxt
    BY <1>1, <1>2, <2>1 DEF Tcb
  <2> QED
    BY <1>4, <2>2 DEF taken
<1>5. CASE ~taken
  <2>1. u = t
    BY <1>3, <1>5
  <2> QED
    BY <1>5, <2>1
<1> QED
  BY <1>4, <1>5

-----------------------------------------------------------------------------
(* What a step leaves alone.                                               *)

LEMMA TcbOfSock == ASSUME TypeOK, NEW s \in Sock PROVE tcb[s] \in Tcb
BY DEF TypeOK, Tcb

LEMMA StreamType ==
    ASSUME TypeOK, NEW s \in Sock
    PROVE  Stream(s) \in Seq(Nat) /\ Received(s) \in Nat
BY DEF TypeOK, Stream, Received

LEMMA StreamTypeNext ==
    ASSUME TypeOK', NEW s \in Sock
    PROVE  Stream(s)' \in Seq(Nat) /\ Received(s)' \in Nat
BY DEF TypeOK, Stream, Received

LEMMA NumberType ==
    ASSUME TypeOK, ConstantsOK, NEW s \in Sock
    PROVE  /\ ISS[s] \in Nat \ {0} /\ First(s) \in Nat /\ MaxSeq \in Nat
           /\ ISS[s] <= MaxSeq /\ sent[s] \in Nat
           /\ tcb[s].sndUna \in Nat /\ tcb[s].sndNxt \in Nat /\ tcb[s].rcvNxt \in Int
<1>1. ISS[s] \in 1..MaxSeq /\ MaxSeq \in Nat
  BY DEF ConstantsOK
<1>2. First(s) \in Nat
  BY <1>1 DEF First
<1>3. sent[s] \in Nat /\ tcb[s] \in Tcb
  BY TcbOfSock DEF TypeOK
<1> QED
  BY <1>1, <1>2, <1>3 DEF Tcb

LEMMA NumberTypeNext ==
    ASSUME TypeOK', NEW s \in Sock
    PROVE  /\ sent'[s] \in Nat /\ tcb'[s] \in Tcb
           /\ tcb'[s].sndUna \in Nat /\ tcb'[s].sndNxt \in Nat /\ tcb'[s].rcvNxt \in Int
<1>1. sent'[s] \in Nat /\ tcb'[s] \in Tcb
  BY DEF TypeOK, Tcb
<1> QED
  BY <1>1 DEF Tcb

\* Nothing of socket s changes but acknowledged segments and its timer.
Own(s) ==
    /\ tcb'[s] = tcb[s] /\ app'[s] = app[s] /\ sent'[s] = sent[s]
    /\ Stream(s)' = Stream(s)
    /\ s \in table' => s \in table

\* The directions in which a socket changes.
Grows(s) ==
    /\ Finished(s) => Finished(s)'
    /\ app[s] = "closed" => app'[s] = "closed"
    /\ tcb[s].sndUna <= tcb'[s].sndUna
    /\ Received(s) <= Received(s)'
    /\ sent[s] <= sent'[s]

LEMMA OwnGrows == ASSUME TypeOK, NEW s \in Sock, Own(s) PROVE Grows(s)
<1>1. tcb[s].sndUna \in Nat /\ Received(s) \in Nat /\ sent[s] \in Nat
  BY TcbOfSock, StreamType DEF TypeOK, Tcb
<1>2. Received(s)' = Received(s)
  BY DEF Own, Received
<1>3. Finished(s)' = Finished(s)
  BY DEF Own, Finished
<1> QED
  BY <1>1, <1>2, <1>3 DEF Own, Grows

LEMMA AnsweredGrows ==
    ASSUME TypeOK, TypeOK', ConstantsOK, NEW s \in Sock, Grows(s), Answered(s)
    PROVE  Answered(s)'
<1>1. tcb[s].sndUna \in Nat /\ tcb'[s].sndUna \in Nat /\ ISS[s] \in Nat
  BY SMTT(30) DEF TypeOK, ConstantsOK
<1> QED
  BY <1>1 DEF Grows, Answered

LEMMA SockKeeps ==
    ASSUME TypeOK, TypeOK', ConstantsOK, NEW s \in Sock, SockOK(s), Own(s),
           Grows(Peer(s))
    PROVE  SockOK(s)'
<1> DEFINE p == Peer(s)
<1>1. p \in Sock
  BY PeerFacts
<1>2. Received(s)' = Received(s) /\ Finished(s)' = Finished(s)
  BY DEF Own, Received, Finished
<1>3. /\ Received(p) \in Nat /\ Received(p)' \in Nat /\ Received(s) \in Nat
      /\ sent[p] \in Nat /\ sent'[p] \in Nat
      /\ First(s) \in Nat /\ tcb[s].sndUna \in Nat
  BY <1>1, StreamType, StreamTypeNext, NumberType, NumberTypeNext
<1>4. /\ Finished(p) => Finished(p)'
      /\ Received(p) <= Received(p)' /\ sent[p] <= sent'[p]
  BY DEF Grows
<1>5. Answered(p) => Answered(p)'
  BY <1>1, AnsweredGrows
<1>6. IdleOK(s)'
  BY DEF SockOK, IdleOK, Own
<1>7. SendOK(s)'
  BY <1>2, <1>3, <1>4 DEF SockOK, SendOK, Own, First
<1>8. RecvOK(s)'
  BY <1>2, <1>3, <1>4 DEF SockOK, RecvOK, Own, First
<1>9. StateOK(s)'
  BY <1>5 DEF SockOK, StateOK, HandshakeOK, Own
<1> QED
  BY <1>6, <1>7, <1>8, <1>9 DEF SockOK

LEMMA SegKeeps ==
    ASSUME TypeOK, TypeOK', ConstantsOK, NEW s \in Sock, NEW g \in Segment,
           SegOK(s, g), Grows(s), Grows(Peer(s))
    PROVE  SegOK(s, g)'
<1>1. Peer(s) \in Sock
  BY PeerFacts
<1>2. Answered(s) => Answered(s)'
  BY AnsweredGrows
<1>3. /\ Received(s) \in Nat /\ Received(s)' \in Nat
      /\ First(Peer(s)) \in Nat /\ g.ack \in Nat
  BY <1>1, StreamType, StreamTypeNext, NumberType DEF Segment
<1>4. SynOK(s, g)'
  BY DEF SegOK, SynOK, First
<1>5. AckOK(s, g)'
  BY <1>2, <1>3 DEF SegOK, AckOK, Grows, First
<1>6. FinOK(s, g)'
  BY DEF SegOK, FinOK, Grows
<1> QED
  BY <1>4, <1>5, <1>6 DEF SegOK

-----------------------------------------------------------------------------
(* Channels.                                                               *)

\* Nothing, or the first segment, is taken from q.
Loses(q, r) == r = q \/ (q # <<>> /\ r = Tail(q))

LEMMA LosesFacts ==
    ASSUME NEW S, NEW q \in Seq(S), NEW r, Loses(q, r)
    PROVE  \E d \in {0, 1} :
              \A j \in 1..Len(r) : j + d \in 1..Len(q) /\ r[j] = q[j + d]
<1>1. CASE r = q
  BY <1>1
<1>2. CASE q # <<>> /\ r = Tail(q)
  <2>1. \A j \in 1..Len(r) : j + 1 \in 1..Len(q) /\ r[j] = q[j + 1]
    BY <1>2, HeadTailProperties
  <2> QED
    BY <2>1
<1> QED
  BY <1>1, <1>2 DEF Loses

LEMMA ConcatNat ==
    ASSUME NEW a \in Seq(Nat), NEW b \in Seq(Nat), NEW c \in Seq(Nat)
    PROVE  (a \o b) \o c = a \o (b \o c)
<1>1. \A S : \A u \in Seq(S), v \in Seq(S), w \in Seq(S) : (u \o v) \o w = u \o (v \o w)
  BY ConcatAssociative
<1> QED
  BY <1>1

LEMMA AddsFacts ==
    ASSUME NEW S, NEW q \in Seq(S), NEW g \in Seq(S), NEW r, r = q \o g
    PROVE  \A j \in 1..Len(r) :
              \/ j \in 1..Len(q) /\ r[j] = q[j]
              \/ /\ j > Len(q) /\ j - Len(q) \in 1..Len(g)
                 /\ r[j] = g[j - Len(q)]
OBVIOUS

LEMMA ChannelType ==
    ASSUME TypeOK, NEW s \in Sock
    PROVE  /\ net[s] \in Seq(Segment)
           /\ \A j \in 1..Len(net[s]) : net[s][j] \in Segment
BY DEF TypeOK

LEMMA CarriesMore ==
    ASSUME ConstantsOK, NEW s \in Sock, NEW g \in Segment, NEW n, NEW m \in Nat,
           NEW l \in Nat, Carries(s, g, n, m), m <= l
    PROVE  Carries(s, g, n, l)
<1> DEFINE e == g.seq + Len(g.data)
<1>1. First(s) \in Nat /\ e \in Nat
  BY DEF First, ConstantsOK, Segment
<1>2. e <= First(s) + m
  BY DEF Carries
<1> HIDE DEF e
<1>3. e <= First(s) + l
  BY <1>1, <1>2
<1> QED
  BY <1>3 DEF Carries, e

\* Some is lost, and more bytes were sent.
LEMMA InOrderLoses ==
    ASSUME ConstantsOK, NEW s \in Sock, NEW q \in Seq(Segment), NEW n, NEW m \in Nat,
           NEW l \in Nat, m <= l, NEW r, Loses(q, r), InOrder(s, q, n, m)
    PROVE  InOrder(s, r, n, l)
<1>1. PICK d \in {0, 1} :
           \A j \in 1..Len(r) : j + d \in 1..Len(q) /\ r[j] = q[j + d]
  BY LosesFacts
<1>2. ASSUME NEW j \in 1..Len(r), r[j].data # <<>>
      PROVE  Carries(s, r[j], n, l)
  <2>1. Carries(s, q[j + d], n, m) /\ q[j + d] \in Segment /\ r[j] = q[j + d]
    BY <1>1, <1>2 DEF InOrder
  <2> QED
    BY <2>1, CarriesMore
<1>3. ASSUME NEW j \in 1..Len(r), NEW k \in 1..Len(r), j < k,
             r[j].data # <<>>, r[k].data # <<>>
      PROVE  r[j].seq + Len(r[j].data) <= r[k].seq
  <2>1. /\ j + d \in 1..Len(q) /\ k + d \in 1..Len(q) /\ j + d < k + d
        /\ r[j] = q[j + d] /\ r[k] = q[k + d]
    BY <1>1, <1>3
  <2>2. \A i, h \in 1..Len(q) :
           i < h /\ q[i].data # <<>> /\ q[h].data # <<>>
           => q[i].seq + Len(q[i].data) <= q[h].seq
    BY DEF InOrder
  <2>3. q[j + d].seq + Len(q[j + d].data) <= q[k + d].seq
    BY <1>3, <2>1, <2>2
  <2> QED
    BY <2>1, <2>3
<1> QED
  BY <1>2, <1>3 DEF InOrder

\* Segments without data follow.
LEMMA InOrderAdds ==
    ASSUME ConstantsOK, NEW s \in Sock, NEW q \in Seq(Segment), NEW n, NEW m \in Nat,
           NEW g \in Seq(Segment), \A j \in 1..Len(g) : g[j].data = <<>>,
           InOrder(s, q, n, m)
    PROVE  InOrder(s, q \o g, n, m)
<1> DEFINE r == q \o g
<1>1. \A j \in 1..Len(r) : \/ j \in 1..Len(q) /\ r[j] = q[j]
                           \/ j > Len(q) /\ r[j].data = <<>>
  <2>1. \A j \in 1..Len(r) :
              \/ j \in 1..Len(q) /\ r[j] = q[j]
              \/ /\ j > Len(q) /\ j - Len(q) \in 1..Len(g)
                 /\ r[j] = g[j - Len(q)]
    BY AddsFacts
  <2> QED
    BY <2>1
<1> HIDE DEF r
<1> QED
  BY <1>1 DEF InOrder, r

\* One more segment of data, with the next l - m bytes.
LEMMA InOrderSends ==
    ASSUME ConstantsOK, NEW s \in Sock, NEW q \in Seq(Segment), NEW n \in Nat,
           NEW m \in Nat, NEW l \in Nat, m <= l, n <= m, NEW g \in Segment,
           g.seq = First(s) + m, Carries(s, g, m, l), InOrder(s, q, n, m)
    PROVE  InOrder(s, q \o <<g>>, n, l)
<1> DEFINE r == q \o <<g>>
<1>1. \A j \in 1..Len(r) : \/ j \in 1..Len(q) /\ r[j] = q[j] /\ q[j] \in Segment
                           \/ j = Len(q) + 1 /\ r[j] = g
  OBVIOUS
<1>2. First(s) \in Nat /\ Len(q) \in Nat
  BY DEF First, ConstantsOK
<1>3. Carries(s, g, n, l)
  BY <1>2 DEF Carries
<1> HIDE DEF r
<1>4. ASSUME NEW j \in 1..Len(r), r[j].data # <<>>
      PROVE  Carries(s, r[j], n, l)
  <2>1. CASE j \in 1..Len(q)
    <3>1. r[j] = q[j] /\ q[j] \in Segment /\ q[j].data # <<>>
      BY <1>1, <1>2, <1>4, <2>1
    <3>2. Carries(s, q[j], n, m)
      BY ONLY <2>1, <3>1, InOrder(s, q, n, m) DEF InOrder
    <3>3. Carries(s, q[j], n, l)
      BY <3>1, <3>2, CarriesMore
    <3> QED
      BY ONLY <3>1, <3>3
  <2> QED
    BY <1>1, <1>3, <2>1
<1>5. ASSUME NEW j \in 1..Len(r), NEW k \in 1..Len(r), j < k,
             r[j].data # <<>>, r[k].data # <<>>
      PROVE  r[j].seq + Len(r[j].data) <= r[k].seq
  <2>1. CASE k \in 1..Len(q)
    <3>1. j \in 1..Len(q) /\ r[j] = q[j] /\ r[k] = q[k]
      BY <1>1, <1>2, <1>5, <2>1
    <3>2. \A i, h \in 1..Len(q) :
             i < h /\ q[i].data # <<>> /\ q[h].data # <<>>
             => q[i].seq + Len(q[i].data) <= q[h].seq
      BY DEF InOrder
    <3> QED
      BY <1>5, <2>1, <3>1, <3>2
  <2>2. CASE k \notin 1..Len(q)
    <3>1. r[k] = g /\ j \in 1..Len(q) /\ r[j] = q[j]
      BY <1>1, <1>2, <1>5, <2>2
    <3>2. Carries(s, q[j], n, m)
      BY <1>5, <3>1 DEF InOrder
    <3> QED
      BY <3>1, <3>2 DEF Carries
  <2> QED
    BY <2>1, <2>2
<1> QED
  BY <1>4, <1>5 DEF InOrder, r

LEMMA FlowLoses ==
    ASSUME TypeOK, TypeOK', ConstantsOK, NEW s \in Sock, FlowOK(s),
           Grows(s), Grows(Peer(s)), Received(s)' = Received(s),
           Loses(net[Peer(s)], net'[Peer(s)])
    PROVE  FlowOK(s)'
<1>1. Peer(s) \in Sock /\ net[Peer(s)] \in Seq(Segment)
  BY PeerFacts, ChannelType
<1>2. sent[Peer(s)] \in Nat /\ sent'[Peer(s)] \in Nat /\ sent[Peer(s)] <= sent'[Peer(s)]
  BY <1>1, NumberType, NumberTypeNext DEF Grows
<1>3. ~Finished(s)' => InOrder(Peer(s), net[Peer(s)], Received(s), sent[Peer(s)])
  BY DEF FlowOK, Grows
<1>4. ~Finished(s)' =>
          InOrder(Peer(s), net'[Peer(s)], Received(s), sent'[Peer(s)])
  BY <1>1, <1>2, <1>3, InOrderLoses
<1> QED
  BY <1>4 DEF FlowOK

LEMMA FlowAdds ==
    ASSUME TypeOK, TypeOK', ConstantsOK, NEW s \in Sock, FlowOK(s), Grows(s),
           Received(s)' = Received(s), sent'[Peer(s)] = sent[Peer(s)],
           NEW g \in Seq(Segment), \A j \in 1..Len(g) : g[j].data = <<>>,
           net'[Peer(s)] = net[Peer(s)] \o g
    PROVE  FlowOK(s)'
<1>1. Peer(s) \in Sock /\ net[Peer(s)] \in Seq(Segment) /\ sent[Peer(s)] \in Nat
  BY PeerFacts, ChannelType, NumberType
<1>2. ~Finished(s)' => InOrder(Peer(s), net[Peer(s)], Received(s), sent[Peer(s)])
  BY DEF FlowOK, Grows
<1>3. ~Finished(s)' =>
          InOrder(Peer(s), net'[Peer(s)], Received(s), sent'[Peer(s)])
  BY <1>1, <1>2, InOrderAdds
<1> QED
  BY <1>3 DEF FlowOK

\* The SYN of a client when the backlog stays and no other SYN is sent.
SameIdle(c) ==
    /\ app[<<c, "active">>] = "idle" <=> app'[<<c, "active">>] = "idle"
    /\ app[<<c, "passive">>] = "idle" <=> app'[<<c, "passive">>] = "idle"

LEMMA SynLoses ==
    ASSUME NEW c \in Clients, SynOnce(c), SameIdle(c), UNCHANGED backlog,
           NEW q \in Seq(Segment), NEW r, q = net[<<c, "active">>],
           r = net'[<<c, "active">>], Loses(q, r)
    PROVE  SynOnce(c)'
<1>0. \E d \in {0, 1} :
          \A j \in 1..Len(r) : j + d \in 1..Len(q) /\ r[j] = q[j + d]
  BY ONLY LosesFacts, q \in Seq(Segment), Loses(q, r)
<1>1. PICK d \in {0, 1} :
           \A j \in 1..Len(r) : j + d \in 1..Len(q) /\ r[j] = q[j + d]
  BY <1>0
<1>2. \A j \in 1..Len(q) : IsSyn(q[j]) =>
              /\ app'[<<c, "active">>] # "idle"
              /\ app'[<<c, "passive">>] = "idle"
              /\ \A i \in 1..Len(backlog') : backlog'[i] # c
              /\ \A k \in 1..Len(q) : IsSyn(q[k]) => j = k
  BY DEF SynOnce, SameIdle
<1>3. ASSUME NEW j \in 1..Len(r), IsSyn(r[j])
      PROVE  /\ app'[<<c, "active">>] # "idle"
             /\ app'[<<c, "passive">>] = "idle"
             /\ \A i \in 1..Len(backlog') : backlog'[i] # c
             /\ \A k \in 1..Len(r) : IsSyn(r[k]) => j = k
  <2>1. j + d \in 1..Len(q) /\ IsSyn(q[j + d])
    BY <1>1, <1>3
  <2>2. ASSUME NEW k \in 1..Len(r), IsSyn(r[k]) PROVE j = k
    <3>1. k + d \in 1..Len(q) /\ IsSyn(q[k + d])
      BY <1>1, <2>2
    <3>2. j + d = k + d
      BY <1>2, <2>1, <3>1
    <3> QED
      BY <3>2
  <2> QED
    BY <1>2, <2>1, <2>2
<1>4. \A j \in 1..Len(backlog') : backlog'[j] = c =>
              /\ app'[<<c, "active">>] # "idle"
              /\ app'[<<c, "passive">>] = "idle"
              /\ \A k \in 1..Len(backlog') : backlog'[k] = c => j = k
  BY DEF SynOnce, SameIdle
<1>5. app'[<<c, "active">>] = "idle" => app'[<<c, "passive">>] = "idle"
  BY DEF SynOnce, SameIdle
<1> QED
  BY <1>3, <1>4, <1>5 DEF SynOnce

LEMMA SynAdds ==
    ASSUME NEW c \in Clients, SynOnce(c), SameIdle(c), UNCHANGED backlog,
           NEW q \in Seq(Segment), NEW r, q = net[<<c, "active">>],
           r = net'[<<c, "active">>], NEW g \in Seq(Segment), r = q \o g,
           \A j \in 1..Len(g) : ~IsSyn(g[j])
    PROVE  SynOnce(c)'
<1>0. \A j \in 1..Len(r) :
              \/ j \in 1..Len(q) /\ r[j] = q[j]
              \/ /\ j > Len(q) /\ j - Len(q) \in 1..Len(g)
                 /\ r[j] = g[j - Len(q)]
  BY AddsFacts
<1>1. \A j \in 1..Len(r) : IsSyn(r[j]) => j \in 1..Len(q) /\ r[j] = q[j]
  BY <1>0
<1>2. \A j \in 1..Len(q) : IsSyn(q[j]) =>
              /\ app'[<<c, "active">>] # "idle"
              /\ app'[<<c, "passive">>] = "idle"
              /\ \A i \in 1..Len(backlog') : backlog'[i] # c
              /\ \A k \in 1..Len(q) : IsSyn(q[k]) => j = k
  BY DEF SynOnce, SameIdle
<1>3. \A j \in 1..Len(r) : IsSyn(r[j]) =>
              /\ app'[<<c, "active">>] # "idle"
              /\ app'[<<c, "passive">>] = "idle"
              /\ \A i \in 1..Len(backlog') : backlog'[i] # c
              /\ \A k \in 1..Len(r) : IsSyn(r[k]) => j = k
  BY <1>1, <1>2
<1>4. \A j \in 1..Len(backlog') : backlog'[j] = c =>
              /\ app'[<<c, "active">>] # "idle"
              /\ app'[<<c, "passive">>] = "idle"
              /\ \A k \in 1..Len(backlog') : backlog'[k] = c => j = k
  BY DEF SynOnce, SameIdle
<1>5. app'[<<c, "active">>] = "idle" => app'[<<c, "passive">>] = "idle"
  BY DEF SynOnce, SameIdle
<1> QED
  BY <1>3, <1>4, <1>5 DEF SynOnce

-----------------------------------------------------------------------------
(* A step in which the sockets of A, none or one, act and send g, while    *)
(* segments of the others are received or lost.                            *)

LEMMA SynStep ==
    ASSUME Inv, NEW A \in SUBSET Sock, NEW g \in Seq(Segment),
           \A x \in Sock \ A : Loses(net[x], net'[x]),
           \A x \in A : net'[x] = net[x] \o g,
           \A j \in 1..Len(g) : ~IsSyn(g[j]),
           \A x \in Sock : app[x] = "idle" <=> app'[x] = "idle",
           UNCHANGED backlog, NEW c \in Clients
    PROVE  SynOnce(c)'
<1> DEFINE a == <<c, "active">>
<1>1. a \in Sock /\ <<c, "passive">> \in Sock /\ net[a] \in Seq(Segment)
  BY ClientSocks, ChannelType DEF Inv
<1>2. SynOnce(c) /\ SameIdle(c)
  BY <1>1 DEF Inv, SameIdle
<1>3. CASE a \notin A
  BY <1>1, <1>2, <1>3, SynLoses
<1>4. CASE a \in A
  BY <1>1, <1>2, <1>4, SynAdds
<1> QED
  BY <1>3, <1>4

LEMMA ActorStep ==
    ASSUME Inv, TypeOK', ConstantsOK,
           NEW A \in SUBSET Sock, NEW g \in Seq(Segment),
           \A x \in Sock \ A : Own(x) /\ Loses(net[x], net'[x]),
           \A x \in A : /\ Grows(x) /\ SockOK(x)' /\ FlowOK(x)'
                        /\ net'[x] = net[x] \o g,
           \A x \in A, z \in Sock : z = Peer(x) => FlowOK(z)',
           \A x \in A : \A j \in 1..Len(g) : SegOK(x, g[j])',
           \A c \in Clients : SynOnce(c)',
           AcceptOK'
    PROVE  Inv'
<1>1. \A x \in Sock : Grows(x)
  BY OwnGrows DEF Inv
<1>2. \A x \in Sock : SockOK(x)'
  BY <1>1, SockKeeps, PeerFacts DEF Inv
<1>3. ASSUME NEW x \in Sock PROVE FlowOK(x)'
  <2>1. CASE x \notin A /\ Peer(x) \notin A
    <3>1. Peer(x) \in Sock \ A
      BY <2>1, PeerFacts
    <3>2. Loses(net[Peer(x)], net'[Peer(x)])
      BY <3>1
    <3>3. Received(x)' = Received(x)
      BY <2>1 DEF Own, Received
    <3> QED
      BY <1>1, <3>1, <3>2, <3>3, FlowLoses DEF Inv
  <2>2. CASE Peer(x) \in A
    <3>1. Peer(Peer(x)) = x
      BY PeerFacts
    <3> QED
      BY <2>2, <3>1
  <2> QED
    BY <2>1, <2>2
<1>4. ASSUME NEW x \in Sock, NEW j \in 1..Len(net'[x]), NEW h, h = net'[x][j]
      PROVE  SegOK(x, h)'
  <2>1. /\ net[x] \in Seq(Segment)
        /\ \A k \in 1..Len(net[x]) : net[x][k] \in Segment /\ SegOK(x, net[x][k])
    BY ChannelType DEF Inv
  <2>2. ASSUME NEW k \in 1..Len(net[x]), h = net[x][k] PROVE SegOK(x, h)'
    <3>1. Grows(x) /\ Grows(Peer(x)) /\ h \in Segment /\ SegOK(x, h)
      BY <1>1, <2>1, <2>2, PeerFacts
    <3> QED
      BY <3>1, SegKeeps DEF Inv
  <2>3. CASE x \notin A
    <3>1. PICK d \in {0, 1} :
             \A i \in 1..Len(net'[x]) :
                i + d \in 1..Len(net[x]) /\ net'[x][i] = net[x][i + d]
      BY <2>1, <2>3, LosesFacts, ZenonT(30)
    <3>2. j + d \in 1..Len(net[x]) /\ h = net[x][j + d]
      BY <1>4, <3>1
    <3> QED
      BY <2>2, <3>2
  <2>4. CASE x \in A
    <3>1. \/ j \in 1..Len(net[x]) /\ net'[x][j] = net[x][j]
          \/ /\ j - Len(net[x]) \in 1..Len(g)
             /\ net'[x][j] = g[j - Len(net[x])]
      BY <2>1, <2>4, AddsFacts
    <3> QED
      BY <1>4, <2>2, <2>4, <3>1
  <2> QED
    BY <2>3, <2>4
<1> QED
  <2>1. ASSUME NEW x \in Sock, NEW j \in 1..Len(net'[x])
        PROVE  SegOK(x, net[x][j])'
    BY <1>4 DEF SegOK, SynOK, AckOK, FinOK, Answered, Finished, Received, First
  <2> QED
    BY <1>2, <1>3, <2>1 DEF Inv

\* Nobody acts.
LEMMA SilentStep ==
    ASSUME Inv, TypeOK', ConstantsOK,
           \A x \in Sock : Own(x) /\ Loses(net[x], net'[x]),
           \A c \in Clients : SynOnce(c)', AcceptOK'
    PROVE  Inv'
<1> DEFINE A == {}
           g == <<>>
<1>1. /\ A \in SUBSET Sock /\ g \in Seq(Segment)
      /\ \A x \in Sock \ A : Own(x) /\ Loses(net[x], net'[x])
      /\ A = {}
  OBVIOUS
<1> HIDE DEF A, g
<1> QED
  BY <1>1, ActorStep

LEMMA QuietStep ==
    ASSUME Inv, TypeOK', ConstantsOK,
           \A x \in Sock : Own(x) /\ Loses(net[x], net'[x]),
           UNCHANGED backlog, AcceptOK'
    PROVE  Inv'
<1> DEFINE A == {}
           g == <<>>
<1>1. /\ A \in SUBSET Sock /\ g \in Seq(Segment)
      /\ \A x \in Sock \ A : Loses(net[x], net'[x])
      /\ \A x \in A : net'[x] = net[x] \o g
      /\ \A j \in 1..Len(g) : ~IsSyn(g[j])
  OBVIOUS
<1> HIDE DEF A, g
<1>2. \A x \in Sock : app[x] = "idle" <=> app'[x] = "idle"
  BY DEF Own
<1>3. \A c \in Clients : SynOnce(c)'
  BY <1>1, <1>2, SynStep
<1> QED
  BY <1>3, SilentStep

\* The channels after a socket sends, or answers an arriving segment.
LEMMA TransmitFacts ==
    ASSUME TypeOK, NEW s \in Sock, NEW g \in Seq(Segment), Transmit(s, g)
    PROVE  /\ net' \in [Sock -> Seq(Segment)]
           /\ net'[s] = net[s] \o g
           /\ \A x \in Sock \ {s} : net'[x] = net[x] /\ Loses(net[x], net'[x])
<1>1. net \in [Sock -> Seq(Segment)]
  BY DEF TypeOK
<1>2. net[s] \o g \in Seq(Segment)
  BY <1>1
<1>3. net' = [net EXCEPT ![s] = net[s] \o g]
  BY DEF Transmit
<1> QED
  BY <1>1, <1>2, <1>3 DEF Loses

LEMMA AnswerFacts ==
    ASSUME TypeOK, NEW s \in Sock, NEW g \in Seq(Segment), Arrives(s), Answer(s, g)
    PROVE  /\ net' \in [Sock -> Seq(Segment)]
           /\ net'[s] = net[s] \o g
           /\ net'[Peer(s)] = Tail(net[Peer(s)])
           /\ \A x \in Sock \ {s} : Loses(net[x], net'[x])
           /\ \A x \in Sock \ {s, Peer(s)} : net'[x] = net[x]
<1>1. net \in [Sock -> Seq(Segment)] /\ Peer(s) \in Sock /\ Peer(s) # s
  BY PeerFacts DEF TypeOK
<1>2. net[s] \o g \in Seq(Segment)
  BY <1>1
<1>3. net[Peer(s)] # <<>> /\ net[Peer(s)] \in Seq(Segment)
  BY <1>1 DEF Arrives
<1>4. Tail(net[Peer(s)]) \in Seq(Segment)
  BY <1>3
<1>5. net' = [net EXCEPT ![Peer(s)] = Tail(net[Peer(s)]), ![s] = net[s] \o g]
  BY <1>1 DEF Answer
<1> QED
  BY <1>1, <1>2, <1>3, <1>4, <1>5 DEF Loses

\* What is known of an arriving segment.
LEMMA ArrivedFacts ==
    ASSUME Inv, NEW s \in Sock, Arrives(s)
    PROVE  /\ Arrived(s) \in Segment
           /\ SegOK(Peer(s), Arrived(s))
           /\ 1 \in 1..Len(net[Peer(s)]) /\ Arrived(s) = net[Peer(s)][1]
<1>1. Peer(s) \in Sock /\ net[Peer(s)] # <<>> /\ net[Peer(s)] \in Seq(Segment)
  BY PeerFacts, ChannelType DEF Inv, Arrives
<1>2. 1 \in 1..Len(net[Peer(s)]) /\ Arrived(s) = net[Peer(s)][1]
  BY <1>1 DEF Arrived
<1>3. SegOK(Peer(s), net[Peer(s)][1])
  BY <1>1, <1>2 DEF Inv
<1> QED
  BY <1>1, <1>2, <1>3

-----------------------------------------------------------------------------
(* The actions in which no socket acts.                                    *)

LEMMA UserQuiet ==
    ASSUME Inv, ConstantsOK, UNCHANGED <<tcb, net, app, sent, backlog, accepting>>,
           TypeOK', \A s \in Sock : Stream(s)' = Stream(s), table' \subseteq table
    PROVE  Inv'
<1>1. \A x \in Sock : Own(x) /\ Loses(net[x], net'[x])
  BY DEF Own, Loses
<1>2. AcceptOK'
  BY DEF Inv, AcceptOK
<1> QED
  BY <1>1, <1>2, QuietStep

LEMMA ListenerInv ==
    ASSUME Inv, ConstantsOK, Bind \/ Listen \/ CloseListener
    PROVE  Inv'
<1>1. TypeOK'
  BY DEF Inv, TypeOK, Bind, Listen, CloseListener, userVars
<1>2. /\ UNCHANGED <<tcb, net, app, sent, backlog, accepting>>
      /\ \A s \in Sock : Stream(s)' = Stream(s)
      /\ table' \subseteq table
  BY DEF Bind, Listen, CloseListener, userVars, Stream
<1> QED
  BY <1>1, <1>2, UserQuiet

\* recieve() moves bytes from the buffer to the application.
LEMMA StreamReads ==
    ASSUME Inv, NEW s \in Sock, RecieveReturns(s), NEW x \in Sock
    PROVE  Stream(x)' = Stream(x)
<1>1. /\ got \in [Sock -> Seq(Nat)] /\ inBuffer \in [Sock -> Seq(Nat)]
  BY DEF Inv, TypeOK
<1>2. /\ got' = [got EXCEPT ![s] = got[s] \o inBuffer[s]]
      /\ inBuffer' = [inBuffer EXCEPT ![s] = <<>>]
  BY DEF RecieveReturns
<1>3. CASE x = s
  <2>1. Stream(x)' = Stream(x) \o <<>>
    BY <1>1, <1>2, <1>3 DEF Stream
  <2>2. Stream(x) \in Seq(Nat)
    BY StreamType DEF Inv
  <2> QED
    BY <2>1, <2>2
<1>4. CASE x # s
  BY <1>1, <1>2, <1>4 DEF Stream
<1> QED
  BY <1>3, <1>4

LEMMA RecieveInv ==
    ASSUME Inv, ConstantsOK, NEW s \in Sock, RecieveCall(s) \/ RecieveReturns(s)
    PROVE  Inv'
<1>1. CASE RecieveCall(s)
  <2>1. TypeOK'
    BY <1>1 DEF Inv, TypeOK, RecieveCall, serverVars
  <2>2. /\ UNCHANGED <<tcb, net, app, sent, backlog, accepting>>
        /\ \A x \in Sock : Stream(x)' = Stream(x)
        /\ table' \subseteq table
    BY <1>1 DEF RecieveCall, serverVars, Stream
  <2> QED
    BY <2>1, <2>2, UserQuiet
<1>2. CASE RecieveReturns(s)
  <2>1. /\ got \in [Sock -> Seq(Nat)] /\ inBuffer \in [Sock -> Seq(Nat)]
        /\ got[s] \o inBuffer[s] \in Seq(Nat) /\ <<>> \in Seq(Nat)
    BY DEF Inv, TypeOK
  <2>2. /\ got' = [got EXCEPT ![s] = got[s] \o inBuffer[s]]
        /\ inBuffer' = [inBuffer EXCEPT ![s] = <<>>]
    BY <1>2 DEF RecieveReturns
  <2>3. got' \in [Sock -> Seq(Nat)] /\ inBuffer' \in [Sock -> Seq(Nat)]
    BY <2>1, <2>2
  <2>4. TypeOK'
    BY <1>2, <2>3 DEF Inv, TypeOK, RecieveReturns, serverVars
  <2>5. \A x \in Sock : Stream(x)' = Stream(x)
    BY <1>2, StreamReads
  <2>6. UNCHANGED <<tcb, net, app, sent, backlog, accepting>> /\ table' \subseteq table
    BY <1>2 DEF RecieveReturns, serverVars
  <2> QED
    BY <2>4, <2>5, <2>6, UserQuiet
<1> QED
  BY <1>1, <1>2

LEMMA TimeWaitInv ==
    ASSUME Inv, ConstantsOK, NEW s \in Sock, TimeWaitOver(s)
    PROVE  Inv'
<1>1. TypeOK'
  BY DEF Inv, TypeOK, TimeWaitOver, serverVars, userVars
<1>2. /\ UNCHANGED <<tcb, net, app, sent, backlog, accepting>>
      /\ \A x \in Sock : Stream(x)' = Stream(x)
      /\ table' \subseteq table
  BY DEF TimeWaitOver, serverVars, userVars, Stream
<1> QED
  BY <1>1, <1>2, UserQuiet

\* A segment is lost, or received and ignored.
LEMMA IgnoredInv ==
    ASSUME Inv, ConstantsOK, NEW s \in Sock,
           RcvNoSocket(s) \/ RcvOutOfWindow(s) \/ Lose(s)
    PROVE  Inv'
<1>1. /\ UNCHANGED <<tcb, inBuffer, readable, table, timer, serverVars, userVars>>
      /\ net' \in [Sock -> Seq(Segment)]
      /\ \A x \in Sock : Loses(net[x], net'[x])
  <2>1. CASE Lose(s)
    <3>1. net \in [Sock -> Seq(Segment)]
      BY DEF Inv, TypeOK
    <3>2. net[s] # <<>> /\ Tail(net[s]) \in Seq(Segment)
      BY <2>1, <3>1 DEF Lose
    <3>3. net' = [net EXCEPT ![s] = Tail(net[s])]
      BY <2>1 DEF Lose
    <3>4. UNCHANGED <<tcb, inBuffer, readable, table, timer, serverVars, userVars>>
      BY <2>1 DEF Lose
    <3> QED
      BY <3>1, <3>2, <3>3, <3>4 DEF Loses
  <2>2. CASE RcvNoSocket(s) \/ RcvOutOfWindow(s)
    <3>1. /\ UNCHANGED <<tcb, inBuffer, readable, table, timer, serverVars, userVars>>
          /\ Arrives(s) /\ Answer(s, <<>>)
      BY <2>2 DEF RcvNoSocket, RcvOutOfWindow
    <3>2. <<>> \in Seq(Segment)
      OBVIOUS
    <3>3. /\ net' \in [Sock -> Seq(Segment)]
          /\ net'[s] = net[s] \o <<>>
          /\ \A x \in Sock \ {s} : Loses(net[x], net'[x])
      BY <3>1, <3>2, AnswerFacts DEF Inv
    <3>4. net[s] \in Seq(Segment)
      BY ChannelType DEF Inv
    <3>5. net'[s] = net[s]
      BY <3>3, <3>4
    <3> QED
      BY <3>1, <3>3, <3>5 DEF Loses
  <2> QED
    BY <2>1, <2>2
<1>2. TypeOK'
  BY <1>1 DEF Inv, TypeOK, serverVars, userVars
<1>3. \A x \in Sock : Own(x)
  BY <1>1 DEF Own, Stream, serverVars, userVars
<1>4. UNCHANGED backlog /\ AcceptOK'
  BY <1>1 DEF Inv, AcceptOK, serverVars, userVars
<1> QED
  BY <1>1, <1>2, <1>3, <1>4, QuietStep

-----------------------------------------------------------------------------
(* The actions in which a socket answers an arriving segment.              *)

LEMMA ReplyStep ==
    ASSUME Inv, TypeOK', ConstantsOK, NEW s \in Sock, NEW g \in Seq(Segment),
           Arrives(s), Answer(s, g),
           \A x \in Sock \ {s} : Own(x),
           Grows(s), SockOK(s)', Received(s)' = Received(s) \/ FlowOK(s)',
           \A j \in 1..Len(g) : /\ g[j].data = <<>> /\ ~IsSyn(g[j])
                                /\ SegOK(s, g[j])',
           UNCHANGED <<backlog, accepting, app, sent>>
    PROVE  Inv'
<1> DEFINE p == Peer(s)
<1>1. p \in Sock /\ p # s /\ Peer(p) = s
  BY PeerFacts
<1>2. /\ net'[s] = net[s] \o g
      /\ \A x \in Sock \ {s} : Loses(net[x], net'[x])
  BY AnswerFacts DEF Inv
<1>3. \A x \in Sock : Grows(x)
  BY OwnGrows DEF Inv
<1>4. FlowOK(s)'
  <2>1. CASE Received(s)' = Received(s)
    BY <1>1, <1>2, <1>3, <2>1, FlowLoses DEF Inv
  <2> QED
    BY <2>1
<1>5. FlowOK(p)'
  <2>1. Received(p)' = Received(p) /\ sent'[s] = sent[s]
    BY <1>1 DEF Own, Received
  <2> QED
    BY <1>1, <1>2, <1>3, <2>1, FlowAdds DEF Inv
<1>6. \A x \in Sock : app[x] = "idle" <=> app'[x] = "idle"
  OBVIOUS
<1>7. AcceptOK'
  BY DEF Inv, AcceptOK
<1> DEFINE A == {s}
<1>81. \A x \in A : SockOK(x)'
  BY ONLY SockOK(s)' DEF SockOK, IdleOK, SendOK, RecvOK, StateOK, Received,
     Finished, Answered, First, HandshakeOK
<1>82. \A x \in A : FlowOK(x)'
  BY ONLY <1>4 DEF FlowOK, Received, Finished, InOrder, Carries, First
<1>8. /\ A \in SUBSET Sock
      /\ \A x \in Sock \ A : Own(x) /\ Loses(net[x], net'[x])
      /\ \A x \in A : /\ Grows(x) /\ SockOK(x)' /\ FlowOK(x)'
                       /\ net'[x] = net[x] \o g
  BY <1>2, <1>3, <1>81, <1>82
<1>9. \A x \in A, z \in Sock : z = Peer(x) => FlowOK(z)'
  BY ONLY <1>5 DEF FlowOK, Received, Finished, InOrder, Carries, First
<1>10. \A x \in A : \A j \in 1..Len(g) : SegOK(x, g[j])'
  BY DEF SegOK, SynOK, AckOK, FinOK, Answered, Finished, Received, First
<1> HIDE DEF A
<1>11. \A c \in Clients : SynOnce(c)'
  BY <1>6, <1>8, SynStep
<1> QED
  BY <1>7, <1>8, <1>9, <1>10, <1>11, ActorStep

LEMMA RefusedInv ==
    ASSUME Inv, ConstantsOK, NEW c \in Clients, RcvSynRefused(c)
    PROVE  Inv'
<1> DEFINE s == <<c, "passive">>
           seg == Arrived(s)
<1>0. PICK g : g = IF Reset(seg).ack <= MaxSeq THEN <<Reset(seg)>> ELSE <<>>
  OBVIOUS
<1>1. s \in Sock /\ Peer(s) = <<c, "active">> /\ Peer(s) \in Sock /\ Peer(Peer(s)) = s
  BY ClientSocks
<1>2. /\ Arrives(s) /\ IsSyn(seg) /\ Answer(s, g)
      /\ UNCHANGED <<tcb, inBuffer, readable, table, timer, serverVars, userVars>>
  BY <1>0 DEF RcvSynRefused
<1>3. seg \in Segment /\ SegOK(Peer(s), seg)
  BY <1>1, <1>2, ArrivedFacts
<1>4. seg.flags = {"SYN"} /\ seg.seq = ISS[Peer(s)] /\ seg.data = <<>>
  BY <1>2, <1>3 DEF SegOK, SynOK, IsSyn
<1>5. SegLen(seg) = 1
  BY <1>3, <1>4, SegLenNat
<1>6. ISS[Peer(s)] \in Nat /\ MaxSeq \in Nat
  BY <1>1 DEF ConstantsOK
<1>7. Reset(seg).ack = First(Peer(s)) /\ Reset(seg).ack \in Nat
  BY <1>4, <1>5, <1>6 DEF Reset, First
<1>8. Reset(seg).ack <= MaxSeq => Reset(seg) \in Segment
  <2> DEFINE k == seg.seq + SegLen(seg)
  <2>1. Reset(seg) = [flags |-> {"RST", "ACK"}, seq |-> 0, ack |-> k, data |-> <<>>]
    BY DEF Reset
  <2>2. {"RST", "ACK"} \in SUBSET Flags /\ 0 \in 0..MaxSeq /\ <<>> \in Seq(Nat)
    BY <1>6 DEF Flags
  <2>3. k = Reset(seg).ack
    BY DEF Reset
  <2> HIDE DEF seg, k
  <2> QED
    BY <1>6, <1>7, <2>1, <2>2, <2>3 DEF Segment
<1>9. /\ g \in Seq(Segment)
      /\ \A j \in 1..Len(g) : g[j] = Reset(seg)
  <2>1. CASE Reset(seg).ack <= MaxSeq
    BY <1>0, <1>8, <2>1
  <2>2. CASE ~(Reset(seg).ack <= MaxSeq)
    BY <1>0, <2>2
  <2> QED
    BY <2>1, <2>2
<1>10. net' \in [Sock -> Seq(Segment)]
  <2> HIDE DEF s
  <2> QED
    BY <1>1, <1>2, <1>9, AnswerFacts DEF Inv
<1>11. TypeOK'
  BY <1>2, <1>10 DEF Inv, TypeOK, serverVars, userVars
<1>12. \A x \in Sock : Own(x)
  BY <1>2 DEF Own, Stream, serverVars, userVars
<1>13. \A x \in Sock : Grows(x)
  BY <1>12, OwnGrows DEF Inv
<1>14. SockOK(s)'
  <2> HIDE DEF s
  <2> QED
    BY <1>1, <1>11, <1>12, <1>13, SockKeeps DEF Inv
<1>15. Received(s)' = Received(s) /\ Received(s) \in Nat
  <2> HIDE DEF s
  <2> QED
    BY <1>1, <1>12, StreamType DEF Own, Received, Inv
<1>16. \A h : h = Reset(seg) => h.data = <<>> /\ ~IsSyn(h) /\ SegOK(s, h)'
  <2> SUFFICES ASSUME NEW h, h = Reset(seg)
               PROVE  h.data = <<>> /\ ~IsSyn(h) /\ SegOK(s, h)'
    OBVIOUS
  <2>1. /\ h.flags = {"RST", "ACK"} /\ h.data = <<>>
        /\ h.ack = First(Peer(s))
    BY <1>7 DEF Reset
  <2>2. SynOK(s, h)' /\ FinOK(s, h)' /\ ~IsSyn(h)
    BY <2>1 DEF SynOK, FinOK, IsSyn
  <2>3. First(Peer(s)) \in Nat /\ s[2] # "active"
    BY <1>6 DEF First
  <2>4. AckOK(s, h)'
    <3> HIDE DEF s
    <3> QED
      BY <1>15, <2>1, <2>3 DEF AckOK, First
  <2> QED
    BY <2>1, <2>2, <2>4 DEF SegOK
<1>17. \A j \in 1..Len(g) : g[j].data = <<>> /\ ~IsSyn(g[j]) /\ SegOK(s, g[j])'
  BY <1>9, <1>16
<1>18. UNCHANGED <<backlog, accepting, app, sent>>
  BY <1>2 DEF serverVars, userVars
<1> HIDE DEF s
<1> QED
  BY <1>1, <1>2, <1>9, <1>11, <1>12, <1>13, <1>14, <1>15, <1>17, <1>18, ReplyStep

\* The type invariant and the other sockets when the fields of s become u.
LEMMA FieldsType ==
    ASSUME TypeOK, NEW s \in Sock, NEW u \in Tcb, NEW g \in Seq(Segment),
           tcb' = [tcb EXCEPT ![s] = u], Arrives(s), Answer(s, g),
           UNCHANGED <<inBuffer, readable, serverVars, userVars>>,
           table' \subseteq table, timer' \subseteq Sock
    PROVE  /\ TypeOK' /\ tcb'[s] = u
           /\ \A x \in Sock \ {s} : Own(x)
           /\ \A x \in Sock : Stream(x)' = Stream(x) /\ Received(x)' = Received(x)
           /\ UNCHANGED <<backlog, accepting, app, sent>>
<1>1. tcb \in [Sock -> Tcb] /\ tcb' \in [Sock -> Tcb]
  BY DEF TypeOK, Tcb
<1>2. net' \in [Sock -> Seq(Segment)]
  BY AnswerFacts
<1>3. TypeOK'
  BY <1>1, <1>2 DEF TypeOK, Tcb, serverVars, userVars
<1>4. \A x \in Sock : Stream(x)' = Stream(x) /\ Received(x)' = Received(x)
  BY DEF Stream, Received, userVars
<1>5. \A x \in Sock \ {s} : Own(x)
  BY <1>1, <1>4 DEF Own, userVars
<1> QED
  BY <1>1, <1>3, <1>4, <1>5 DEF serverVars, userVars

\* The facts of a socket whose fields and stream change.
LEMMA SockMoves ==
    ASSUME Inv, TypeOK', ConstantsOK, NEW s \in Sock, app[s] # "idle",
           app' = app, sent' = sent, Grows(s), Own(Peer(s)),
           tcb'[s].sndNxt = tcb[s].sndNxt \/ Finished(Peer(s)),
           ~Finished(s)' => tcb'[s].sndUna <= First(s) + Received(Peer(s)),
           tcb'[s].state \in {"SYN-RECEIVED", "ESTABLISHED"} =>
               /\ First(Peer(s)) <= tcb'[s].rcvNxt
               /\ tcb'[s].rcvNxt <= First(Peer(s)) + Received(s)',
           tcb'[s].rcvNxt <= MaxSeq,
           tcb'[s].rcvNxt # tcb[s].rcvNxt => tcb'[s].rcvNxt # -1,
           \A i \in 1..Received(s)' : Stream(s)'[i] = i,
           Received(s)' <= sent[Peer(s)],
           StateOK(s)'
    PROVE  SockOK(s)'
<1> DEFINE p == Peer(s)
<1>1. p \in Sock
  BY PeerFacts
<1>2. Received(p)' = Received(p)
  BY DEF Own, Received
<1>3. Finished(p) => Finished(p)'
  BY DEF Own, Finished
<1>4. SockOK(s)
  BY DEF Inv
<1>5. tcb[s].sndUna \in Nat /\ tcb'[s].sndUna \in Nat /\ ISS[s] \in Nat
  BY NumberType, NumberTypeNext DEF Inv
<1>6. IdleOK(s)'
  BY DEF IdleOK
<1>7. SendOK(s)'
  <2>1. app[s] \in {"connecting", "accepting", "open"} =>
           tcb[s].sndNxt = First(s) + sent[s] \/ Finished(p)
    BY <1>4 DEF SockOK, SendOK
  <2>2. ISS[s] <= tcb'[s].sndUna
    BY <1>4, <1>5 DEF SockOK, SendOK, Grows
  <2> QED
    BY <1>2, <1>3, <2>1, <2>2 DEF SendOK, First
<1>8. RecvOK(s)'
  <2>1. app[s] = "open" => tcb[s].rcvNxt # -1
    BY <1>4 DEF SockOK, RecvOK
  <2> QED
    BY <2>1 DEF RecvOK, First
<1> QED
  BY <1>6, <1>7, <1>8 DEF SockOK

\* The fields of s once the acknowledgment number is taken into account.
LEMMA AckedFacts ==
    ASSUME Inv, ConstantsOK, NEW s \in Sock, Passes(s), NEW u, u = Acked(s)
    PROVE  /\ u \in Tcb /\ tcb[s] \in Tcb
           /\ u.state = tcb[s].state /\ u.rcvNxt = tcb[s].rcvNxt
           /\ u.sndNxt = tcb[s].sndNxt
           /\ tcb[s].sndUna <= u.sndUna
           /\ ~Finished(s) => u.sndUna <= First(s) + Received(Peer(s))
           /\ app[s] # "idle"
           /\ Arrives(s) /\ Arrived(s) \in Segment
           /\ SegOK(Peer(s), Arrived(s)) /\ SockOK(s)
           /\ Peer(s) \in Sock /\ Peer(s) # s /\ Peer(Peer(s)) = s
<1> DEFINE g == Arrived(s)
<1>1. Arrives(s) /\ s \in table
  BY DEF Passes
<1>2. g \in Segment /\ SegOK(Peer(s), g) /\ SockOK(s) /\ tcb[s] \in Tcb
  BY <1>1, ArrivedFacts, TcbOfSock DEF Inv
<1>3. Peer(s) \in Sock /\ Peer(s) # s /\ Peer(Peer(s)) = s
  BY PeerFacts
<1>4. app[s] # "idle"
  BY <1>1, <1>2 DEF SockOK, IdleOK
<1>5. u = ProcessAck(tcb[s], g)
  BY DEF Acked
<1> HIDE DEF g
<1>6. /\ u \in Tcb
      /\ u.state = tcb[s].state /\ u.rcvNxt = tcb[s].rcvNxt /\ u.sndNxt = tcb[s].sndNxt
      /\ u.sndUna # tcb[s].sndUna =>
            u.sndUna = g.ack /\ tcb[s].sndUna < g.ack /\ "ACK" \in g.flags
  BY <1>2, <1>5, ProcessAckFields
<1>7. tcb[s].sndUna \in Nat /\ g.ack \in Nat
  BY <1>2 DEF Tcb, Segment
<1>8. tcb[s].sndUna <= u.sndUna
  BY <1>6, <1>7
<1>9. ~Finished(s) => u.sndUna <= First(s) + Received(Peer(s))
  BY <1>2, <1>3, <1>6 DEF SegOK, AckOK, SockOK, SendOK
<1> QED
  BY <1>1, <1>2, <1>3, <1>4, <1>6, <1>8, <1>9 DEF g

\* An acknowledgment s sends.
LEMMA AckSegOK ==
    ASSUME ConstantsOK, NEW s \in Sock, NEW g, "ACK" \in g.flags,
           g.data = <<>>, "SYN" \notin g.flags,
           Finished(Peer(s))' \/ g.ack <= First(Peer(s)) + Received(s)',
           s[2] = "active" => Answered(s)',
           "FIN" \in g.flags => Finished(s)'
    PROVE  SegOK(s, g)' /\ ~IsSyn(g)
<1>1. First(Peer(s))' = First(Peer(s))
  BY DEF First
<1> QED
  BY <1>1 DEF SegOK, SynOK, AckOK, FinOK, IsSyn

\* s answers with segments without data while its fields become u.
LEMMA FieldsStep ==
    ASSUME Inv, ConstantsOK, NEW s \in Sock, app[s] # "idle",
           NEW u \in Tcb, NEW g \in Seq(Segment),
           tcb' = [tcb EXCEPT ![s] = u], Arrives(s), Answer(s, g),
           UNCHANGED <<inBuffer, readable, serverVars, userVars>>,
           table' \subseteq table, timer' \subseteq Sock,
           u.sndNxt = tcb[s].sndNxt \/ Finished(Peer(s)),
           tcb[s].sndUna <= u.sndUna,
           u.state \in Taking => /\ tcb[s].state \in Taking
                                 /\ u.sndUna <= First(s) + Received(Peer(s)),
           u.state \in {"SYN-RECEIVED", "ESTABLISHED"} =>
               /\ First(Peer(s)) <= u.rcvNxt
               /\ u.rcvNxt <= First(Peer(s)) + Received(s),
           u.rcvNxt <= MaxSeq,
           u.rcvNxt # tcb[s].rcvNxt => u.rcvNxt # -1,
           HandshakeOK(s, u),
           \A j \in 1..Len(g) :
               /\ g[j].data = <<>> /\ "ACK" \in g[j].flags /\ "SYN" \notin g[j].flags
               /\ Finished(Peer(s)) \/ g[j].ack <= First(Peer(s)) + Received(s)
               /\ s[2] = "active" => app[s] = "closed" \/ u.sndUna > ISS[s]
               /\ "FIN" \in g[j].flags => u.state \notin Taking
    PROVE  Inv'
<1> DEFINE p == Peer(s)
<1>1. p \in Sock /\ p # s /\ SockOK(s)
  BY PeerFacts DEF Inv
<1>2. /\ TypeOK' /\ tcb'[s] = u
      /\ \A x \in Sock \ {s} : Own(x)
      /\ \A x \in Sock : Stream(x)' = Stream(x) /\ Received(x)' = Received(x)
      /\ UNCHANGED <<backlog, accepting, app, sent>>
  BY FieldsType DEF Inv
<1>3. /\ Finished(s)' <=> u.state \notin Taking
      /\ Finished(s) => Finished(s)'
  BY <1>2 DEF Finished
<1>4. Received(s) \in Nat /\ sent[s] \in Nat
  BY StreamType, NumberType DEF Inv
<1>5. Grows(s)
  BY <1>2, <1>3, <1>4 DEF Grows
<1>6. Own(p) /\ (Finished(p) => Finished(p)') /\ (Answered(p) <=> Answered(p)')
  BY <1>1, <1>2 DEF Own, Finished, Answered
<1>7. StateOK(s)'
  BY <1>2, <1>6 DEF StateOK, HandshakeOK
<1>8. SockOK(s)'
  <2>1. /\ \A i \in 1..Received(s) : Stream(s)[i] = i
        /\ Received(s) <= sent[p]
    BY <1>1 DEF SockOK, RecvOK
  <2> QED
    BY <1>2, <1>3, <1>5, <1>6, <1>7, <2>1, SockMoves
<1>9. ASSUME NEW j \in 1..Len(g), NEW h, h = g[j]
      PROVE  h.data = <<>> /\ ~IsSyn(h) /\ SegOK(s, h)'
  <2>1. Finished(p)' \/ h.ack <= First(p) + Received(s)'
    BY <1>2, <1>6, <1>9
  <2>2. s[2] = "active" => Answered(s)'
    BY <1>2, <1>9 DEF Answered
  <2>3. "FIN" \in h.flags => Finished(s)'
    BY <1>3, <1>9
  <2> QED
    BY <1>9, <2>1, <2>2, <2>3, AckSegOK
<1>10. \A j \in 1..Len(g) : g[j].data = <<>> /\ ~IsSyn(g[j]) /\ SegOK(s, g[j])'
  BY <1>9
<1> QED
  BY <1>2, <1>5, <1>8, <1>10, ReplyStep

LEMMA ResetInv ==
    ASSUME Inv, ConstantsOK, NEW s \in Sock, RcvReset(s)
    PROVE  Inv'
<1>1. PICK g : g = <<>>
  OBVIOUS
<1>2. g \in Seq(Segment) /\ \A j \in 1..Len(g) : FALSE
  BY <1>1
<1>3. PICK u : u = [tcb[s] EXCEPT !.state = "CLOSED"]
  OBVIOUS
<1>4. tcb[s] \in Tcb /\ SockOK(s) /\ s \in table
  BY TcbOfSock DEF Inv, RcvReset
<1>5. /\ u \in Tcb /\ u.state = "CLOSED" /\ u.sndUna = tcb[s].sndUna
      /\ u.sndNxt = tcb[s].sndNxt /\ u.rcvNxt = tcb[s].rcvNxt
  BY <1>3, <1>4 DEF Tcb, States
<1>6. /\ tcb' = [tcb EXCEPT ![s] = u]
      /\ Arrives(s) /\ Answer(s, g)
      /\ UNCHANGED <<inBuffer, readable, serverVars, userVars>>
      /\ table' \subseteq table /\ timer' \subseteq Sock
  BY <1>1, <1>3 DEF RcvReset, Inv, TypeOK
<1>7. app[s] # "idle" /\ tcb[s].rcvNxt <= MaxSeq /\ tcb[s].sndUna \in Nat
  BY <1>4, NumberType DEF SockOK, IdleOK, RecvOK, Inv
<1>8. HandshakeOK(s, u) /\ u.state \notin Taking
  BY <1>5 DEF HandshakeOK, Taking
<1>9. tcb[s].sndUna <= u.sndUna
  BY <1>5, <1>7
<1> QED
  BY <1>2, <1>5, <1>6, <1>7, <1>8, <1>9, FieldsStep DEF Taking

LEMMA NoAnswerInv ==
    ASSUME Inv, ConstantsOK, NEW s \in Sock, RcvNoAnswer(s)
    PROVE  Inv'
<1> DEFINE p == Peer(s)
           seg == Arrived(s)
<1>1. PICK g : g = <<>>
  OBVIOUS
<1>2. g \in Seq(Segment) /\ \A j \in 1..Len(g) : FALSE
  BY <1>1
<1>3. Passes(s)
  BY DEF RcvNoAnswer
<1>4. PICK t : t = Acked(s)
  OBVIOUS
<1>5. PICK m : m = MoveOn(s)
  OBVIOUS
<1>6. PICK u : u = [t EXCEPT !.state = m]
  OBVIOUS
<1>7. /\ t \in Tcb /\ tcb[s] \in Tcb
      /\ t.state = tcb[s].state /\ t.rcvNxt = tcb[s].rcvNxt
      /\ t.sndNxt = tcb[s].sndNxt
      /\ tcb[s].sndUna <= t.sndUna
      /\ ~Finished(s) => t.sndUna <= First(s) + Received(Peer(s))
      /\ app[s] # "idle"
      /\ Arrives(s) /\ Arrived(s) \in Segment
      /\ SegOK(Peer(s), Arrived(s)) /\ SockOK(s)
      /\ Peer(s) \in Sock /\ Peer(s) # s /\ Peer(Peer(s)) = s
  BY <1>3, <1>4, AckedFacts
<1>8. \/ m = tcb[s].state
      \/ tcb[s].state = "SYN-SENT" /\ m = "CLOSED"
      \/ tcb[s].state = "SYN-RECEIVED" /\ m = "ESTABLISHED" /\ "ACK" \in seg.flags
      \/ tcb[s].state = "FIN-WAIT-1" /\ m = "FIN-WAIT-2"
      \/ tcb[s].state = "LAST-ACK" /\ m = "CLOSED"
  BY <1>5 DEF MoveOn, Has
<1>9. m \in States
  BY <1>7, <1>8 DEF States, Tcb
<1>10. /\ u \in Tcb /\ u.state = m /\ u.sndUna = t.sndUna
       /\ u.sndNxt = t.sndNxt /\ u.rcvNxt = t.rcvNxt
  BY <1>6, <1>7, <1>9 DEF Tcb
<1>11. /\ tcb' = [tcb EXCEPT ![s] = u] /\ Answer(s, g)
       /\ UNCHANGED <<inBuffer, readable, serverVars, userVars>>
       /\ table' \subseteq table /\ timer' \subseteq Sock
  BY <1>1, <1>4, <1>5, <1>6 DEF RcvNoAnswer, Inv, TypeOK
<1>12. HandshakeOK(s, tcb[s]) /\ RecvOK(s)
  BY <1>7 DEF SockOK, StateOK
<1>13. tcb[s].state = "SYN-RECEIVED" /\ "ACK" \in seg.flags => Answered(p)
  <2>1. tcb[s].state = "SYN-RECEIVED" => s[2] = "passive"
    BY <1>12 DEF HandshakeOK
  <2>2. s[2] = "passive" => p[2] = "active"
    BY DEF Peer
  <2> QED
    BY <1>7, <2>1, <2>2 DEF SegOK, AckOK
<1>14. HandshakeOK(s, u)
  <2>1. /\ u.state = "SYN-SENT" => tcb[s].state = "SYN-SENT"
        /\ u.state = "SYN-RECEIVED" => tcb[s].state = "SYN-RECEIVED"
        /\ u.state \in {"FIN-WAIT-1", "FIN-WAIT-2", "TIME-WAIT"} =>
              tcb[s].state \in {"FIN-WAIT-1", "FIN-WAIT-2", "TIME-WAIT"}
        /\ u.state \in {"ESTABLISHED", "CLOSE-WAIT", "LAST-ACK"} =>
              \/ tcb[s].state \in {"ESTABLISHED", "CLOSE-WAIT", "LAST-ACK"}
              \/ tcb[s].state = "SYN-RECEIVED"
        /\ u.state = "ESTABLISHED" =>
              \/ tcb[s].state = "ESTABLISHED"
              \/ tcb[s].state = "SYN-RECEIVED" /\ "ACK" \in seg.flags
    BY <1>8, <1>10
  <2>2. tcb[s].sndUna \in Nat /\ u.sndUna \in Nat /\ ISS[s] \in Nat
    BY <1>7, <1>10, NumberType DEF Inv, Tcb
  <2>3. u.sndNxt = tcb[s].sndNxt /\ tcb[s].sndUna <= u.sndUna
    BY <1>7, <1>10
  <2> QED
    BY <1>12, <1>13, <2>1, <2>2, <2>3 DEF HandshakeOK
<1>15. u.state \in Taking => /\ tcb[s].state \in Taking
                             /\ u.sndUna <= First(s) + Received(p)
  <2>1. u.state \in Taking => tcb[s].state \in Taking
    BY <1>8, <1>10 DEF Taking
  <2> QED
    BY <1>7, <1>10, <2>1 DEF Finished
<1>16. u.state \in {"SYN-RECEIVED", "ESTABLISHED"} =>
               /\ First(p) <= u.rcvNxt
               /\ u.rcvNxt <= First(p) + Received(s)
  <2>1. u.state \in {"SYN-RECEIVED", "ESTABLISHED"} =>
           tcb[s].state \in {"SYN-RECEIVED", "ESTABLISHED"}
    BY <1>8, <1>10
  <2> QED
    BY <1>7, <1>10, <1>12, <2>1 DEF RecvOK
<1>17. u.rcvNxt <= MaxSeq
  BY <1>7, <1>10, <1>12 DEF RecvOK
<1> QED
  BY <1>2, <1>7, <1>10, <1>11, <1>14, <1>15, <1>16, <1>17, FieldsStep

LEMMA SynAckInv ==
    ASSUME Inv, ConstantsOK, NEW s \in Sock, RcvSynAck(s)
    PROVE  Inv'
<1> DEFINE p == Peer(s)
<1>1. PICK seg : seg = Arrived(s)
  OBVIOUS
<1>2. PICK t : t = Acked(s)
  OBVIOUS
<1>3. Passes(s) /\ SynAckDue(s) /\ CanAck(t, seg)
  BY <1>1, <1>2 DEF RcvSynAck
<1>4. /\ t \in Tcb /\ tcb[s] \in Tcb
      /\ t.state = tcb[s].state /\ t.rcvNxt = tcb[s].rcvNxt
      /\ t.sndNxt = tcb[s].sndNxt
      /\ tcb[s].sndUna <= t.sndUna
      /\ ~Finished(s) => t.sndUna <= First(s) + Received(p)
      /\ app[s] # "idle"
      /\ Arrives(s) /\ seg \in Segment
      /\ SegOK(p, seg) /\ SockOK(s)
      /\ p \in Sock /\ p # s /\ Peer(p) = s
  BY <1>1, <1>2, <1>3, AckedFacts
<1>5. PICK v : v = SendAck(t, seg, {})
  OBVIOUS
<1>6. PICK u : u = [v EXCEPT !.state = "ESTABLISHED"]
  OBVIOUS
<1>7. PICK a : a = MakeAck(t, seg, {})
  OBVIOUS
<1>8. /\ AckNumber(seg) \in Nat /\ {} \in SUBSET Flags
      /\ seg.data = <<>> => AckNumber(seg) = seg.seq + 1
  BY <1>4, AckNumberNat
<1>9. /\ v \in Tcb /\ v.state = t.state /\ v.sndUna = t.sndUna
      /\ v.rcvNxt = AckNumber(seg) /\ v.sndNxt = t.sndNxt
  <2>1. t.sndNxt \in Nat
    BY <1>4 DEF Tcb
  <2> QED
    BY <1>3, <1>4, <1>5, <1>8, <2>1, SendAckFields
<1>10. /\ u \in Tcb /\ u.state = "ESTABLISHED" /\ u.sndUna = t.sndUna
       /\ u.rcvNxt = AckNumber(seg) /\ u.sndNxt = t.sndNxt
  BY <1>6, <1>9 DEF Tcb, States
<1>11. /\ a \in Segment /\ a.flags = {"ACK"} /\ a.ack = AckNumber(seg)
       /\ a.data = <<>>
  BY <1>3, <1>4, <1>7, <1>8, MakeAckFields
<1>12. PICK g : g = <<a>>
  OBVIOUS
<1>13. g \in Seq(Segment) /\ \A j \in 1..Len(g) : g[j] = a
  BY <1>11, <1>12
<1>14. /\ tcb' = [tcb EXCEPT ![s] = u] /\ Answer(s, g)
       /\ UNCHANGED <<inBuffer, readable, serverVars, userVars>>
       /\ table' \subseteq table /\ timer' \subseteq Sock
  BY <1>1, <1>2, <1>5, <1>6, <1>7, <1>12 DEF RcvSynAck, Inv, TypeOK
<1>15. /\ tcb[s].state = "SYN-SENT" /\ "SYN" \in seg.flags /\ "ACK" \in seg.flags
       /\ HandshakeOK(s, tcb[s])
  BY <1>1, <1>3, <1>4 DEF SynAckDue, Has, SockOK, StateOK
<1>16. /\ s[2] = "active" /\ tcb[s].sndNxt > ISS[s]
       /\ tcb[s].state \in Taking /\ ~Finished(s)
  BY <1>15 DEF HandshakeOK, Finished, Taking
<1>17. seg.seq = ISS[p] /\ seg.data = <<>> /\ seg.ack = First(s)
  BY <1>4, <1>15 DEF SegOK, SynOK
<1>18. /\ ISS[s] \in Nat /\ ISS[p] \in Nat /\ MaxSeq \in Nat
       /\ Received(s) \in Nat /\ Received(p) \in Nat
  BY <1>4, NumberType, StreamType DEF Inv
<1>19. AckNumber(seg) = First(p) /\ AckNumber(seg) <= MaxSeq
  BY <1>3, <1>8, <1>17 DEF First, CanAck
<1>20. u.sndUna > ISS[s]
  <2>1. tcb[s].sndUna \in Nat /\ tcb[s].sndNxt \in Nat
    BY <1>4 DEF Tcb
  <2>2. seg.ack <= tcb[s].sndNxt /\ seg.ack > ISS[s] /\ seg.ack \in Nat
    BY <1>16, <1>17, <1>18, <2>1 DEF First
  <2>3. t = ProcessAck(tcb[s], seg)
    BY <1>1, <1>2 DEF Acked
  <2>4. tcb[s].sndUna < seg.ack => t.sndUna = seg.ack
    BY <1>4, <1>15, <2>2, <2>3, ProcessAckFields
  <2>5. t.sndUna \in Nat
    BY <1>4 DEF Tcb
  <2> QED
    BY <1>4, <1>10, <1>18, <2>1, <2>2, <2>4, <2>5
<1>21. HandshakeOK(s, u)
  BY <1>10, <1>16, <1>20 DEF HandshakeOK
<1>22. First(p) \in Nat /\ First(p) <= First(p) + Received(s)
  BY <1>18 DEF First
<1>23. ASSUME NEW j \in 1..Len(g)
       PROVE  /\ g[j].data = <<>> /\ "ACK" \in g[j].flags /\ "SYN" \notin g[j].flags
              /\ g[j].ack <= First(p) + Received(s)
              /\ "FIN" \notin g[j].flags
  BY <1>11, <1>13, <1>19, <1>22
<1>24. /\ u.sndNxt = tcb[s].sndNxt /\ tcb[s].sndUna <= u.sndUna
       /\ u.sndUna <= First(s) + Received(p)
  BY <1>4, <1>10, <1>16
<1>25. /\ First(p) <= u.rcvNxt /\ u.rcvNxt <= First(p) + Received(s)
       /\ u.rcvNxt <= MaxSeq /\ u.rcvNxt # -1
  BY <1>8, <1>10, <1>18, <1>19, <1>22
<1> QED
  BY <1>4, <1>10, <1>13, <1>14, <1>16, <1>20, <1>21, <1>23, <1>24, <1>25, FieldsStep

LEMMA LastFinInv ==
    ASSUME Inv, ConstantsOK, NEW s \in Sock, RcvLastFin(s)
    PROVE  Inv'
<1> DEFINE p == Peer(s)
<1>1. PICK seg : seg = Arrived(s)
  OBVIOUS
<1>2. PICK w : w = Acked(s)
  OBVIOUS
<1>3. PICK t : t = [w EXCEPT !.state = "TIME-WAIT"]
  OBVIOUS
<1>4. Passes(s) /\ LastFinDue(s) /\ CanAck(t, seg)
  BY <1>1, <1>2, <1>3 DEF RcvLastFin
<1>5. /\ w \in Tcb /\ tcb[s] \in Tcb
      /\ w.state = tcb[s].state /\ w.rcvNxt = tcb[s].rcvNxt
      /\ w.sndNxt = tcb[s].sndNxt
      /\ tcb[s].sndUna <= w.sndUna
      /\ app[s] # "idle"
      /\ Arrives(s) /\ seg \in Segment
      /\ SegOK(p, seg) /\ SockOK(s)
      /\ p \in Sock /\ p # s /\ Peer(p) = s
  BY <1>1, <1>2, <1>4, AckedFacts
<1>6. /\ t \in Tcb /\ t.state = "TIME-WAIT" /\ t.sndUna = w.sndUna
      /\ t.sndNxt = w.sndNxt
  BY <1>3, <1>5 DEF Tcb, States
<1>7. PICK u : u = SendAck(t, seg, {})
  OBVIOUS
<1>8. PICK a : a = MakeAck(t, seg, {})
  OBVIOUS
<1>9. AckNumber(seg) \in Nat /\ {} \in SUBSET Flags /\ t.sndNxt \in Nat
  BY <1>5, <1>6, AckNumberNat DEF Tcb
<1>10. /\ u \in Tcb /\ u.state = "TIME-WAIT" /\ u.sndUna = t.sndUna
       /\ u.rcvNxt = AckNumber(seg) /\ u.sndNxt = t.sndNxt
  BY <1>4, <1>5, <1>6, <1>7, <1>9, SendAckFields
<1>11. a \in Segment /\ a.flags = {"ACK"} /\ a.data = <<>>
  BY <1>4, <1>5, <1>6, <1>8, <1>9, MakeAckFields
<1>12. PICK g : g = <<a>>
  OBVIOUS
<1>13. g \in Seq(Segment) /\ \A j \in 1..Len(g) : g[j] = a
  BY <1>11, <1>12
<1>14. /\ tcb' = [tcb EXCEPT ![s] = u] /\ Answer(s, g)
       /\ UNCHANGED <<inBuffer, readable, serverVars, userVars>>
       /\ table' \subseteq table /\ timer' \subseteq Sock
  BY <1>1, <1>2, <1>3, <1>7, <1>8, <1>12 DEF RcvLastFin, Inv, TypeOK
<1>15. /\ tcb[s].state = "FIN-WAIT-2" /\ "FIN" \in seg.flags
       /\ HandshakeOK(s, tcb[s])
  BY <1>1, <1>4, <1>5 DEF LastFinDue, Has, SockOK, StateOK
<1>16. app[s] = "closed" /\ Finished(p)
  BY <1>5, <1>15 DEF HandshakeOK, SegOK, FinOK
<1>17. HandshakeOK(s, u) /\ u.state \notin Taking
  BY <1>10, <1>16 DEF HandshakeOK, Taking
<1>18. u.rcvNxt <= MaxSeq /\ u.rcvNxt # -1
  BY <1>4, <1>9, <1>10 DEF CanAck
<1>19. ASSUME NEW j \in 1..Len(g)
       PROVE  /\ g[j].data = <<>> /\ "ACK" \in g[j].flags /\ "SYN" \notin g[j].flags
              /\ Finished(p) \/ g[j].ack <= First(p) + Received(s)
              /\ s[2] = "active" => app[s] = "closed" \/ u.sndUna > ISS[s]
              /\ "FIN" \in g[j].flags => u.state \notin Taking
  BY <1>11, <1>13, <1>16, <1>17
<1>20. /\ u.sndNxt = tcb[s].sndNxt /\ tcb[s].sndUna <= u.sndUna
       /\ u.state \notin {"SYN-RECEIVED", "ESTABLISHED"}
  BY <1>5, <1>6, <1>10
<1> QED
  BY <1>5, <1>10, <1>13, <1>14, <1>17, <1>18, <1>19, <1>20, FieldsStep

LEMMA FinInv ==
    ASSUME Inv, ConstantsOK, NEW s \in Sock, RcvFin(s)
    PROVE  Inv'
<1> DEFINE p == Peer(s)
<1>1. PICK seg : seg = Arrived(s)
  OBVIOUS
<1>2. PICK w : w = Acked(s)
  OBVIOUS
<1>3. PICK t : t = [w EXCEPT !.state = "CLOSE-WAIT"]
  OBVIOUS
<1>4. Passes(s) /\ FinDue(s) /\ CanAck(t, seg)
  BY <1>1, <1>2, <1>3 DEF RcvFin
<1>5. /\ w \in Tcb /\ tcb[s] \in Tcb
      /\ w.state = tcb[s].state /\ w.rcvNxt = tcb[s].rcvNxt
      /\ w.sndNxt = tcb[s].sndNxt
      /\ tcb[s].sndUna <= w.sndUna
      /\ app[s] # "idle"
      /\ Arrives(s) /\ seg \in Segment
      /\ SegOK(p, seg) /\ SockOK(s)
      /\ p \in Sock /\ p # s /\ Peer(p) = s
  BY <1>1, <1>2, <1>4, AckedFacts
<1>6. /\ t \in Tcb /\ t.sndUna = w.sndUna /\ t.sndNxt = w.sndNxt
  BY <1>3, <1>5 DEF Tcb, States
<1>7. PICK v : v = SendAck(t, seg, {})
  OBVIOUS
<1>8. PICK t2 : t2 = [v EXCEPT !.state = "LAST-ACK"]
  OBVIOUS
<1>9. PICK u : u = SendAck(t2, seg, {"FIN"})
  OBVIOUS
<1>10. PICK a : a = MakeAck(t, seg, {})
  OBVIOUS
<1>11. PICK b : b = MakeAck(t2, seg, {"FIN"})
  OBVIOUS
<1>12. /\ AckNumber(seg) \in Nat /\ t.sndNxt \in Nat
       /\ {} \in SUBSET Flags /\ {"FIN"} \in SUBSET Flags
  BY <1>5, <1>6, AckNumberNat DEF Tcb, Flags
<1>13. v \in Tcb /\ v.sndUna = t.sndUna /\ v.sndNxt = t.sndNxt
  BY <1>4, <1>5, <1>6, <1>7, <1>12, SendAckFields
<1>14. /\ t2 \in Tcb /\ t2.state = "LAST-ACK"
       /\ t2.sndUna = t.sndUna /\ t2.sndNxt = t.sndNxt
  BY <1>8, <1>13 DEF Tcb, States
<1>15. CanAck(t2, seg)
  BY <1>4, <1>14 DEF CanAck, CanMake
<1>16. /\ u \in Tcb /\ u.state = "LAST-ACK" /\ u.sndUna = t.sndUna
       /\ u.rcvNxt = AckNumber(seg)
  BY <1>5, <1>9, <1>12, <1>14, <1>15, SendAckFields
<1>17. a \in Segment /\ "ACK" \in a.flags /\ "SYN" \notin a.flags /\ a.data = <<>>
  BY <1>4, <1>5, <1>6, <1>10, <1>12, MakeAckFields
<1>18. b \in Segment /\ "ACK" \in b.flags /\ "SYN" \notin b.flags /\ b.data = <<>>
  <2>1. b \in Segment /\ b.flags = {"ACK"} \cup {"FIN"} /\ b.data = <<>>
    BY <1>5, <1>11, <1>12, <1>14, <1>15, MakeAckFields
  <2> QED
    BY <2>1
<1>19. PICK g : g = <<a, b>>
  OBVIOUS
<1>20. g \in Seq(Segment) /\ \A j \in 1..Len(g) : g[j] = a \/ g[j] = b
  BY <1>17, <1>18, <1>19
<1>21. /\ tcb' = [tcb EXCEPT ![s] = u] /\ Answer(s, g)
       /\ UNCHANGED <<inBuffer, readable, serverVars, userVars>>
       /\ table' \subseteq table /\ timer' \subseteq Sock
  BY <1>1, <1>2, <1>3, <1>7, <1>8, <1>9, <1>10, <1>11, <1>19 DEF RcvFin, Inv, TypeOK
<1>22. /\ tcb[s].state = "ESTABLISHED" /\ "FIN" \in seg.flags
       /\ HandshakeOK(s, tcb[s])
  BY <1>1, <1>4, <1>5 DEF FinDue, Has, SockOK, StateOK
<1>23. Finished(p)
  BY <1>5, <1>22 DEF SegOK, FinOK
<1>24. s[2] = "active" => u.sndUna > ISS[s]
  <2>1. s[2] = "active" => tcb[s].sndUna > ISS[s]
    BY <1>22 DEF HandshakeOK
  <2>2. tcb[s].sndUna \in Nat /\ ISS[s] \in Nat /\ u.sndUna \in Nat
    BY <1>16, NumberType DEF Inv, Tcb
  <2> QED
    BY <1>5, <1>6, <1>16, <2>1, <2>2
<1>25. HandshakeOK(s, u) /\ u.state \notin Taking
  BY <1>16, <1>24 DEF HandshakeOK, Taking
<1>26. u.rcvNxt <= MaxSeq /\ u.rcvNxt # -1
  BY <1>4, <1>12, <1>16 DEF CanAck
<1>27. ASSUME NEW j \in 1..Len(g)
       PROVE  /\ g[j].data = <<>> /\ "ACK" \in g[j].flags /\ "SYN" \notin g[j].flags
              /\ Finished(p) /\ (s[2] = "active" => u.sndUna > ISS[s])
              /\ u.state \notin Taking
  BY <1>17, <1>18, <1>20, <1>23, <1>24, <1>25
<1>28. tcb[s].sndUna <= u.sndUna /\ u.state \notin {"SYN-RECEIVED", "ESTABLISHED"}
  BY <1>5, <1>6, <1>16
<1> QED
  BY <1>5, <1>16, <1>20, <1>21, <1>23, <1>25, <1>26, <1>27, <1>28, FieldsStep

\* The data s takes are the next bytes of the stream, and those that are
\* still on their way come after them.
LEMMA DataNext ==
    ASSUME Inv, ConstantsOK, NEW s \in Sock, Passes(s), DataDue(s),
           NEW d, d = Arrived(s).data
    PROVE  /\ d \in Seq(Nat) /\ d # <<>> /\ Len(d) \in PayloadSizes
           /\ tcb[s].state = "ESTABLISHED"
           /\ AckNumber(Arrived(s)) = First(Peer(s)) + Received(s) + Len(d)
           /\ Received(s) + Len(d) <= sent[Peer(s)]
           /\ \A i \in 1..Len(d) : d[i] = Received(s) + i
           /\ InOrder(Peer(s), Tail(net[Peer(s)]), Received(s) + Len(d), sent[Peer(s)])
<1> DEFINE p == Peer(s)
<1>1. PICK g : g = Arrived(s)
  OBVIOUS
<1>2. PICK q : q = net[p]
  OBVIOUS
<1>3. PICK n : n = Received(s)
  OBVIOUS
<1>4. /\ g \in Segment /\ SegOK(p, g) /\ SockOK(s) /\ p \in Sock
  BY <1>1, AckedFacts
<1>5. 1 \in 1..Len(q) /\ g = q[1] /\ q \in Seq(Segment)
  BY <1>1, <1>2, <1>4, ArrivedFacts, ChannelType DEF Passes, Inv
<1>6. /\ tcb[s].state = "ESTABLISHED" /\ "FIN" \notin g.flags
      /\ SegLen(g) > 0 /\ g.seq = tcb[s].rcvNxt
  BY <1>1 DEF DataDue, Has
<1>7. /\ First(p) <= g.seq /\ g.seq <= First(p) + n
  BY <1>3, <1>4, <1>6 DEF SockOK, RecvOK
<1>8. n \in Nat /\ First(p) \in Nat /\ ISS[p] \in Nat /\ sent[p] \in Nat /\ g.seq \in Nat
  BY <1>3, <1>4, StreamType, NumberType DEF Inv, Segment
<1>9. d \in Seq(Nat) /\ Len(d) \in Nat /\ d = g.data
  BY <1>1, <1>4 DEF Segment
<1>10. d # <<>>
  <2> SUFFICES ASSUME d = <<>> PROVE FALSE
    OBVIOUS
  <2>1. SegLen(g) = (IF "FIN" \in g.flags THEN 1 ELSE 0)
                    + (IF "SYN" \in g.flags THEN 1 ELSE 0)
    BY <1>4, <1>9, SegLenNat
  <2>2. "SYN" \in g.flags
    BY <1>6, <2>1
  <2>3. g.seq = ISS[p]
    BY <1>4, <2>2 DEF SegOK, SynOK
  <2> QED
    BY <1>7, <1>8, <2>3 DEF First
<1>11. InOrder(p, q, n, sent[p])
  <2>1. ~Finished(s)
    BY <1>6 DEF Finished, Taking
  <2> QED
    BY <1>2, <1>3, <2>1 DEF FlowOK, Inv
<1>12. Carries(p, g, n, sent[p])
  BY <1>5, <1>9, <1>10, <1>11 DEF InOrder
<1>13. g.seq = First(p) + n
  <2>1. First(p) + n <= g.seq
    BY <1>12 DEF Carries
  <2> QED
    BY <1>7, <1>8, <2>1
<1>14. /\ Len(d) \in PayloadSizes
       /\ n + Len(d) <= sent[p]
       /\ \A i \in 1..Len(d) : d[i] = n + i
  <2>1. /\ Len(d) \in PayloadSizes
        /\ g.seq + Len(d) <= First(p) + sent[p]
        /\ \A i \in 1..Len(d) : d[i] = g.seq - First(p) + i
    BY <1>9, <1>12 DEF Carries
  <2>2. g.seq - First(p) = n
    BY <1>8, <1>13
  <2>3. \A i \in 1..Len(d) : d[i] = n + i
    BY <2>1, <2>2
  <2>4. n + Len(d) <= sent[p]
    BY <1>8, <1>9, <1>13, <2>1
  <2> QED
    BY <2>1, <2>3, <2>4
<1>15. AckNumber(g) = First(p) + n + Len(d)
  BY <1>4, <1>8, <1>9, <1>10, <1>13, AckNumberNat
<1>16. PICK r : r = Tail(q)
  OBVIOUS
<1>17. \A j \in 1..Len(r) : j + 1 \in 1..Len(q) /\ r[j] = q[j + 1]
  BY <1>5, <1>16, HeadTailProperties
<1>18. \A j, k \in 1..Len(q) :
           j < k /\ q[j].data # <<>> /\ q[k].data # <<>>
           => q[j].seq + Len(q[j].data) <= q[k].seq
  BY <1>11 DEF InOrder
<1>19. ASSUME NEW j \in 1..Len(r), r[j].data # <<>>
       PROVE  Carries(p, r[j], n + Len(d), sent[p])
  <2>1. /\ j + 1 \in 1..Len(q) /\ 1 < j + 1 /\ r[j] = q[j + 1]
    BY <1>17
  <2>2. g.seq + Len(d) <= r[j].seq
    BY <1>5, <1>9, <1>10, <1>18, <1>19, <2>1
  <2>3. Carries(p, r[j], n, sent[p])
    BY <1>11, <1>19, <2>1 DEF InOrder
  <2>4. First(p) + (n + Len(d)) <= r[j].seq
    BY <1>8, <1>9, <1>13, <2>2
  <2> QED
    BY <2>3, <2>4 DEF Carries
<1>20. ASSUME NEW j \in 1..Len(r), NEW k \in 1..Len(r), j < k,
              r[j].data # <<>>, r[k].data # <<>>
       PROVE  r[j].seq + Len(r[j].data) <= r[k].seq
  <2>1. /\ j + 1 \in 1..Len(q) /\ k + 1 \in 1..Len(q) /\ j + 1 < k + 1
        /\ r[j] = q[j + 1] /\ r[k] = q[k + 1]
    BY <1>17, <1>20
  <2> QED
    BY <1>18, <1>20, <2>1
<1>21. InOrder(p, r, n + Len(d), sent[p])
  BY <1>19, <1>20 DEF InOrder
<1> QED
  BY <1>1, <1>2, <1>3, <1>6, <1>9, <1>10, <1>14, <1>15, <1>16, <1>21

\* The streams once the bytes d are appended to the buffer of s.
LEMMA StreamGrows ==
    ASSUME TypeOK, NEW s \in Sock, NEW d \in Seq(Nat), UNCHANGED got,
           inBuffer' = [inBuffer EXCEPT ![s] = inBuffer[s] \o d]
    PROVE  /\ Stream(s)' = Stream(s) \o d
           /\ \A x \in Sock \ {s} : Stream(x)' = Stream(x)
<1>1. inBuffer \in [Sock -> Seq(Nat)] /\ got[s] \in Seq(Nat) /\ inBuffer[s] \in Seq(Nat)
  BY DEF TypeOK
<1>2. Stream(s)' = got[s] \o (inBuffer[s] \o d)
  BY <1>1 DEF Stream
<1>3. (got[s] \o inBuffer[s]) \o d = got[s] \o (inBuffer[s] \o d)
  <2>1. \A a \in Seq(Nat), b \in Seq(Nat), c \in Seq(Nat) :
           (a \o b) \o c = a \o (b \o c)
    BY ConcatNat
  <2> QED
    BY <1>1, <2>1
<1>4. \A x \in Sock \ {s} : Stream(x)' = Stream(x)
  BY <1>1 DEF Stream
<1> QED
  BY <1>2, <1>3, <1>4 DEF Stream

\* The stream of s and what is on its way, once s has taken the data d.
LEMMA DataTaken ==
    ASSUME Inv, ConstantsOK, NEW s \in Sock, Passes(s), DataDue(s),
           NEW d, d = Arrived(s).data, NEW u \in Tcb, NEW g \in Seq(Segment),
           tcb' = [tcb EXCEPT ![s] = u], Answer(s, g),
           inBuffer' = [inBuffer EXCEPT ![s] = inBuffer[s] \o d],
           readable' = [readable EXCEPT ![s] = TRUE],
           UNCHANGED <<table, timer, serverVars, userVars>>
    PROVE  /\ TypeOK' /\ tcb'[s] = u
           /\ \A x \in Sock \ {s} : Own(x)
           /\ Stream(s)' = Stream(s) \o d
           /\ Received(s)' = Received(s) + Len(d)
           /\ \A i \in 1..Received(s)' : Stream(s)'[i] = i
           /\ Received(s)' <= sent[Peer(s)]
           /\ FlowOK(s)'
           /\ UNCHANGED <<backlog, accepting, app, sent>>
<1> DEFINE p == Peer(s)
<1>1. /\ d \in Seq(Nat) /\ d # <<>>
      /\ Received(s) + Len(d) <= sent[p]
      /\ \A i \in 1..Len(d) : d[i] = Received(s) + i
      /\ InOrder(p, Tail(net[p]), Received(s) + Len(d), sent[p])
  BY DataNext
<1>2. Arrives(s)
  BY DEF Passes
<1>3. tcb \in [Sock -> Tcb] /\ tcb' \in [Sock -> Tcb]
  BY DEF Inv, TypeOK, Tcb
<1>4. /\ net' \in [Sock -> Seq(Segment)] /\ net'[p] = Tail(net[p])
  BY <1>2, AnswerFacts DEF Inv
<1>5. /\ inBuffer \in [Sock -> Seq(Nat)] /\ got \in [Sock -> Seq(Nat)]
      /\ inBuffer' \in [Sock -> Seq(Nat)]
  <2>1. inBuffer \in [Sock -> Seq(Nat)] /\ got \in [Sock -> Seq(Nat)]
    BY DEF Inv, TypeOK
  <2>2. inBuffer[s] \o d \in Seq(Nat)
    BY <1>1, <2>1
  <2> QED
    BY <2>1, <2>2
<1>6. readable' \in [Sock -> BOOLEAN]
  BY DEF Inv, TypeOK
<1>7. TypeOK'
  BY <1>3, <1>4, <1>5, <1>6 DEF Inv, TypeOK, Tcb, serverVars, userVars
<1>8. \A x \in Sock \ {s} : Own(x)
  BY <1>3, <1>5 DEF Own, Stream, userVars
<1>9. Stream(s)' = Stream(s) \o d
  BY <1>1, StreamGrows DEF Inv, userVars
<1>10. Stream(s) \in Seq(Nat) /\ Received(s) \in Nat /\ Received(s) = Len(Stream(s))
  BY StreamType DEF Inv, Received
<1>11. Received(s)' = Received(s) + Len(d)
  BY <1>1, <1>9, <1>10 DEF Received
<1>12. \A i \in 1..Received(s)' : Stream(s)'[i] = i
  <2>1. \A i \in 1..Received(s) : Stream(s)[i] = i
    BY DEF Inv, SockOK, RecvOK
  <2> SUFFICES ASSUME NEW i \in 1..Received(s)' PROVE Stream(s)'[i] = i
    OBVIOUS
  <2>2. Len(d) \in Nat
    BY <1>1
  <2>3. CASE i <= Received(s)
    <3>1. Stream(s)'[i] = Stream(s)[i]
      BY <1>1, <1>9, <1>10, <1>11, <2>3
    <3> QED
      BY <1>10, <2>1, <2>3, <3>1
  <2>4. CASE i > Received(s)
    <3>1. i - Received(s) \in 1..Len(d) /\ Stream(s)'[i] = d[i - Received(s)]
      BY <1>1, <1>9, <1>10, <1>11, <2>2, <2>4
    <3>2. d[i - Received(s)] = Received(s) + (i - Received(s))
      BY <1>1, <3>1
    <3> QED
      BY <1>10, <3>1, <3>2
  <2>5. i \in Int /\ Received(s) \in Int
    BY <1>10
  <2> QED
    BY <2>3, <2>4, <2>5
<1>13. sent' = sent /\ Peer(s) \in Sock
  BY PeerFacts DEF userVars
<1>14. InOrder(p, net'[p], Received(s)', sent'[p])
  BY <1>1, <1>4, <1>11, <1>13
<1> QED
  BY <1>1, <1>3, <1>7, <1>8, <1>9, <1>11, <1>12, <1>14
     DEF FlowOK, serverVars, userVars

LEMMA DataInv ==
    ASSUME Inv, ConstantsOK, NEW s \in Sock, RcvData(s)
    PROVE  Inv'
<1> DEFINE p == Peer(s)
<1>1. PICK seg : seg = Arrived(s)
  OBVIOUS
<1>2. PICK t : t = Acked(s)
  OBVIOUS
<1>3. PICK d : d = seg.data
  OBVIOUS
<1>4. Passes(s) /\ DataDue(s) /\ CanAck(t, seg)
  BY <1>1, <1>2 DEF RcvData
<1>5. /\ t \in Tcb /\ tcb[s] \in Tcb
      /\ t.state = tcb[s].state /\ t.rcvNxt = tcb[s].rcvNxt
      /\ t.sndNxt = tcb[s].sndNxt
      /\ tcb[s].sndUna <= t.sndUna
      /\ ~Finished(s) => t.sndUna <= First(s) + Received(p)
      /\ app[s] # "idle"
      /\ Arrives(s) /\ seg \in Segment /\ SockOK(s)
      /\ p \in Sock /\ p # s /\ Peer(p) = s
  BY <1>1, <1>2, <1>4, AckedFacts
<1>6. /\ d \in Seq(Nat) /\ tcb[s].state = "ESTABLISHED"
      /\ AckNumber(seg) = First(p) + Received(s) + Len(d)
  BY <1>1, <1>3, <1>4, DataNext
<1>7. PICK u : u = SendAck(t, seg, {})
  OBVIOUS
<1>8. PICK a : a = MakeAck(t, seg, {})
  OBVIOUS
<1>9. AckNumber(seg) \in Nat /\ {} \in SUBSET Flags /\ t.sndNxt \in Nat
  BY <1>5, AckNumberNat DEF Tcb
<1>10. /\ u \in Tcb /\ u.state = "ESTABLISHED" /\ u.sndUna = t.sndUna
       /\ u.rcvNxt = AckNumber(seg) /\ u.sndNxt = t.sndNxt
  BY <1>4, <1>5, <1>6, <1>7, <1>9, SendAckFields
<1>11. /\ a \in Segment /\ a.flags = {"ACK"} /\ a.ack = AckNumber(seg)
       /\ a.data = <<>>
  BY <1>4, <1>5, <1>8, <1>9, MakeAckFields
<1>12. PICK g : g = <<a>>
  OBVIOUS
<1>13. g \in Seq(Segment) /\ \A j \in 1..Len(g) : g[j] = a
  BY <1>11, <1>12
<1>14. /\ tcb' = [tcb EXCEPT ![s] = u] /\ Answer(s, g)
       /\ inBuffer' = [inBuffer EXCEPT ![s] = inBuffer[s] \o d]
       /\ readable' = [readable EXCEPT ![s] = TRUE]
       /\ UNCHANGED <<table, timer, serverVars, userVars>>
  BY <1>1, <1>2, <1>3, <1>7, <1>8, <1>12 DEF RcvData
<1>15. /\ TypeOK' /\ tcb'[s] = u
       /\ \A x \in Sock \ {s} : Own(x)
       /\ Received(s)' = Received(s) + Len(d)
       /\ \A i \in 1..Received(s)' : Stream(s)'[i] = i
       /\ Received(s)' <= sent[p]
       /\ FlowOK(s)'
       /\ UNCHANGED <<backlog, accepting, app, sent>>
  BY <1>1, <1>3, <1>4, <1>10, <1>13, <1>14, DataTaken
<1>16. ~Finished(s) /\ ~Finished(s)'
  BY <1>6, <1>10, <1>15 DEF Finished, Taking
<1>17. /\ Received(s) \in Nat /\ sent[s] \in Nat /\ First(p) \in Nat /\ Len(d) \in Nat
       /\ tcb[s].sndUna \in Nat /\ u.sndUna \in Nat /\ ISS[s] \in Nat
  BY <1>5, <1>6, <1>10, StreamType, NumberType DEF Inv, Tcb
<1>18. Grows(s)
  BY <1>5, <1>10, <1>15, <1>16, <1>17 DEF Grows
<1>19. Own(p) /\ (Answered(p) <=> Answered(p)') /\ Received(p)' = Received(p)
  BY <1>5, <1>15 DEF Own, Answered, Received
<1>20. s[2] = "active" => Answered(s)'
  <2>1. s[2] = "active" => tcb[s].sndUna > ISS[s]
    BY <1>5, <1>6 DEF SockOK, StateOK, HandshakeOK
  <2> QED
    BY <1>5, <1>10, <1>15, <1>17, <2>1 DEF Answered
<1>21. StateOK(s)'
  <2>1. s[2] = "passive" => Answered(p)
    BY <1>5, <1>6 DEF SockOK, StateOK, HandshakeOK
  <2>2. s[2] = "active" => u.sndUna > ISS[s]
    <3>1. s[2] = "active" => tcb[s].sndUna > ISS[s]
      BY <1>5, <1>6 DEF SockOK, StateOK, HandshakeOK
    <3> QED
      BY <1>5, <1>10, <1>17, <3>1
  <2> QED
    BY <1>10, <1>15, <1>19, <2>1, <2>2 DEF StateOK, HandshakeOK
<1>22. u.rcvNxt <= MaxSeq /\ u.rcvNxt # -1
  BY <1>4, <1>9, <1>10 DEF CanAck
<1>23. u.rcvNxt = First(p) + Received(s)' /\ First(p) <= u.rcvNxt
  BY <1>6, <1>10, <1>15, <1>17
<1>24. u.sndUna <= First(s) + Received(p) /\ u.sndNxt = tcb[s].sndNxt
  BY <1>5, <1>10, <1>16
<1>25. First(p) + Received(s)' \in Nat
  BY <1>15, <1>17
<1>26. SockOK(s)'
  <2>1. /\ First(p) <= tcb'[s].rcvNxt
        /\ tcb'[s].rcvNxt <= First(p) + Received(s)'
    BY <1>15, <1>23, <1>25
  <2> QED
    BY <1>5, <1>15, <1>18, <1>19, <1>21, <1>22, <1>24, <2>1, SockMoves
<1>27. ASSUME NEW j \in 1..Len(g), NEW h, h = g[j]
       PROVE  h.data = <<>> /\ ~IsSyn(h) /\ SegOK(s, h)'
  <2>1. h.data = <<>> /\ h.flags = {"ACK"} /\ h.ack <= First(p) + Received(s)'
    BY <1>10, <1>11, <1>13, <1>23, <1>25, <1>27
  <2> QED
    BY <1>20, <2>1, AckSegOK
<1>28. \A j \in 1..Len(g) : g[j].data = <<>> /\ ~IsSyn(g[j]) /\ SegOK(s, g[j])'
  BY <1>27
<1> QED
  BY <1>5, <1>13, <1>14, <1>15, <1>18, <1>26, <1>28, ReplyStep

\* The acknowledgment cannot be built: nothing is sent.
LEMMA RaisesInv ==
    ASSUME Inv, ConstantsOK, NEW s \in Sock, RcvRaises(s)
    PROVE  Inv'
<1> DEFINE p == Peer(s)
<1>1. PICK seg : seg = Arrived(s)
  OBVIOUS
<1>2. PICK t : t = Acked(s)
  OBVIOUS
<1>3. PICK m : m = CASE LastFinDue(s) -> "TIME-WAIT"
                     [] FinDue(s) -> "CLOSE-WAIT"
                     [] OTHER -> t.state
  OBVIOUS
<1>4. PICK u : u = [t EXCEPT !.state = m]
  OBVIOUS
<1>5. PICK g : g = <<>>
  OBVIOUS
<1>6. g \in Seq(Segment) /\ \A j \in 1..Len(g) : FALSE
  BY <1>5
<1>7. Passes(s) /\ AnswerDue(s)
  BY DEF RcvRaises
<1>8. /\ t \in Tcb /\ tcb[s] \in Tcb
      /\ t.state = tcb[s].state /\ t.rcvNxt = tcb[s].rcvNxt
      /\ t.sndNxt = tcb[s].sndNxt
      /\ tcb[s].sndUna <= t.sndUna
      /\ ~Finished(s) => t.sndUna <= First(s) + Received(p)
      /\ app[s] # "idle"
      /\ Arrives(s) /\ seg \in Segment /\ SockOK(s)
      /\ p \in Sock /\ p # s /\ Peer(p) = s
  BY <1>1, <1>2, <1>7, AckedFacts
<1>9. \/ m = tcb[s].state
      \/ tcb[s].state = "FIN-WAIT-2" /\ m = "TIME-WAIT"
      \/ tcb[s].state = "ESTABLISHED" /\ m = "CLOSE-WAIT"
  BY <1>3, <1>8 DEF LastFinDue, FinDue
<1>10. /\ u \in Tcb /\ u.state = m /\ u.sndUna = t.sndUna
       /\ u.sndNxt = t.sndNxt /\ u.rcvNxt = t.rcvNxt
  <2>1. m \in States
    BY <1>8, <1>9 DEF States, Tcb
  <2> QED
    BY <1>4, <1>8, <2>1 DEF Tcb
<1>11. tcb' = [tcb EXCEPT ![s] = u] /\ Answer(s, g)
       /\ UNCHANGED <<table, timer, serverVars, userVars>>
  <2>1. u = [Acked(s) EXCEPT !.state = CASE LastFinDue(s) -> "TIME-WAIT"
                                         [] FinDue(s) -> "CLOSE-WAIT"
                                         [] OTHER -> Acked(s).state]
    BY <1>2, <1>3, <1>4
  <2> QED
    BY <1>5, <2>1 DEF RcvRaises
<1>12. HandshakeOK(s, u)
  <2>1. HandshakeOK(s, tcb[s])
    BY <1>8 DEF SockOK, StateOK
  <2>2. /\ u.state \in {"SYN-SENT", "SYN-RECEIVED", "ESTABLISHED"} =>
              u.state = tcb[s].state
        /\ u.state \in {"FIN-WAIT-1", "FIN-WAIT-2", "TIME-WAIT"} =>
              tcb[s].state \in {"FIN-WAIT-1", "FIN-WAIT-2", "TIME-WAIT"}
        /\ u.state \in {"ESTABLISHED", "CLOSE-WAIT", "LAST-ACK"} =>
              tcb[s].state \in {"ESTABLISHED", "CLOSE-WAIT", "LAST-ACK"}
    BY <1>9, <1>10
  <2>3. tcb[s].sndUna \in Nat /\ u.sndUna \in Nat /\ ISS[s] \in Nat
    BY <1>8, <1>10, NumberType DEF Inv, Tcb
  <2>4. u.sndNxt = tcb[s].sndNxt /\ tcb[s].sndUna <= u.sndUna
    BY <1>8, <1>10
  <2> QED
    BY <2>1, <2>2, <2>3, <2>4 DEF HandshakeOK
<1>13. /\ u.state \in Taking => /\ tcb[s].state \in Taking
                                /\ u.sndUna <= First(s) + Received(p)
       /\ u.state = "ESTABLISHED" => tcb[s].state = "ESTABLISHED"
       /\ u.state = "SYN-RECEIVED" => tcb[s].state = "SYN-RECEIVED"
  <2>1. /\ u.state \in Taking => tcb[s].state \in Taking
        /\ u.state = "ESTABLISHED" => tcb[s].state = "ESTABLISHED"
        /\ u.state = "SYN-RECEIVED" => tcb[s].state = "SYN-RECEIVED"
    BY <1>9, <1>10 DEF Taking
  <2> QED
    BY <1>8, <1>10, <2>1 DEF Finished
<1>14. /\ u.rcvNxt = tcb[s].rcvNxt /\ u.rcvNxt <= MaxSeq
       /\ u.state \in {"SYN-RECEIVED", "ESTABLISHED"} =>
             /\ First(p) <= u.rcvNxt
             /\ u.rcvNxt <= First(p) + Received(s)
  BY <1>8, <1>10, <1>13 DEF SockOK, RecvOK
<1>15. u.sndNxt = tcb[s].sndNxt /\ tcb[s].sndUna <= u.sndUna
  BY <1>8, <1>10
<1>16. CASE ~DataDue(s)
  <2>1. UNCHANGED <<inBuffer, readable, serverVars, userVars>> /\ table' \subseteq table
        /\ timer' \subseteq Sock
    BY <1>11, <1>16 DEF RcvRaises, Inv, TypeOK
  <2> QED
    BY <1>6, <1>8, <1>10, <1>11, <1>12, <1>13, <1>14, <1>15, <2>1, FieldsStep
<1>17. CASE DataDue(s)
  <2>1. PICK d : d = Arrived(s).data
    OBVIOUS
  <2>2. /\ inBuffer' = [inBuffer EXCEPT ![s] = inBuffer[s] \o d]
        /\ readable' = [readable EXCEPT ![s] = TRUE]
    BY <1>17, <2>1 DEF RcvRaises
  <2>3. d \in Seq(Nat) /\ tcb[s].state = "ESTABLISHED"
    BY <1>7, <1>17, <2>1, DataNext
  <2>4. /\ TypeOK' /\ tcb'[s] = u
        /\ \A x \in Sock \ {s} : Own(x)
        /\ Received(s)' = Received(s) + Len(d)
        /\ \A i \in 1..Received(s)' : Stream(s)'[i] = i
        /\ Received(s)' <= sent[p]
        /\ FlowOK(s)'
        /\ UNCHANGED <<backlog, accepting, app, sent>>
    BY <1>6, <1>7, <1>10, <1>11, <1>17, <2>1, <2>2, DataTaken
  <2>5. /\ Received(s) \in Nat /\ sent[s] \in Nat /\ First(p) \in Nat /\ Len(d) \in Nat
        /\ u.rcvNxt \in Int
    BY <1>8, <1>10, <2>3, StreamType, NumberType, SMTT(30) DEF Inv, Tcb
  <2>6. ~Finished(s)
    BY <2>3 DEF Finished, Taking
  <2>7. Received(s) <= Received(s)' /\ sent[s] <= sent'[s]
    BY <2>4, <2>5
  <2>8. Grows(s)
    BY <1>15, <2>4, <2>6, <2>7 DEF Grows
  <2>9. Own(p) /\ (Answered(p) <=> Answered(p)')
    BY <1>8, <2>4 DEF Own, Answered
  <2>10. StateOK(s)'
    BY <1>12, <2>4, <2>9 DEF StateOK, HandshakeOK
  <2>11. u.state \in {"SYN-RECEIVED", "ESTABLISHED"} =>
            /\ First(p) <= u.rcvNxt
            /\ u.rcvNxt <= First(p) + Received(s)'
    BY <1>14, <2>4, <2>5
  <2>12. ~Finished(s)' => u.sndUna <= First(s) + Received(p)
    BY <1>8, <1>13, <2>4 DEF Finished
  <2>13. SockOK(s)'
    BY <1>8, <1>14, <1>15, <2>4, <2>8, <2>9, <2>10, <2>11, <2>12, SockMoves
  <2> QED
    BY <1>6, <1>8, <1>11, <2>4, <2>8, <2>13, ReplyStep
<1> QED
  BY <1>16, <1>17

-----------------------------------------------------------------------------
(* The actions that change the backlog.                                    *)

\* The backlog loses its head, and nothing else about its clients changes.
LEMMA SynTail ==
    ASSUME NEW c \in Clients, SynOnce(c), SameIdle(c),
           net'[<<c, "active">>] = net[<<c, "active">>],
           backlog \in Seq(Clients), backlog # <<>>, backlog' = Tail(backlog)
    PROVE  SynOnce(c)'
<1> DEFINE b == backlog
           a == <<c, "active">>
           p == <<c, "passive">>
<1>1. PICK r : r = Tail(b)
  OBVIOUS
<1>2. \A j \in 1..Len(r) : j + 1 \in 1..Len(b) /\ r[j] = b[j + 1]
  BY <1>1, HeadTailProperties
<1>3. PICK q : q = net[a]
  OBVIOUS
<1>4. \A j \in 1..Len(q) : IsSyn(q[j]) =>
          /\ app'[a] # "idle" /\ app'[p] = "idle"
          /\ \A i \in 1..Len(r) : r[i] # c
          /\ \A k \in 1..Len(q) : IsSyn(q[k]) => j = k
  BY <1>2, <1>3 DEF SynOnce, SameIdle
<1>5. ASSUME NEW j \in 1..Len(r), r[j] = c
      PROVE  /\ app'[a] # "idle" /\ app'[p] = "idle"
             /\ \A k \in 1..Len(r) : r[k] = c => j = k
  <2>1. j + 1 \in 1..Len(b) /\ b[j + 1] = c
    BY <1>2, <1>5
  <2>2. ASSUME NEW k \in 1..Len(r), r[k] = c PROVE j = k
    <3>1. k + 1 \in 1..Len(b) /\ b[k + 1] = c
      BY <1>2, <2>2
    <3>2. j + 1 = k + 1
      BY <2>1, <3>1 DEF SynOnce
    <3> QED
      BY <3>2
  <2> QED
    BY <2>1, <2>2 DEF SynOnce, SameIdle
<1>6. app'[a] = "idle" => app'[p] = "idle"
  BY DEF SynOnce, SameIdle
<1>7. q = net'[a] /\ r = backlog'
  BY <1>1, <1>3
<1> QED
  BY <1>4, <1>5, <1>6, <1>7 DEF SynOnce

LEMMA AcceptRaisesInv ==
    ASSUME Inv, ConstantsOK, NEW c \in Clients, AcceptRaises(c)
    PROVE  Inv'
<1>1. backlog \in Seq(Clients) /\ backlog # <<>> /\ backlog' = Tail(backlog)
  BY DEF Inv, TypeOK, AcceptRaises
<1>2. UNCHANGED <<tcb, inBuffer, readable, table, timer, listener, accepting, net, userVars>>
  BY DEF AcceptRaises
<1>3. Tail(backlog) \in Seq(Clients)
  BY <1>1
<1>4. TypeOK'
  BY <1>1, <1>2, <1>3 DEF Inv, TypeOK, userVars
<1>5. \A x \in Sock : Own(x) /\ Loses(net[x], net'[x])
  BY <1>2 DEF Own, Stream, Loses, userVars
<1>6. AcceptOK'
  BY <1>2 DEF Inv, AcceptOK, userVars
<1>7. ASSUME NEW d \in Clients PROVE SynOnce(d)'
  <2>1. SynOnce(d) /\ SameIdle(d)
    BY <1>2 DEF Inv, SameIdle, userVars
  <2> QED
    BY <1>1, <1>2, <2>1, SynTail
<1> QED
  BY <1>4, <1>5, <1>6, <1>7, SilentStep

LEMMA RcvSynInv ==
    ASSUME Inv, ConstantsOK, NEW c \in Clients, RcvSyn(c)
    PROVE  Inv'
<1> DEFINE s == <<c, "passive">>
           a == <<c, "active">>
<1>1. s \in Sock /\ Peer(s) = a /\ a \in Sock /\ a # s
  BY ClientSocks
<1>2. PICK q : q = net[a]
  OBVIOUS
<1>3. PICK g : g = <<>>
  OBVIOUS
<1>4. /\ Arrives(s) /\ IsSyn(Arrived(s)) /\ Answer(s, g)
      /\ UNCHANGED <<tcb, inBuffer, readable, table, timer, listener, accepting, userVars>>
      /\ backlog' = Append(backlog, c) \/ backlog' = backlog
  BY <1>3 DEF RcvSyn
<1>5. g \in Seq(Segment) /\ backlog \in Seq(Clients)
  BY <1>3 DEF Inv, TypeOK
<1>6. /\ 1 \in 1..Len(q) /\ IsSyn(q[1]) /\ q \in Seq(Segment) /\ q # <<>>
  <2> HIDE DEF s, a
  <2> QED
    BY <1>1, <1>2, <1>4, ArrivedFacts, ChannelType DEF Arrives, Inv
<1>7. /\ net' \in [Sock -> Seq(Segment)]
      /\ net'[s] = net[s] \o g
      /\ net'[a] = Tail(q)
      /\ \A x \in Sock \ {s} : Loses(net[x], net'[x])
      /\ \A x \in Sock \ {s, a} : net'[x] = net[x]
  <2> HIDE DEF s, a
  <2> QED
    BY <1>1, <1>2, <1>4, <1>5, AnswerFacts DEF Inv
<1>8. backlog' \in Seq(Clients)
  <2>1. Append(backlog, c) \in Seq(Clients)
    BY <1>5
  <2> QED
    BY <1>4, <1>5, <2>1
<1>9. TypeOK'
  BY <1>4, <1>7, <1>8 DEF Inv, TypeOK, userVars
<1>10. \A x \in Sock : Own(x)
  BY <1>4 DEF Own, Stream, userVars
<1>11. \A x \in Sock : Loses(net[x], net'[x])
  <2>1. net[s] \in Seq(Segment)
    BY <1>1, ChannelType DEF Inv
  <2>2. net'[s] = net[s]
    BY <1>3, <1>7, <2>1
  <2> QED
    BY <1>7, <2>2 DEF Loses
<1>12. AcceptOK'
  BY <1>4 DEF Inv, AcceptOK, userVars
<1>13. \A d \in Clients : SynOnce(d) /\ SameIdle(d)
  BY <1>4 DEF Inv, SameIdle, userVars
<1>14. PICK b : b = backlog
  OBVIOUS
<1>15. PICK e : e = backlog'
  OBVIOUS
<1>16. \A j \in 1..Len(e) : \/ j \in 1..Len(b) /\ e[j] = b[j]
                            \/ j = Len(b) + 1 /\ e[j] = c
  BY <1>4, <1>5, <1>14, <1>15
<1>17. SynOnce(c)'
  <2>1. app[a] # "idle" /\ app[s] = "idle" /\ \A i \in 1..Len(b) : b[i] # c
    BY <1>2, <1>6, <1>13, <1>14 DEF SynOnce
  <2>2. PICK r : r = Tail(q)
    OBVIOUS
  <2>3. ASSUME NEW j \in 1..Len(r) PROVE ~IsSyn(r[j])
    <3>1. j + 1 \in 1..Len(q) /\ r[j] = q[j + 1] /\ 1 # j + 1
      BY <1>6, <2>2, HeadTailProperties
    <3>2. \A k, l \in 1..Len(q) : IsSyn(q[k]) /\ IsSyn(q[l]) => k = l
      <4>1. SynOnce(c)
        BY <1>13
      <4> QED
        BY <1>2, <4>1 DEF SynOnce
    <3> QED
      BY <1>6, <3>1, <3>2
  <2>4. \A j \in 1..Len(e) : e[j] = c => j = Len(b) + 1
    BY <1>16, <2>1
  <2>5. app'[a] # "idle" /\ app'[s] = "idle"
    BY <1>4, <2>1 DEF userVars
  <2>6. r = net'[a] /\ e = backlog'
    BY <1>7, <1>15, <2>2
  <2> QED
    BY <2>3, <2>4, <2>5, <2>6 DEF SynOnce
<1>18. ASSUME NEW d \in Clients, d # c PROVE SynOnce(d)'
  <2>1. PICK f : f = net[<<d, "active">>]
    OBVIOUS
  <2>2. f = net'[<<d, "active">>]
    <3>1. <<d, "active">> \in Sock \ {s, a}
      BY <1>18, ClientSocks
    <3> QED
      BY <1>7, <2>1, <3>1
  <2>3. \A j \in 1..Len(e) : e[j] = d => j \in 1..Len(b) /\ b[j] = d
    BY <1>16, <1>18
  <2>4. /\ app'[<<d, "active">>] = app[<<d, "active">>]
        /\ app'[<<d, "passive">>] = app[<<d, "passive">>]
    BY <1>4 DEF userVars
  <2>5. /\ \A j \in 1..Len(f) : IsSyn(f[j]) =>
              /\ app'[<<d, "active">>] # "idle"
              /\ app'[<<d, "passive">>] = "idle"
              /\ \A i \in 1..Len(e) : e[i] # d
              /\ \A k \in 1..Len(f) : IsSyn(f[k]) => j = k
        /\ \A j \in 1..Len(e) : e[j] = d =>
              /\ app'[<<d, "active">>] # "idle"
              /\ app'[<<d, "passive">>] = "idle"
              /\ \A k \in 1..Len(e) : e[k] = d => j = k
        /\ app'[<<d, "active">>] = "idle" => app'[<<d, "passive">>] = "idle"
    BY <1>13, <1>14, <2>1, <2>3, <2>4, SMTT(30) DEF SynOnce
  <2> QED
    BY <1>15, <2>2, <2>5 DEF SynOnce
<1> QED
  BY <1>9, <1>10, <1>11, <1>12, <1>17, <1>18, SilentStep

-----------------------------------------------------------------------------
(* The calls of the applications.                                          *)

\* Socket s acts by itself and sends g; its peer may receive more.
LEMMA ActStep ==
    ASSUME Inv, TypeOK', ConstantsOK, NEW s \in Sock, NEW p, p = Peer(s),
           NEW g \in Seq(Segment),
           net'[s] = net[s] \o g, \A x \in Sock \ {s} : Loses(net[x], net'[x]),
           \A x \in Sock \ {s} : Own(x),
           Grows(s), SockOK(s)', Received(s)' = Received(s), FlowOK(p)',
           \A j \in 1..Len(g) : SegOK(s, g[j])',
           \A c \in Clients : SynOnce(c)', AcceptOK'
    PROVE  Inv'
<1>1. p \in Sock /\ p # s /\ Peer(p) = s
  BY PeerFacts
<1>2. \A x \in Sock : Grows(x)
  BY OwnGrows DEF Inv
<1>3. FlowOK(s)'
  BY <1>1, <1>2, FlowLoses DEF Inv
<1> DEFINE A == {s}
<1>4. /\ A \in SUBSET Sock
      /\ \A x \in Sock \ A : Own(x) /\ Loses(net[x], net'[x])
      /\ \A x \in A : /\ Grows(x) /\ SockOK(x)' /\ FlowOK(x)'
                      /\ net'[x] = net[x] \o g
  <2>1. ASSUME NEW x \in A PROVE Grows(x) /\ net'[x] = net[x] \o g
    BY DEF Grows
  <2>2. ASSUME NEW x \in A PROVE SockOK(x)'
    BY <2>2 DEF SockOK, IdleOK, SendOK, RecvOK, StateOK, Finished, Answered,
                Received, First, HandshakeOK
  <2>3. ASSUME NEW x \in A PROVE FlowOK(x)'
    BY <1>3 DEF FlowOK, Received, Finished, InOrder, Carries, First
  <2> QED
    BY <2>1, <2>2, <2>3
<1>5. \A x \in A, z \in Sock : z = Peer(x) => FlowOK(z)'
  <2> SUFFICES ASSUME NEW x \in A, NEW z \in Sock, z = Peer(x) PROVE FlowOK(z)'
    OBVIOUS
  <2>1. z = p
    OBVIOUS
  <2> QED
    BY <2>1
<1>6. \A x \in A : \A j \in 1..Len(g) : SegOK(x, g[j])'
  BY DEF SegOK, SynOK, AckOK, FinOK, Answered, Finished, Received, First
<1> HIDE DEF A
<1> QED
  BY <1>4, <1>5, <1>6, ActorStep

\* The application of s gets its result; nothing is sent.
LEMMA AppStep ==
    ASSUME Inv, ConstantsOK, NEW s \in Sock, NEW v,
           app[s] \notin {"idle", "closed"}, app' = [app EXCEPT ![s] = v],
           v \in {"open", "failed", "lost", "closed"},
           v = "open" => /\ app[s] \in {"connecting", "accepting"}
                         /\ tcb[s].state = "ESTABLISHED",
           accepting' # NoClient => <<accepting', "passive">> # s /\ accepting' = accepting,
           accepting' \in Clients \cup {NoClient},
           UNCHANGED <<tcb, inBuffer, readable, timer, listener, backlog, net,
                       reading, sent, got>>,
           table' \subseteq table
    PROVE  Inv'
<1>1. app \in [Sock -> {"idle", "connecting", "accepting", "open", "failed",
                        "lost", "closed"}]
  BY DEF Inv, TypeOK
<1>2. TypeOK'
  BY <1>1 DEF Inv, TypeOK
<1>3. \A x \in Sock : Stream(x)' = Stream(x) /\ Received(x)' = Received(x)
  BY DEF Stream, Received
<1>4. \A x \in Sock \ {s} : Own(x)
  BY <1>1, <1>3 DEF Own
<1>5. app'[s] = v /\ \A x \in Sock \ {s} : app'[x] = app[x]
  BY <1>1
<1>6. \A x \in Sock : Finished(x)' = Finished(x)
  BY <1>1, <1>5 DEF Finished
<1>7. /\ Received(s) \in Nat /\ sent[s] \in Nat /\ tcb[s].sndUna \in Nat
      /\ SockOK(s) /\ Peer(s) \in Sock \ {s} /\ First(Peer(s)) \in Nat
      /\ tcb[s].rcvNxt \in Int
  BY PeerFacts, StreamType, NumberType DEF Inv
<1>8. Grows(s)
  BY <1>3, <1>5, <1>6, <1>7 DEF Grows
<1>9. SockOK(s)'
  <2>1. IdleOK(s)'
    BY <1>5 DEF IdleOK
  <2>2. SendOK(s)'
    BY <1>3, <1>5, <1>6, <1>7 DEF SockOK, SendOK, First
  <2>3. RecvOK(s)'
    <3>1. v = "open" => tcb[s].rcvNxt # -1
      BY <1>7 DEF SockOK, RecvOK
    <3> QED
      BY <1>3, <1>5, <1>7, <3>1 DEF SockOK, RecvOK, First
  <2>4. StateOK(s)'
    <3>1. Answered(Peer(s))' = Answered(Peer(s))
      BY <1>4, <1>7 DEF Own, Answered
    <3> QED
      BY <1>5, <1>7, <3>1 DEF SockOK, StateOK, HandshakeOK
  <2> QED
    BY <2>1, <2>2, <2>3, <2>4 DEF SockOK
<1>10. PICK p : p = Peer(s)
  OBVIOUS
<1>11. FlowOK(p)'
  <2>1. FlowOK(p) /\ Received(p)' = Received(p) /\ Finished(p)' = Finished(p)
    BY <1>3, <1>6, <1>7, <1>10 DEF Inv
  <2> QED
    BY <2>1 DEF FlowOK
<1>12. PICK g : g = <<>>
  OBVIOUS
<1>13. /\ g \in Seq(Segment) /\ net'[s] = net[s] \o g
       /\ \A x \in Sock \ {s} : Loses(net[x], net'[x])
       /\ \A j \in 1..Len(g) : FALSE
  BY <1>12, ChannelType DEF Loses, Inv
<1>14. ASSUME NEW c \in Clients PROVE SynOnce(c)'
  <2>1. SameIdle(c)
    BY <1>5, ClientSocks DEF SameIdle
  <2>2. /\ net[<<c, "active">>] \in Seq(Segment)
        /\ Loses(net[<<c, "active">>], net'[<<c, "active">>])
    BY ClientSocks, ChannelType DEF Inv, Loses
  <2> QED
    BY <2>1, <2>2, SynLoses DEF Inv
<1>15. AcceptOK'
  <2> SUFFICES ASSUME accepting' # NoClient
               PROVE  app'[<<accepting', "passive">>] = "accepting"
    BY DEF AcceptOK
  <2>1. accepting' \in Clients /\ <<accepting', "passive">> \in Sock
    BY ClientSocks
  <2>2. app[<<accepting', "passive">>] = "accepting"
    BY DEF Inv, AcceptOK
  <2> QED
    BY <1>5, <2>1, <2>2
<1> QED
  BY <1>2, <1>3, <1>4, <1>8, <1>9, <1>10, <1>11, <1>13, <1>14, <1>15, ActStep

LEMMA ReturnsInv ==
    ASSUME Inv, ConstantsOK, NEW c \in Clients, ConnectReturns(c) \/ AcceptReturns(c)
    PROVE  Inv'
<1>1. CASE ConnectReturns(c)
  <2> DEFINE s == <<c, "active">>
  <2>1. PICK v : v = IF tcb[s].state = "ESTABLISHED" THEN "open" ELSE "failed"
    OBVIOUS
  <2>2. /\ app[s] = "connecting" /\ app' = [app EXCEPT ![s] = v]
        /\ UNCHANGED <<tcb, inBuffer, readable, table, timer, serverVars, net,
                       reading, sent, got>>
    BY <1>1, <2>1 DEF ConnectReturns
  <2>3. UNCHANGED <<tcb, inBuffer, readable, timer, listener, backlog, net,
                    reading, sent, got>>
        /\ table' \subseteq table /\ accepting' = accepting
    BY <2>2 DEF serverVars
  <2>4. \A d : <<d, "passive">> # s
    OBVIOUS
  <2>5. s \in Sock /\ accepting \in Clients \cup {NoClient}
    BY ClientSocks DEF Inv, TypeOK
  <2> HIDE DEF s
  <2> QED
    BY <2>1, <2>2, <2>3, <2>4, <2>5, AppStep
<1>2. CASE AcceptReturns(c)
  <2> DEFINE s == <<c, "passive">>
  <2>1. PICK v : v = IF tcb[s].state = "ESTABLISHED" THEN "open" ELSE "lost"
    OBVIOUS
  <2>2. /\ accepting = c /\ app' = [app EXCEPT ![s] = v] /\ accepting' = NoClient
        /\ UNCHANGED <<tcb, inBuffer, readable, timer, listener, backlog, net,
                       reading, sent, got>>
        /\ table' \subseteq table
    BY <1>2, <2>1 DEF AcceptReturns
  <2>3. s \in Sock
    BY ClientSocks
  <2>4. app[s] = "accepting"
    BY <2>2 DEF Inv, AcceptOK, ConstantsOK
  <2> HIDE DEF s
  <2> QED
    BY <2>1, <2>2, <2>3, <2>4, AppStep
<1> QED
  BY <1>1, <1>2

\* The fields of a socket nobody has opened.
LEMMA IdleFacts ==
    ASSUME Inv, ConstantsOK, NEW s \in Sock, app[s] = "idle"
    PROVE  /\ tcb[s] \in Tcb /\ tcb[s].state = "CLOSED"
           /\ tcb[s].sndNxt = ISS[s] /\ sent[s] = 0
           /\ ISS[s] <= tcb[s].sndUna
           /\ tcb[s].sndUna <= First(s) + Received(Peer(s))
           /\ tcb[s].rcvNxt <= MaxSeq
           /\ \A i \in 1..Received(s) : Stream(s)[i] = i
           /\ Received(s) <= sent[Peer(s)]
           /\ ~Finished(s)
<1>1. SockOK(s) /\ tcb[s] \in Tcb
  BY TcbOfSock DEF Inv
<1>2. ~Finished(s)
  BY DEF Finished
<1> QED
  BY <1>1, <1>2 DEF SockOK, IdleOK, SendOK, RecvOK

\* The SYN of connect().
LEMMA SynSegment ==
    ASSUME Inv, ConstantsOK, NEW s \in Sock, app[s] = "idle",
           NEW g, g = [MakeSegment(tcb[s]) EXCEPT !.flags = {"SYN"}]
    PROVE  /\ g \in Segment /\ g.flags = {"SYN"} /\ g.seq = ISS[s]
           /\ g.data = <<>> /\ SegLen(g) = 1
<1>1. tcb[s].state = "CLOSED" /\ tcb[s].sndNxt = ISS[s]
  BY IdleFacts
<1>2. MakeSegment(tcb[s]) = [flags |-> {}, seq |-> ISS[s], ack |-> 0, data |-> <<>>]
  BY <1>1 DEF MakeSegment
<1>3. ISS[s] \in 0..MaxSeq /\ 0 \in 0..MaxSeq /\ {"SYN"} \in SUBSET Flags
      /\ <<>> \in Seq(Nat)
  BY DEF ConstantsOK, Flags
<1>4. g = [[flags |-> {}, seq |-> ISS[s], ack |-> 0, data |-> <<>>]
               EXCEPT !.flags = {"SYN"}]
  BY <1>2
<1>5. /\ g \in Segment /\ g.flags = {"SYN"} /\ g.seq = ISS[s] /\ g.data = <<>>
  BY <1>3, <1>4 DEF Segment
<1>6. SegLen(g) = (IF "FIN" \in g.flags THEN 1 ELSE 0)
                  + (IF "SYN" \in g.flags THEN 1 ELSE 0)
  BY <1>5, SegLenNat
<1> QED
  BY <1>5, <1>6

\* The SYNs in flight once a client opens its connection.
LEMMA SynOpens ==
    ASSUME NEW c \in Clients, SynOnce(c), app[<<c, "active">>] = "idle",
           app'[<<c, "active">>] # "idle",
           app'[<<c, "passive">>] = app[<<c, "passive">>], UNCHANGED backlog,
           NEW q \in Seq(Segment), NEW r, q = net[<<c, "active">>],
           r = net'[<<c, "active">>], NEW g \in Seq(Segment), r = q \o g,
           \A j, k \in 1..Len(g) : j = k
    PROVE  SynOnce(c)'
<1>1. \A j \in 1..Len(r) :
          \/ j \in 1..Len(q) /\ r[j] = q[j]
          \/ /\ j > Len(q) /\ j - Len(q) \in 1..Len(g)
             /\ r[j] = g[j - Len(q)]
  BY AddsFacts
<1>2. /\ \A j \in 1..Len(q) : ~IsSyn(q[j])
      /\ \A j \in 1..Len(backlog) : backlog[j] # c
      /\ app'[<<c, "passive">>] = "idle"
  BY DEF SynOnce
<1>3. \A j, k \in 1..Len(r) : IsSyn(r[j]) /\ IsSyn(r[k]) => j = k
  <2> SUFFICES ASSUME NEW j \in 1..Len(r), NEW k \in 1..Len(r),
                      IsSyn(r[j]), IsSyn(r[k])
               PROVE  j = k
    OBVIOUS
  <2>1. j - Len(q) \in 1..Len(g) /\ k - Len(q) \in 1..Len(g)
    BY <1>1, <1>2
  <2>2. j - Len(q) = k - Len(q)
    BY <2>1
  <2> QED
    BY <2>2
<1> QED
  BY <1>2, <1>3 DEF SynOnce

LEMMA ConnectInv ==
    ASSUME Inv, ConstantsOK, NEW c \in Clients, Connect(c)
    PROVE  Inv'
<1> DEFINE s == <<c, "active">>
<1>1. PICK p : p = Peer(s)
  OBVIOUS
<1>2. PICK syn : syn = [MakeSegment(tcb[s]) EXCEPT !.flags = {"SYN"}]
  OBVIOUS
<1>3. PICK g : g = <<syn>>
  OBVIOUS
<1>4. PICK v : v = SendRaw(tcb[s], syn)
  OBVIOUS
<1>5. PICK u : u = [v EXCEPT !.state = "SYN-SENT"]
  OBVIOUS
<1>6. /\ app[s] = "idle" /\ tcb' = [tcb EXCEPT ![s] = u] /\ Transmit(s, g)
      /\ table' = table \cup {s} /\ app' = [app EXCEPT ![s] = "connecting"]
      /\ UNCHANGED <<inBuffer, readable, timer, serverVars, reading, sent, got>>
  BY <1>2, <1>3, <1>4, <1>5 DEF Connect
<1>7. s \in Sock /\ p \in Sock \ {s} /\ p = <<c, "passive">> /\ Peer(p) = s
      /\ s[2] = "active"
  <2>1. s \in Sock /\ p = <<c, "passive">> /\ s[2] = "active"
    BY <1>1, ClientSocks
  <2> HIDE DEF s
  <2> QED
    BY <1>1, <2>1, PeerFacts
<1> HIDE DEF s
<1>8. /\ tcb[s] \in Tcb /\ tcb[s].sndNxt = ISS[s] /\ sent[s] = 0
      /\ ISS[s] <= tcb[s].sndUna
      /\ tcb[s].sndUna <= First(s) + Received(p)
      /\ tcb[s].rcvNxt <= MaxSeq
      /\ \A i \in 1..Received(s) : Stream(s)[i] = i
      /\ Received(s) <= sent[p]
      /\ ~Finished(s)
  BY <1>1, <1>6, <1>7, IdleFacts
<1>9. /\ syn \in Segment /\ syn.flags = {"SYN"} /\ syn.seq = ISS[s]
      /\ syn.data = <<>> /\ SegLen(syn) = 1
  BY <1>2, <1>6, <1>7, SynSegment
<1>10. g \in Seq(Segment) /\ \A j \in 1..Len(g) : g[j] = syn /\ j = 1
  BY <1>3, <1>9
<1>11. /\ v \in Tcb /\ v.sndUna = tcb[s].sndUna /\ v.rcvNxt = tcb[s].rcvNxt
       /\ v.sndNxt = tcb[s].sndNxt + SegLen(syn)
  BY <1>4, <1>8, <1>9, SendRawFields
<1>12. /\ u \in Tcb /\ u.state = "SYN-SENT" /\ u.sndUna = tcb[s].sndUna
       /\ u.rcvNxt = tcb[s].rcvNxt /\ u.sndNxt = First(s)
  BY <1>5, <1>8, <1>9, <1>11 DEF Tcb, States, First
<1>13. /\ net' \in [Sock -> Seq(Segment)] /\ net'[s] = net[s] \o g
       /\ \A x \in Sock \ {s} : net'[x] = net[x] /\ Loses(net[x], net'[x])
  BY <1>6, <1>7, <1>10, TransmitFacts DEF Inv
<1>14. tcb \in [Sock -> Tcb] /\ app \in [Sock -> {"idle", "connecting", "accepting",
           "open", "failed", "lost", "closed"}] /\ table \subseteq Sock
  BY DEF Inv, TypeOK, Tcb
<1>15. /\ tcb' \in [Sock -> Tcb] /\ tcb'[s] = u /\ app'[s] = "connecting"
       /\ \A x \in Sock \ {s} : tcb'[x] = tcb[x] /\ app'[x] = app[x]
  BY <1>6, <1>7, <1>12, <1>14
<1>16. TypeOK'
  BY <1>6, <1>7, <1>13, <1>14, <1>15 DEF Inv, TypeOK, Tcb, serverVars
<1>17. \A x \in Sock : Stream(x)' = Stream(x) /\ Received(x)' = Received(x)
  BY <1>6 DEF Stream, Received
<1>18. \A x \in Sock \ {s} : Own(x)
  BY <1>6, <1>15, <1>17 DEF Own
<1>19. /\ Received(s) \in Nat /\ sent[s] \in Nat /\ tcb[s].sndUna \in Nat
       /\ ISS[s] \in Nat /\ First(s) \in Nat /\ sent' = sent
  BY <1>6, <1>7, StreamType, NumberType DEF Inv
<1>20. Grows(s)
  BY <1>6, <1>8, <1>12, <1>15, <1>17, <1>19 DEF Grows
<1>21. SockOK(s)'
  <2>1. IdleOK(s)'
    BY <1>15 DEF IdleOK
  <2>2. SendOK(s)'
    <3>1. First(s) = First(s) + sent'[s]
      BY <1>8, <1>19
    <3>2. Received(p)' = Received(p)
      BY <1>7, <1>17
    <3> QED
      BY <1>1, <1>8, <1>12, <1>15, <3>1, <3>2 DEF SendOK, First
  <2>3. RecvOK(s)'
    <3>1. Stream(s)' = Stream(s) /\ Received(s)' = Received(s)
      BY <1>7, <1>17
    <3>2. tcb'[s].state = "SYN-SENT" /\ tcb'[s].rcvNxt <= MaxSeq
      BY <1>8, <1>12, <1>15
    <3>3. Received(s)' <= sent'[p]
      BY <1>8, <1>19, <3>1
    <3> QED
      BY <1>1, <1>8, <1>15, <3>1, <3>2, <3>3 DEF RecvOK
  <2>4. StateOK(s)'
    BY <1>7, <1>12, <1>15, <1>19 DEF StateOK, HandshakeOK, First
  <2> QED
    BY <2>1, <2>2, <2>3, <2>4 DEF SockOK
<1>22. FlowOK(p)'
  <2>1. Grows(p) /\ Received(p)' = Received(p)
    BY <1>7, <1>17, <1>18, OwnGrows DEF Inv
  <2>2. \A j \in 1..Len(g) : g[j].data = <<>>
    BY <1>9, <1>10
  <2> QED
    BY <1>7, <1>10, <1>13, <1>16, <1>19, <2>1, <2>2, FlowAdds DEF Inv
<1>23. ASSUME NEW j \in 1..Len(g), NEW h, h = g[j] PROVE SegOK(s, h)'
  <2>1. h.flags = {"SYN"} /\ h.seq = ISS[s] /\ h.data = <<>>
    BY <1>9, <1>10, <1>23
  <2> QED
    BY <1>7, <2>1 DEF SegOK, SynOK, AckOK, FinOK
<1>24. \A j \in 1..Len(g) : SegOK(s, g[j])'
  BY <1>23
<1>25. ASSUME NEW d \in Clients PROVE SynOnce(d)'
  <2>1. CASE d = c
    <3>1. SynOnce(c)
      BY DEF Inv
    <3>2. s = <<c, "active">>
      BY DEF s
    <3>3. net[s] \in Seq(Segment)
      BY <1>7, ChannelType DEF Inv
    <3>4. app[<<c, "active">>] = "idle" /\ app'[<<c, "active">>] # "idle"
          /\ app'[<<c, "passive">>] = app[<<c, "passive">>] /\ backlog' = backlog
      BY <1>6, <1>7, <1>15, <3>2 DEF serverVars
    <3>5. \A j, k \in 1..Len(g) : j = k
      BY <1>10
    <3> QED
      BY <1>10, <1>13, <2>1, <3>1, <3>2, <3>3, <3>4, <3>5, SynOpens
  <2>2. CASE d # c
    <3>1. <<d, "active">> \in Sock \ {s} /\ <<d, "passive">> \in Sock \ {s}
      BY <2>2, ClientSocks DEF s
    <3>2. SynOnce(d) /\ SameIdle(d) /\ net[<<d, "active">>] \in Seq(Segment)
      BY <1>15, <3>1, ChannelType DEF Inv, SameIdle
    <3>3. Loses(net[<<d, "active">>], net'[<<d, "active">>]) /\ UNCHANGED backlog
      BY <1>6, <1>13, <3>1 DEF serverVars
    <3> QED
      BY <3>2, <3>3, SynLoses
  <2> QED
    BY <2>1, <2>2
<1>26. AcceptOK'
  <2>1. \A d \in Clients : <<d, "passive">> \in Sock \ {s}
    BY ClientSocks DEF s
  <2> QED
    BY <1>6, <1>15, <2>1 DEF Inv, TypeOK, AcceptOK, serverVars
<1> QED
  BY <1>1, <1>7, <1>10, <1>13, <1>16, <1>17, <1>18, <1>20, <1>21, <1>22, <1>24,
     <1>25, <1>26, ActStep

LEMMA ConnectRaisesInv ==
    ASSUME Inv, ConstantsOK, NEW c \in Clients, ConnectRaises(c)
    PROVE  Inv'
<1> DEFINE s == <<c, "active">>
<1>1. PICK p : p = Peer(s)
  OBVIOUS
<1>2. PICK syn : syn = [MakeSegment(tcb[s]) EXCEPT !.flags = {"SYN"}]
  OBVIOUS
<1>3. PICK u : u = [tcb[s] EXCEPT !.outBuffer = {syn}]
  OBVIOUS
<1>4. /\ app[s] = "idle" /\ tcb' = [tcb EXCEPT ![s] = u]
      /\ table' = table \cup {s} /\ app' = [app EXCEPT ![s] = "failed"]
      /\ UNCHANGED <<inBuffer, readable, timer, serverVars, net, reading, sent, got>>
  BY <1>2, <1>3 DEF ConnectRaises
<1>5. s \in Sock /\ p \in Sock \ {s} /\ p = <<c, "passive">> /\ Peer(p) = s
  <2>1. s \in Sock /\ p = <<c, "passive">>
    BY <1>1, ClientSocks
  <2> HIDE DEF s
  <2> QED
    BY <1>1, <2>1, PeerFacts
<1> HIDE DEF s
<1>6. /\ tcb[s] \in Tcb /\ tcb[s].state = "CLOSED"
      /\ ISS[s] <= tcb[s].sndUna /\ tcb[s].rcvNxt <= MaxSeq
      /\ \A i \in 1..Received(s) : Stream(s)[i] = i
      /\ Received(s) <= sent[p] /\ ~Finished(s)
  BY <1>1, <1>4, <1>5, IdleFacts
<1>7. syn \in Segment
  BY <1>2, <1>4, <1>5, SynSegment
<1>8. /\ u \in Tcb /\ u.state = "CLOSED" /\ u.sndUna = tcb[s].sndUna
      /\ u.rcvNxt = tcb[s].rcvNxt
  BY <1>3, <1>6, <1>7 DEF Tcb
<1>9. tcb \in [Sock -> Tcb] /\ app \in [Sock -> {"idle", "connecting", "accepting",
          "open", "failed", "lost", "closed"}] /\ table \subseteq Sock
  BY DEF Inv, TypeOK, Tcb
<1>10. /\ tcb' \in [Sock -> Tcb] /\ tcb'[s] = u /\ app'[s] = "failed"
       /\ \A x \in Sock \ {s} : tcb'[x] = tcb[x] /\ app'[x] = app[x]
  BY <1>4, <1>5, <1>8, <1>9
<1>11. TypeOK'
  BY <1>4, <1>5, <1>9, <1>10 DEF Inv, TypeOK, Tcb, serverVars
<1>12. \A x \in Sock : Stream(x)' = Stream(x) /\ Received(x)' = Received(x)
  BY <1>4 DEF Stream, Received
<1>13. \A x \in Sock \ {s} : Own(x)
  BY <1>4, <1>10, <1>12 DEF Own
<1>14. /\ Received(s) \in Nat /\ sent[s] \in Nat /\ tcb[s].sndUna \in Nat
       /\ sent' = sent
  BY <1>4, <1>5, StreamType, NumberType DEF Inv
<1>15. Finished(s)'
  BY <1>8, <1>10 DEF Finished, Taking
<1>16. Grows(s)
  BY <1>4, <1>5, <1>8, <1>10, <1>12, <1>14, <1>15 DEF Grows
<1>17. SockOK(s)'
  <2>1. IdleOK(s)'
    BY <1>10 DEF IdleOK
  <2>2. SendOK(s)'
    BY <1>6, <1>8, <1>10, <1>15 DEF SendOK
  <2>3. RecvOK(s)'
    <3>1. Stream(s)' = Stream(s) /\ Received(s)' = Received(s)
      BY <1>5, <1>12
    <3>2. tcb'[s].state = "CLOSED" /\ tcb'[s].rcvNxt <= MaxSeq
      BY <1>6, <1>8, <1>10
    <3>3. Received(s)' <= sent'[p]
      BY <1>6, <1>14, <3>1
    <3> QED
      BY <1>1, <1>6, <1>10, <3>1, <3>2, <3>3 DEF RecvOK
  <2>4. StateOK(s)'
    BY <1>8, <1>10 DEF StateOK, HandshakeOK
  <2> QED
    BY <2>1, <2>2, <2>3, <2>4 DEF SockOK
<1>18. PICK g : g = <<>>
  OBVIOUS
<1>19. /\ g \in Seq(Segment) /\ net' = net
       /\ \A x \in Sock : net[x] \in Seq(Segment) /\ net'[x] = net[x] \o g
       /\ \A x \in Sock \ {s} : Loses(net[x], net'[x])
       /\ \A j \in 1..Len(g) : FALSE
  BY <1>4, <1>18, ChannelType DEF Loses, Inv
<1>20. FlowOK(p)'
  <2>1. FlowOK(p) /\ Received(p)' = Received(p) /\ Finished(p)' = Finished(p)
    BY <1>5, <1>12, <1>13 DEF Inv, Own, Finished
  <2> QED
    BY <1>14, <1>19, <2>1 DEF FlowOK
<1>21. ASSUME NEW d \in Clients PROVE SynOnce(d)'
  <2>1. CASE d = c
    <3>1. SynOnce(c)
      BY DEF Inv
    <3>2. s = <<c, "active">>
      BY DEF s
    <3>3. app[<<c, "active">>] = "idle" /\ app'[<<c, "active">>] # "idle"
          /\ app'[<<c, "passive">>] = app[<<c, "passive">>] /\ backlog' = backlog
      BY <1>4, <1>5, <1>10, <3>2 DEF serverVars
    <3>4. \A j, k \in 1..Len(g) : j = k
      BY <1>19
    <3> QED
      BY <1>5, <1>19, <2>1, <3>1, <3>2, <3>3, <3>4, SynOpens
  <2>2. CASE d # c
    <3>1. <<d, "active">> \in Sock \ {s} /\ <<d, "passive">> \in Sock \ {s}
      BY <2>2, ClientSocks DEF s
    <3>2. SynOnce(d) /\ SameIdle(d) /\ net[<<d, "active">>] \in Seq(Segment)
      BY <1>10, <1>19, <3>1 DEF Inv, SameIdle
    <3>3. Loses(net[<<d, "active">>], net'[<<d, "active">>]) /\ UNCHANGED backlog
      BY <1>4, <1>19, <3>1 DEF serverVars
    <3> QED
      BY <3>2, <3>3, SynLoses
  <2> QED
    BY <2>1, <2>2
<1>22. AcceptOK'
  <2>1. \A d \in Clients : <<d, "passive">> \in Sock \ {s}
    BY ClientSocks DEF s
  <2> QED
    BY <1>4, <1>10, <2>1 DEF Inv, TypeOK, AcceptOK, serverVars
<1> QED
  BY <1>1, <1>5, <1>11, <1>12, <1>13, <1>16, <1>17, <1>19, <1>20, <1>21, <1>22, ActStep

LEMMA AcceptInv ==
    ASSUME Inv, ConstantsOK, NEW c \in Clients, Accept(c)
    PROVE  Inv'
<1> DEFINE s == <<c, "passive">>
<1>1. PICK p : p = Peer(s)
  OBVIOUS
<1>2. PICK syn : syn = Syn(c)
  OBVIOUS
<1>3. PICK t : t = [tcb[s] EXCEPT !.state = "SYN-RECEIVED"]
  OBVIOUS
<1>4. PICK u : u = SendAck(t, syn, {"SYN"})
  OBVIOUS
<1>5. PICK a : a = MakeAck(t, syn, {"SYN"})
  OBVIOUS
<1>6. PICK g : g = <<a>>
  OBVIOUS
<1>7. /\ backlog # <<>> /\ Head(backlog) = c /\ backlog' = Tail(backlog)
      /\ CanAck(t, syn) /\ tcb' = [tcb EXCEPT ![s] = u] /\ Transmit(s, g)
      /\ table' = table \cup {s} /\ accepting' = c
      /\ app' = [app EXCEPT ![s] = "accepting"]
      /\ UNCHANGED <<inBuffer, readable, timer, listener, reading, sent, got>>
  BY <1>2, <1>3, <1>4, <1>5, <1>6 DEF Accept
<1>8. s \in Sock /\ p \in Sock \ {s} /\ p = <<c, "active">> /\ Peer(p) = s
      /\ s[2] = "passive"
  <2>1. s \in Sock /\ p = <<c, "active">> /\ s[2] = "passive"
    BY <1>1, ClientSocks
  <2> HIDE DEF s
  <2> QED
    BY <1>1, <2>1, PeerFacts
<1> HIDE DEF s
<1>9. backlog \in Seq(Clients) /\ 1 \in 1..Len(backlog) /\ backlog[1] = c
      /\ Tail(backlog) \in Seq(Clients)
  BY <1>7 DEF Inv, TypeOK
<1>10. app[s] = "idle" /\ app[p] # "idle"
  <2>1. SynOnce(c)
    BY DEF Inv
  <2> QED
    BY <1>8, <1>9, <2>1 DEF SynOnce, s
<1>11. /\ tcb[s] \in Tcb /\ tcb[s].sndNxt = ISS[s] /\ sent[s] = 0
       /\ ISS[s] <= tcb[s].sndUna
       /\ tcb[s].sndUna <= First(s) + Received(p)
       /\ \A i \in 1..Received(s) : Stream(s)[i] = i
       /\ Received(s) <= sent[p]
       /\ ~Finished(s)
  BY <1>1, <1>8, <1>10, IdleFacts
<1>12. /\ Received(s) \in Nat /\ sent[s] \in Nat /\ tcb[s].sndUna \in Nat
       /\ ISS[s] \in Nat /\ First(s) \in Nat /\ First(p) \in Nat
       /\ ISS[p] \in Nat /\ ISS[p] <= MaxSeq /\ MaxSeq \in Nat
  BY <1>8, StreamType, NumberType DEF Inv
<1>13. syn \in Segment /\ syn.seq = ISS[p] /\ syn.data = <<>>
  <2>1. syn = [flags |-> {"SYN"}, seq |-> ISS[p], ack |-> 0, data |-> <<>>]
    BY <1>2, <1>8 DEF Syn
  <2>2. {"SYN"} \in SUBSET Flags /\ ISS[p] \in 0..MaxSeq /\ 0 \in 0..MaxSeq
        /\ <<>> \in Seq(Nat)
    BY <1>12 DEF Flags
  <2> QED
    BY <2>1, <2>2 DEF Segment
<1>14. AckNumber(syn) = First(p) /\ {"SYN"} \in SUBSET Flags
  BY <1>13, AckNumberNat DEF First, Flags
<1>15. /\ t \in Tcb /\ t.state = "SYN-RECEIVED" /\ t.sndUna = tcb[s].sndUna
       /\ t.sndNxt = ISS[s]
  BY <1>3, <1>11 DEF Tcb, States
<1>16. /\ u \in Tcb /\ u.state = "SYN-RECEIVED" /\ u.sndUna = tcb[s].sndUna
       /\ u.rcvNxt = First(p) /\ u.sndNxt = First(s)
  <2>1. /\ u \in Tcb /\ u.state = t.state /\ u.sndUna = t.sndUna
        /\ u.rcvNxt = AckNumber(syn)
        /\ u.sndNxt = t.sndNxt + (IF "FIN" \in {"SYN"} THEN 1 ELSE 0)
                               + (IF "SYN" \in {"SYN"} THEN 1 ELSE 0)
    BY <1>4, <1>7, <1>13, <1>14, <1>15, SendAckFields
  <2>2. u.sndNxt = ISS[s] + 1
    BY <1>12, <1>15, <2>1
  <2> QED
    BY <1>14, <1>15, <2>1, <2>2 DEF First
<1>17. /\ a \in Segment /\ a.flags = {"ACK", "SYN"} /\ a.seq = ISS[s]
       /\ a.ack = First(p) /\ a.data = <<>>
  <2>1. /\ a \in Segment /\ a.flags = {"ACK"} \cup {"SYN"} /\ a.seq = t.sndNxt
        /\ a.ack = AckNumber(syn) /\ a.data = <<>>
    BY <1>5, <1>7, <1>13, <1>14, <1>15, MakeAckFields
  <2> QED
    BY <1>14, <1>15, <2>1
<1>18. g \in Seq(Segment) /\ \A j \in 1..Len(g) : g[j] = a
  BY <1>6, <1>17
<1>19. /\ net' \in [Sock -> Seq(Segment)] /\ net'[s] = net[s] \o g
       /\ \A x \in Sock \ {s} : net'[x] = net[x] /\ Loses(net[x], net'[x])
  BY <1>7, <1>8, <1>18, TransmitFacts DEF Inv
<1>20. tcb \in [Sock -> Tcb] /\ app \in [Sock -> {"idle", "connecting", "accepting",
           "open", "failed", "lost", "closed"}] /\ table \subseteq Sock
  BY DEF Inv, TypeOK, Tcb
<1>21. /\ tcb' \in [Sock -> Tcb] /\ tcb'[s] = u /\ app'[s] = "accepting"
       /\ \A x \in Sock \ {s} : tcb'[x] = tcb[x] /\ app'[x] = app[x]
  BY <1>7, <1>8, <1>16, <1>20
<1>22. TypeOK'
  BY <1>7, <1>8, <1>9, <1>19, <1>20, <1>21 DEF Inv, TypeOK, Tcb
<1>23. \A x \in Sock : Stream(x)' = Stream(x) /\ Received(x)' = Received(x)
  BY <1>7 DEF Stream, Received
<1>24. \A x \in Sock \ {s} : Own(x)
  BY <1>7, <1>21, <1>23 DEF Own
<1>25. Grows(s)
  BY <1>7, <1>8, <1>10, <1>11, <1>12, <1>16, <1>21, <1>23 DEF Grows
<1>26. Received(s)' = Received(s) /\ Stream(s)' = Stream(s) /\ sent' = sent
       /\ Received(p)' = Received(p)
  BY <1>7, <1>8, <1>23
<1>27. SockOK(s)'
  <2>1. IdleOK(s)'
    BY <1>21 DEF IdleOK
  <2>2. SendOK(s)'
    <3>1. First(s) = First(s) + sent'[s]
      BY <1>11, <1>12, <1>26
    <3> QED
      BY <1>1, <1>11, <1>16, <1>21, <1>26, <3>1 DEF SendOK, First
  <2>3. RecvOK(s)'
    <3>1. tcb'[s].rcvNxt = First(p) /\ First(p) <= First(p) + Received(s)'
      BY <1>12, <1>16, <1>21, <1>26
    <3>2. tcb'[s].rcvNxt <= MaxSeq
      BY <1>7, <1>14, <1>16, <1>21 DEF CanAck
    <3>3. Received(s)' <= sent'[p] /\ \A i \in 1..Received(s)' : Stream(s)'[i] = i
      BY <1>11, <1>26
    <3>4. First(p) <= First(p) /\ First(p)' = First(p)
      BY <1>12 DEF First
    <3> QED
      BY <1>1, <1>21, <3>1, <3>2, <3>3, <3>4 DEF RecvOK
  <2>4. StateOK(s)'
    BY <1>8, <1>16, <1>21 DEF StateOK, HandshakeOK
  <2> QED
    BY <2>1, <2>2, <2>3, <2>4 DEF SockOK
<1>28. FlowOK(p)'
  <2>1. Grows(p)
    BY <1>8, <1>24, OwnGrows DEF Inv
  <2>2. \A j \in 1..Len(g) : g[j].data = <<>>
    BY <1>17, <1>18
  <2> QED
    BY <1>8, <1>18, <1>19, <1>22, <1>26, <2>1, <2>2, FlowAdds DEF Inv
<1>29. ASSUME NEW j \in 1..Len(g), NEW h, h = g[j] PROVE SegOK(s, h)'
  <2>1. /\ h.flags = {"ACK", "SYN"} /\ h.seq = ISS[s] /\ h.data = <<>>
        /\ h.ack = First(p) /\ First(p)' = First(p)
    BY <1>17, <1>18, <1>29 DEF First
  <2>2. First(p) <= First(p) + Received(s)'
    BY <1>12, <1>26
  <2> QED
    BY <1>1, <1>8, <2>1, <2>2 DEF SegOK, SynOK, AckOK, FinOK
<1>30. \A j \in 1..Len(g) : SegOK(s, g[j])'
  BY <1>29
<1>31. ASSUME NEW d \in Clients PROVE SynOnce(d)'
  <2>1. CASE d = c
    <3>1. SynOnce(c)
      BY DEF Inv
    <3>2. PICK q : q = net[p]
      OBVIOUS
    <3>3. PICK r : r = Tail(backlog)
      OBVIOUS
    <3>4. \A j \in 1..Len(q) : ~IsSyn(q[j])
      BY <1>8, <1>9, <3>1, <3>2 DEF SynOnce
    <3>5. \A j \in 1..Len(r) : r[j] # c
      <4> SUFFICES ASSUME NEW j \in 1..Len(r) PROVE r[j] # c
        OBVIOUS
      <4>1. j + 1 \in 1..Len(backlog) /\ r[j] = backlog[j + 1] /\ 1 # j + 1
        BY <1>7, <1>9, <3>3, HeadTailProperties
      <4> QED
        BY <1>9, <3>1, <4>1 DEF SynOnce
    <3>6. q = net'[<<c, "active">>] /\ r = backlog' /\ app'[<<c, "active">>] # "idle"
      BY <1>7, <1>8, <1>10, <1>19, <1>21, <3>2, <3>3
    <3> QED
      BY <2>1, <3>4, <3>5, <3>6 DEF SynOnce
  <2>2. CASE d # c
    <3>1. <<d, "active">> \in Sock \ {s} /\ <<d, "passive">> \in Sock \ {s}
      BY <2>2, ClientSocks DEF s
    <3>2. /\ SynOnce(d) /\ SameIdle(d)
          /\ net'[<<d, "active">>] = net[<<d, "active">>]
      BY <1>19, <1>21, <3>1 DEF Inv, SameIdle
    <3> QED
      BY <1>7, <1>9, <3>2, SynTail
  <2> QED
    BY <2>1, <2>2
<1>32. AcceptOK'
  BY <1>7, <1>21 DEF AcceptOK, s
<1> QED
  BY <1>1, <1>8, <1>18, <1>19, <1>22, <1>23, <1>24, <1>25, <1>27, <1>28, <1>30,
     <1>31, <1>32, ActStep

\* The segment of send().
LEMMA DataSegment ==
    ASSUME ConstantsOK, NEW t \in Tcb, CanMake(t), t.rcvNxt \in 0..MaxSeq,
           NEW d \in Seq(Nat), NEW g, g = MakeDataSegment(t, d)
    PROVE  /\ g \in Segment /\ g.seq = t.sndNxt /\ g.ack = t.rcvNxt /\ g.data = d
           /\ g.flags = IF t.state = "ESTABLISHED" THEN {"ACK", "PSH"} ELSE {"PSH"}
           /\ SegLen(g) = Len(d)
<1> DEFINE f == IF t.state = "ESTABLISHED" THEN {"ACK"} ELSE {}
           k == IF t.state = "ESTABLISHED" THEN t.rcvNxt ELSE 0
           x == f \cup {"PSH"}
<1>1. x = IF t.state = "ESTABLISHED" THEN {"ACK", "PSH"} ELSE {"PSH"}
  OBVIOUS
<1>2. x \in SUBSET Flags /\ "FIN" \notin x /\ "SYN" \notin x
  BY <1>1 DEF Flags
<1>3. MakeSegment(t) = [flags |-> f, seq |-> t.sndNxt, ack |-> k, data |-> <<>>]
  BY DEF MakeSegment
<1>4. MakeSegment(t).flags \cup {"PSH"} = x
  BY <1>3
<1>5. g = [MakeSegment(t) EXCEPT !.flags = MakeSegment(t).flags \cup {"PSH"},
                                 !.ack = t.rcvNxt, !.data = d]
  BY DEF MakeDataSegment
<1>6. t.sndNxt \in 0..MaxSeq
  BY DEF CanMake, Tcb, ConstantsOK
<1> HIDE DEF f, k, x
<1>7. g = [[flags |-> f, seq |-> t.sndNxt, ack |-> k, data |-> <<>>]
              EXCEPT !.flags = x, !.ack = t.rcvNxt, !.data = d]
  BY <1>3, <1>4, <1>5
<1>8. g \in Segment /\ g.seq = t.sndNxt /\ g.ack = t.rcvNxt /\ g.data = d /\ g.flags = x
  BY <1>2, <1>6, <1>7 DEF Segment
<1>9. SegLen(g) = Len(d)
  <2>1. Len(d) \in Nat /\ "FIN" \notin g.flags /\ "SYN" \notin g.flags
    BY <1>2, <1>8
  <2>2. SegLen(g) = Len(d) + 0 + 0
    BY <1>8, <2>1 DEF SegLen
  <2> QED
    BY <2>1, <2>2
<1> QED
  BY <1>1, <1>8, <1>9

LEMMA SendInv ==
    ASSUME Inv, ConstantsOK, NEW s \in Sock, NEW n \in PayloadSizes, Send(s, n)
    PROVE  Inv'
<1>1. PICK p : p = Peer(s)
  OBVIOUS
<1>2. PICK m : m = sent[s]
  OBVIOUS
<1>3. PICK d : d = [i \in 1..n |-> m + i]
  OBVIOUS
<1>4. PICK seg : seg = MakeDataSegment(tcb[s], d)
  OBVIOUS
<1>5. PICK g : g = <<seg>>
  OBVIOUS
<1>6. PICK u : u = SendRaw(tcb[s], seg)
  OBVIOUS
<1>7. /\ app[s] = "open" /\ CanMake(tcb[s])
      /\ tcb' = [tcb EXCEPT ![s] = u] /\ Transmit(s, g)
      /\ sent' = [sent EXCEPT ![s] = m + n]
      /\ UNCHANGED <<inBuffer, readable, table, timer, serverVars, app, reading, got>>
  BY <1>2, <1>3, <1>4, <1>5, <1>6 DEF Send
<1>8. p \in Sock \ {s} /\ Peer(p) = s
  BY <1>1, PeerFacts
<1>9. /\ tcb[s] \in Tcb /\ SockOK(s) /\ SockOK(p) /\ sent \in [Sock -> Nat]
      /\ tcb \in [Sock -> Tcb]
  BY <1>8, TcbOfSock DEF Inv, TypeOK, Tcb
<1>10. /\ m \in Nat /\ n \in Nat \ {0} /\ m + n \in Nat /\ m <= m + n
       /\ First(s) \in Nat /\ First(p) \in Nat /\ Received(s) \in Nat
       /\ Received(p) \in Nat /\ MaxSeq \in Nat
       /\ tcb[s].sndUna \in Nat /\ tcb[s].sndNxt \in Nat /\ tcb[s].rcvNxt \in Int
       /\ ISS[s] \in Nat
  <2>1. n \in Nat \ {0}
    BY DEF ConstantsOK
  <2>2. /\ m \in Nat /\ First(s) \in Nat /\ First(p) \in Nat /\ Received(s) \in Nat
        /\ Received(p) \in Nat /\ MaxSeq \in Nat
        /\ tcb[s].sndUna \in Nat /\ tcb[s].sndNxt \in Nat /\ tcb[s].rcvNxt \in Int
        /\ ISS[s] \in Nat
    BY <1>2, <1>8, StreamType, NumberType DEF Inv
  <2> QED
    BY <2>1, <2>2
<1>11. d \in Seq(Nat) /\ Len(d) = n /\ \A i \in 1..n : d[i] = m + i
  BY <1>3, <1>10, SMTT(30)
<1>12. tcb[s].rcvNxt \in 0..MaxSeq
  <2>1. tcb[s].rcvNxt # -1 /\ tcb[s].rcvNxt <= MaxSeq
    BY <1>7, <1>9 DEF SockOK, RecvOK
  <2>2. tcb[s].rcvNxt \in Nat \cup {-1}
    BY <1>9 DEF Tcb
  <2> QED
    BY <1>10, <2>1, <2>2
<1>13. /\ seg \in Segment /\ seg.seq = tcb[s].sndNxt /\ seg.ack = tcb[s].rcvNxt
       /\ seg.data = d /\ SegLen(seg) = n
       /\ seg.flags = IF tcb[s].state = "ESTABLISHED" THEN {"ACK", "PSH"} ELSE {"PSH"}
  BY <1>4, <1>7, <1>9, <1>11, <1>12, DataSegment
<1>14. g \in Seq(Segment) /\ \A j \in 1..Len(g) : g[j] = seg
  BY <1>5, <1>13
<1>15. /\ u \in Tcb /\ u.state = tcb[s].state /\ u.sndUna = tcb[s].sndUna
       /\ u.rcvNxt = tcb[s].rcvNxt /\ u.sndNxt = tcb[s].sndNxt + n
  BY <1>6, <1>9, <1>13, SendRawFields
<1>16. /\ net' \in [Sock -> Seq(Segment)] /\ net'[s] = net[s] \o g
       /\ \A x \in Sock \ {s} : net'[x] = net[x] /\ Loses(net[x], net'[x])
  BY <1>7, <1>14, TransmitFacts DEF Inv
<1>17. /\ tcb' \in [Sock -> Tcb] /\ tcb'[s] = u
       /\ sent' \in [Sock -> Nat] /\ sent'[s] = m + n
       /\ \A x \in Sock \ {s} : tcb'[x] = tcb[x] /\ sent'[x] = sent[x]
  BY <1>7, <1>9, <1>10, <1>15
<1>18. TypeOK'
  BY <1>7, <1>16, <1>17 DEF Inv, TypeOK, Tcb, serverVars
<1>19. \A x \in Sock : Stream(x)' = Stream(x) /\ Received(x)' = Received(x)
  BY <1>7 DEF Stream, Received
<1>20. \A x \in Sock \ {s} : Own(x)
  BY <1>7, <1>17, <1>19 DEF Own
<1>21. /\ Received(s)' = Received(s) /\ Stream(s)' = Stream(s)
       /\ Received(p)' = Received(p) /\ app' = app
       /\ Finished(s)' = Finished(s) /\ Finished(p)' = Finished(p)
       /\ Answered(p)' = Answered(p)
  BY <1>7, <1>8, <1>15, <1>17, <1>19 DEF Finished, Answered
<1>22. Grows(s)
  BY <1>2, <1>10, <1>15, <1>17, <1>21 DEF Grows
<1>23. tcb[s].sndNxt = First(s) + m \/ Finished(p)
  BY <1>1, <1>2, <1>7, <1>9 DEF SockOK, SendOK
<1>24. SockOK(s)'
  <2>1. IdleOK(s)'
    BY <1>7 DEF IdleOK
  <2>2. SendOK(s)'
    <3>1. tcb'[s].sndNxt = First(s) + sent'[s] \/ Finished(p)'
      BY <1>10, <1>15, <1>17, <1>21, <1>23
    <3>2. tcb'[s].sndUna = tcb[s].sndUna
      BY <1>15, <1>17
    <3> QED
      BY <1>1, <1>9, <1>21, <3>1, <3>2 DEF SockOK, SendOK, First
  <2>3. RecvOK(s)'
    <3>1. sent'[p] = sent[p] /\ tcb'[s].rcvNxt = tcb[s].rcvNxt
          /\ tcb'[s].state = tcb[s].state
      BY <1>8, <1>15, <1>17
    <3> QED
      BY <1>1, <1>9, <1>21, <3>1 DEF SockOK, RecvOK, First
  <2>4. StateOK(s)'
    <3>1. tcb'[s].state = tcb[s].state /\ tcb'[s].sndUna = tcb[s].sndUna
          /\ tcb'[s].sndNxt = tcb[s].sndNxt + n
      BY <1>15, <1>17
    <3>2. tcb[s].sndNxt > ISS[s] => tcb[s].sndNxt + n > ISS[s]
      BY <1>10
    <3> QED
      BY <1>1, <1>9, <1>21, <3>1, <3>2 DEF SockOK, StateOK, HandshakeOK
  <2> QED
    BY <2>1, <2>2, <2>3, <2>4 DEF SockOK
<1>25. FlowOK(p)'
  <2> SUFFICES ASSUME ~Finished(p)
               PROVE  InOrder(s, net[s] \o g, Received(p), m + n)
    BY <1>8, <1>16, <1>17, <1>21 DEF FlowOK
  <2>1. seg.seq = First(s) + m
    BY <1>13, <1>23
  <2>2. Carries(s, seg, m, m + n)
    <3>1. \A i \in 1..n : d[i] = seg.seq - First(s) + i
      BY <1>10, <1>11, <2>1
    <3>2. seg.seq + n <= First(s) + (m + n) /\ First(s) + m <= seg.seq
      BY <1>10, <2>1
    <3> QED
      BY <1>11, <1>13, <3>1, <3>2 DEF Carries
  <2>3. InOrder(s, net[s], Received(p), m)
    BY <1>2, <1>8 DEF Inv, FlowOK
  <2>4. Received(p) <= m
    BY <1>2, <1>8, <1>9 DEF SockOK, RecvOK
  <2>5. net[s] \in Seq(Segment)
    BY ChannelType DEF Inv
  <2> QED
    BY <1>5, <1>10, <1>13, <2>1, <2>2, <2>3, <2>4, <2>5, InOrderSends
<1>26. ASSUME NEW j \in 1..Len(g), NEW h, h = g[j] PROVE SegOK(s, h)'
  <2>1. /\ h.ack = tcb[s].rcvNxt /\ "SYN" \notin h.flags /\ "FIN" \notin h.flags
        /\ "ACK" \in h.flags => tcb[s].state = "ESTABLISHED"
    BY <1>13, <1>14, <1>26
  <2>2. tcb[s].state = "ESTABLISHED" =>
           /\ tcb[s].rcvNxt <= First(p) + Received(s)
           /\ s[2] = "active" => Answered(s)
    BY <1>1, <1>9 DEF SockOK, RecvOK, StateOK, HandshakeOK, Answered
  <2>3. Answered(s)' = Answered(s) /\ First(p)' = First(p)
    BY <1>15, <1>17, <1>21 DEF Answered, First
  <2> QED
    BY <1>1, <1>21, <2>1, <2>2, <2>3 DEF SegOK, SynOK, AckOK, FinOK
<1>27. \A j \in 1..Len(g) : SegOK(s, g[j])'
  BY <1>26
<1>28. ASSUME NEW c \in Clients PROVE SynOnce(c)'
  <2>1. \A j \in 1..Len(g) : ~IsSyn(g[j])
    BY <1>13, <1>14 DEF IsSyn
  <2>2. /\ {s} \in SUBSET Sock
        /\ \A x \in Sock \ {s} : Loses(net[x], net'[x])
        /\ \A x \in {s} : net'[x] = net[x] \o g
        /\ \A x \in Sock : app[x] = "idle" <=> app'[x] = "idle"
        /\ UNCHANGED backlog
    BY <1>7, <1>16 DEF serverVars
  <2> QED
    BY <1>14, <2>1, <2>2, SynStep
<1>29. AcceptOK'
  BY <1>7 DEF Inv, AcceptOK, serverVars
<1> QED
  BY <1>1, <1>14, <1>16, <1>18, <1>20, <1>21, <1>22, <1>24, <1>25, <1>27, <1>28,
     <1>29, ActStep

LEMMA CloseInv ==
    ASSUME Inv, ConstantsOK, NEW s \in Sock, Close(s)
    PROVE  Inv'
<1>1. CASE tcb[s].state = "CLOSED"
  <2>1. PICK v : v = "closed"
    OBVIOUS
  <2>2. /\ app[s] \in {"open", "failed"} /\ app' = [app EXCEPT ![s] = v]
        /\ table' = table \ {s}
        /\ UNCHANGED <<tcb, net, inBuffer, readable, timer, serverVars, reading,
                       sent, got>>
    BY <1>1, <2>1 DEF Close
  <2>3. /\ UNCHANGED <<tcb, inBuffer, readable, timer, listener, backlog, net,
                       reading, sent, got>>
        /\ table' \subseteq table /\ accepting' = accepting
    BY <2>2 DEF serverVars
  <2>4. /\ accepting \in Clients \cup {NoClient}
        /\ accepting # NoClient => <<accepting, "passive">> # s
    BY <2>2 DEF Inv, TypeOK, AcceptOK
  <2> QED
    BY <2>1, <2>2, <2>3, <2>4, AppStep
<1>2. CASE tcb[s].state # "CLOSED"
  <2>1. PICK p : p = Peer(s)
    OBVIOUS
  <2>2. PICK fin : fin = [MakeSegment(tcb[s]) EXCEPT !.flags =
                             MakeSegment(tcb[s]).flags \cup {"FIN", "ACK"}]
    OBVIOUS
  <2>3. PICK g : g = <<fin>>
    OBVIOUS
  <2>4. PICK v : v = SendRaw(tcb[s], fin)
    OBVIOUS
  <2>5. PICK u : u = [v EXCEPT !.state = "FIN-WAIT-1"]
    OBVIOUS
  <2>6. /\ app[s] \in {"open", "failed"} /\ CanMake(tcb[s])
        /\ tcb' = [tcb EXCEPT ![s] = u] /\ Transmit(s, g)
        /\ app' = [app EXCEPT ![s] = "closed"]
        /\ UNCHANGED <<table, inBuffer, readable, timer, serverVars, reading,
                       sent, got>>
    BY <1>2, <2>2, <2>3, <2>4, <2>5 DEF Close
  <2>7. p \in Sock \ {s} /\ Peer(p) = s
    BY <2>1, PeerFacts
  <2>8. /\ tcb[s] \in Tcb /\ SockOK(s) /\ tcb \in [Sock -> Tcb]
        /\ app \in [Sock -> {"idle", "connecting", "accepting", "open",
                             "failed", "lost", "closed"}]
    BY TcbOfSock DEF Inv, TypeOK, Tcb
  <2>9. /\ First(s) \in Nat /\ First(p) \in Nat /\ Received(s) \in Nat
        /\ MaxSeq \in Nat /\ tcb[s].sndUna \in Nat /\ tcb[s].sndNxt \in Nat
        /\ tcb[s].rcvNxt \in Int /\ ISS[s] \in Nat /\ sent[s] \in Nat
    BY <2>7, StreamType, NumberType DEF Inv
  <2>10. PICK k : k = IF tcb[s].state = "ESTABLISHED" THEN tcb[s].rcvNxt ELSE 0
    OBVIOUS
  <2>11. /\ k \in 0..MaxSeq /\ k <= First(p) + Received(s)
    <3>1. tcb[s].state = "ESTABLISHED" =>
             /\ First(p) <= tcb[s].rcvNxt /\ tcb[s].rcvNxt <= First(p) + Received(s)
             /\ tcb[s].rcvNxt <= MaxSeq
      BY <2>1, <2>8 DEF SockOK, RecvOK
    <3> QED
      BY <2>9, <2>10, <3>1
  <2>12. /\ fin \in Segment /\ fin.flags = {"FIN", "ACK"} /\ fin.ack = k
         /\ fin.data = <<>> /\ SegLen(fin) = 1
    <3> DEFINE f == IF tcb[s].state = "ESTABLISHED" THEN {"ACK"} ELSE {}
               x == f \cup {"FIN", "ACK"}
    <3>1. x = {"FIN", "ACK"} /\ x \in SUBSET Flags /\ <<>> \in Seq(Nat)
      BY DEF Flags
    <3>2. MakeSegment(tcb[s]) = [flags |-> f, seq |-> tcb[s].sndNxt, ack |-> k,
                                 data |-> <<>>]
      BY <2>10 DEF MakeSegment
    <3>3. MakeSegment(tcb[s]).flags \cup {"FIN", "ACK"} = x
      BY <3>2
    <3>4. tcb[s].sndNxt \in 0..MaxSeq
      BY <2>6, <2>9 DEF CanMake
    <3> HIDE DEF f, x
    <3>5. fin = [[flags |-> f, seq |-> tcb[s].sndNxt, ack |-> k, data |-> <<>>]
                    EXCEPT !.flags = x]
      BY <2>2, <3>2, <3>3
    <3>6. fin \in Segment /\ fin.flags = x /\ fin.ack = k /\ fin.data = <<>>
      BY <2>11, <3>1, <3>4, <3>5 DEF Segment
    <3>7. SegLen(fin) = (IF "FIN" \in fin.flags THEN 1 ELSE 0)
                        + (IF "SYN" \in fin.flags THEN 1 ELSE 0)
      BY <3>6, SegLenNat
    <3> QED
      BY <3>1, <3>6, <3>7
  <2>13. g \in Seq(Segment) /\ \A j \in 1..Len(g) : g[j] = fin
    BY <2>3, <2>12
  <2>14. /\ v \in Tcb /\ v.sndUna = tcb[s].sndUna /\ v.rcvNxt = tcb[s].rcvNxt
    BY <2>4, <2>8, <2>12, SendRawFields
  <2>15. /\ u \in Tcb /\ u.state = "FIN-WAIT-1" /\ u.sndUna = tcb[s].sndUna
         /\ u.rcvNxt = tcb[s].rcvNxt
    BY <2>5, <2>14 DEF Tcb, States
  <2>16. /\ net' \in [Sock -> Seq(Segment)] /\ net'[s] = net[s] \o g
         /\ \A x \in Sock \ {s} : net'[x] = net[x] /\ Loses(net[x], net'[x])
    BY <2>6, <2>13, TransmitFacts DEF Inv
  <2>17. /\ tcb' \in [Sock -> Tcb] /\ tcb'[s] = u /\ app'[s] = "closed"
         /\ \A x \in Sock \ {s} : tcb'[x] = tcb[x] /\ app'[x] = app[x]
    BY <2>6, <2>8, <2>15
  <2>18. TypeOK'
    BY <2>6, <2>8, <2>16, <2>17 DEF Inv, TypeOK, Tcb, serverVars
  <2>19. \A x \in Sock : Stream(x)' = Stream(x) /\ Received(x)' = Received(x)
    BY <2>6 DEF Stream, Received
  <2>20. \A x \in Sock \ {s} : Own(x)
    BY <2>6, <2>17, <2>19 DEF Own
  <2>21. /\ Received(s)' = Received(s) /\ Stream(s)' = Stream(s)
         /\ Received(p)' = Received(p) /\ sent' = sent /\ Finished(s)'
    BY <2>6, <2>7, <2>15, <2>17, <2>19 DEF Finished, Taking
  <2>22. Grows(s)
    BY <2>6, <2>9, <2>15, <2>17, <2>21 DEF Grows
  <2>23. SockOK(s)'
    <3>1. IdleOK(s)'
      BY <2>17 DEF IdleOK
    <3>2. SendOK(s)'
      BY <2>8, <2>15, <2>17, <2>21 DEF SockOK, SendOK
    <3>3. RecvOK(s)'
      BY <2>1, <2>8, <2>15, <2>17, <2>21 DEF SockOK, RecvOK
    <3>4. StateOK(s)'
      BY <2>15, <2>17 DEF StateOK, HandshakeOK
    <3> QED
      BY <3>1, <3>2, <3>3, <3>4 DEF SockOK
  <2>24. FlowOK(p)'
    <3>1. Grows(p)
      BY <2>7, <2>20, OwnGrows DEF Inv
    <3>2. \A j \in 1..Len(g) : g[j].data = <<>>
      BY <2>12, <2>13
    <3> QED
      BY <2>7, <2>13, <2>16, <2>18, <2>21, <3>1, <3>2, FlowAdds DEF Inv
  <2>25. ASSUME NEW j \in 1..Len(g), NEW h, h = g[j] PROVE SegOK(s, h)' /\ ~IsSyn(h)
    <3>1. /\ h.flags = {"FIN", "ACK"} /\ h.data = <<>>
          /\ h.ack <= First(p) + Received(s)'
      BY <2>11, <2>12, <2>13, <2>21, <2>25
    <3>2. Answered(s)'
      BY <2>17 DEF Answered
    <3> QED
      BY <2>1, <2>21, <3>1, <3>2, AckSegOK
  <2>26. \A j \in 1..Len(g) : SegOK(s, g[j])'
    BY <2>25
  <2>27. ASSUME NEW c \in Clients PROVE SynOnce(c)'
    <3>1. \A j \in 1..Len(g) : ~IsSyn(g[j])
      BY <2>25
    <3>2. /\ {s} \in SUBSET Sock
          /\ \A x \in Sock \ {s} : Loses(net[x], net'[x])
          /\ \A x \in {s} : net'[x] = net[x] \o g
          /\ \A x \in Sock : app[x] = "idle" <=> app'[x] = "idle"
          /\ UNCHANGED backlog
      BY <2>6, <2>16, <2>17 DEF serverVars
    <3> QED
      BY <2>13, <3>1, <3>2, SynStep
  <2>28. AcceptOK'
    BY <2>6, <2>17 DEF Inv, AcceptOK, serverVars
  <2> QED
    BY <2>1, <2>13, <2>16, <2>18, <2>20, <2>21, <2>22, <2>23, <2>24, <2>26, <2>27,
       <2>28, ActStep
<1> QED
  BY <1>1, <1>2

-----------------------------------------------------------------------------
(* The theorems.                                                           *)

LEMMA InitInv == ConstantsOK /\ Init => Inv
<1> SUFFICES ASSUME ConstantsOK, Init PROVE Inv
  OBVIOUS
<1>1. TypeOK
  <2>1. \A s \in Sock : ISS[s] \in Nat
    BY DEF ConstantsOK
  <2>2. <<>> \in Seq(Nat) /\ <<>> \in Seq(Segment) /\ <<>> \in Seq(Clients)
    OBVIOUS
  <2>3. tcb \in [Sock -> Tcb]
    BY <2>1 DEF Init, Tcb, States
  <2> QED
    BY <2>2, <2>3 DEF Init, TypeOK, Tcb
<1>2. ASSUME NEW s \in Sock
      PROVE  SockOK(s) /\ FlowOK(s) /\ \A j \in 1..Len(net[s]) : SegOK(s, net[s][j])
  <2>1. Peer(s) \in Sock /\ ISS[s] \in Nat
    BY PeerFacts DEF ConstantsOK
  <2>2. /\ tcb[s].state = "CLOSED" /\ tcb[s].sndNxt = ISS[s] /\ tcb[s].sndUna = ISS[s]
        /\ tcb[s].rcvNxt = -1 /\ app[s] = "idle" /\ sent[s] = 0 /\ s \notin table
        /\ net[s] = <<>> /\ net[Peer(s)] = <<>> /\ sent[Peer(s)] = 0
    BY <2>1 DEF Init
  <2>3. Stream(s) = <<>> /\ Received(s) = 0 /\ Received(Peer(s)) = 0
    BY <2>1 DEF Init, Stream, Received
  <2>4. SockOK(s)
    <3>1. MaxSeq \in Nat
      BY DEF ConstantsOK
    <3> QED
      BY <2>1, <2>2, <2>3, <3>1 DEF SockOK, IdleOK, SendOK, RecvOK, StateOK,
                                    HandshakeOK, First
  <2>5. FlowOK(s)
    BY <2>2 DEF FlowOK, InOrder
  <2> QED
    BY <2>2, <2>4, <2>5
<1>3. ASSUME NEW c \in Clients PROVE SynOnce(c)
  BY ClientSocks DEF Init, SynOnce
<1>4. AcceptOK
  BY DEF Init, AcceptOK
<1> QED
  BY <1>1, <1>2, <1>3, <1>4 DEF Inv

LEMMA StepInv == ConstantsOK /\ Inv /\ [Next]_vars => Inv'
<1> SUFFICES ASSUME ConstantsOK, Inv, [Next]_vars PROVE Inv'
  OBVIOUS
<1>1. CASE Bind \/ Listen \/ CloseListener
  BY <1>1, ListenerInv
<1>2. ASSUME NEW c \in Clients,
             \/ Connect(c) \/ ConnectRaises(c) \/ ConnectReturns(c)
             \/ Accept(c) \/ AcceptRaises(c) \/ AcceptReturns(c)
             \/ RcvSyn(c) \/ RcvSynRefused(c)
      PROVE  Inv'
  BY <1>2, ConnectInv, ConnectRaisesInv, ReturnsInv, AcceptInv, AcceptRaisesInv,
     RcvSynInv, RefusedInv
<1>3. ASSUME NEW s \in Sock, NEW n \in PayloadSizes, Send(s, n) PROVE Inv'
  BY <1>3, SendInv
<1>4. ASSUME NEW s \in Sock,
             RecieveCall(s) \/ RecieveReturns(s) \/ Close(s) \/ TimeWaitOver(s) \/ Lose(s)
      PROVE  Inv'
  BY <1>4, RecieveInv, CloseInv, TimeWaitInv, IgnoredInv
<1>5. ASSUME NEW s \in Sock, Receive(s) PROVE Inv'
  BY <1>5, IgnoredInv, ResetInv, NoAnswerInv, SynAckInv, LastFinInv, FinInv, DataInv,
     RaisesInv DEF Receive
<1>6. CASE UNCHANGED vars
  <2>1. TypeOK'
    BY <1>6 DEF Inv, TypeOK, vars
  <2>2. /\ UNCHANGED <<tcb, net, app, sent, backlog, accepting>>
        /\ \A s \in Sock : Stream(s)' = Stream(s)
        /\ table' \subseteq table
    BY <1>6 DEF vars, Stream
  <2> QED
    BY <2>1, <2>2, UserQuiet
<1> QED
  BY <1>1, <1>2, <1>3, <1>4, <1>5, <1>6 DEF Next

LEMMA InvHolds == Spec => []Inv
  BY ConstantsOK, InitInv, StepInv, PTL DEF Spec

\* Every variable keeps its type: in particular what is in flight fits the
\* header, although calls fail where a number would not.
THEOREM TypeCorrect == Spec => []TypeOK
  BY InvHolds, PTL DEF Inv

\* What an application has read of a connection is a prefix of what its peer
\* has sent, whatever was lost, refused or closed.
THEOREM ReceivedIsPrefix == Spec => []ReceivedInOrder
<1>1. ASSUME Inv, NEW s \in Sock
      PROVE  /\ Stream(s) = [i \in 1..Len(Stream(s)) |-> i]
             /\ Len(Stream(s)) <= sent[Peer(s)]
  <2>1. /\ \A i \in 1..Len(Stream(s)) : Stream(s)[i] = i
        /\ Len(Stream(s)) <= sent[Peer(s)]
    BY <1>1 DEF Inv, SockOK, RecvOK, Received
  <2>2. Stream(s) \in Seq(Nat)
    BY <1>1, StreamType DEF Inv
  <2> QED
    BY <2>1, <2>2
<1>2. Inv => ReceivedInOrder
  BY <1>1 DEF ReceivedInOrder
<1> QED
  BY <1>2, InvHolds, PTL

\* While a connection is open, no end takes a byte for acknowledged that has
\* not reached the buffer of the other end.
THEOREM AcknowledgedIsReceived == Spec => []AckedIsDelivered
<1>1. ASSUME Inv, NEW s \in Sock, tcb[s].state = "ESTABLISHED"
      PROVE  tcb[s].sndUna - (ISS[s] + 1) <= Len(Stream(Peer(s)))
  <2>1. ~Finished(s)
    BY <1>1 DEF Finished, Taking
  <2>2. tcb[s].sndUna <= First(s) + Received(Peer(s))
    BY <1>1, <2>1 DEF Inv, SockOK, SendOK
  <2>3. tcb[s].sndUna \in Nat /\ ISS[s] \in Nat /\ Received(Peer(s)) \in Nat
    BY <1>1, PeerFacts, StreamType, NumberType, ConstantsOK DEF Inv
  <2> QED
    BY <2>2, <2>3 DEF First, Received
<1>2. Inv => AckedIsDelivered
  BY <1>1 DEF AckedIsDelivered
<1> QED
  BY <1>2, InvHolds, PTL

\* accept() hands out an ESTABLISHED socket only if its client has received
\* the SYN+ACK, or has closed its end.
THEOREM BothEndsKnow == Spec => []HandshakeAgreement
<1>1. ASSUME Inv, NEW c \in Clients, tcb[<<c, "passive">>].state = "ESTABLISHED",
             app[<<c, "active">>] # "closed"
      PROVE  tcb[<<c, "active">>].sndUna > ISS[<<c, "active">>]
  <2>1. SockOK(<<c, "passive">>) /\ Peer(<<c, "passive">>) = <<c, "active">>
    BY <1>1, ClientSocks DEF Inv
  <2> QED
    BY <1>1, <2>1 DEF SockOK, StateOK, HandshakeOK, Answered
<1>2. Inv => HandshakeAgreement
  BY <1>1 DEF HandshakeAgreement
<1> QED
  BY <1>2, InvHolds, PTL

-----------------------------------------------------------------------------
(* The connection implements the stream of TcpStream.                      *)

LEMMA StreamInit == Init => Stream_!Init
BY DEF Init, Stream_!Init, Stream

\* A step that changes neither what was sent nor what was received.
LEMMA StreamStutters ==
    ASSUME UNCHANGED sent, \A s \in Sock : Stream(s)' = Stream(s)
    PROVE  UNCHANGED Stream_!vars
BY DEF Stream_!vars

LEMMA StreamSends ==
    ASSUME Inv, NEW s \in Sock, NEW n \in PayloadSizes, Send(s, n)
    PROVE  Stream_!Send(s, n)
BY DEF Send, Stream_!Send, Stream

\* A step that takes data delivers it.
LEMMA StreamDelivers ==
    ASSUME Inv, ConstantsOK, NEW s \in Sock, Passes(s), DataDue(s),
           inBuffer' = [inBuffer EXCEPT ![s] = @ \o Arrived(s).data],
           UNCHANGED <<got, sent>>
    PROVE  \E n \in PayloadSizes : Stream_!Deliver(s, n)
<1>1. PICK d : d = Arrived(s).data
  OBVIOUS
<1>2. PICK n : n = Len(d)
  OBVIOUS
<1>3. PICK m : m = Received(s)
  OBVIOUS
<1>4. /\ d \in Seq(Nat) /\ n \in PayloadSizes /\ m + n <= sent[Peer(s)]
      /\ \A i \in 1..n : d[i] = m + i
  BY <1>1, <1>2, <1>3, DataNext
<1>5. d = [i \in 1..n |-> m + i]
  BY <1>2, <1>4
<1>6. Stream(s)' = Stream(s) \o d /\ \A x \in Sock \ {s} : Stream(x)' = Stream(x)
  <2>1. inBuffer' = [inBuffer EXCEPT ![s] = inBuffer[s] \o d]
    BY <1>1
  <2> QED
    BY <1>4, <2>1, StreamGrows DEF Inv
<1>7. [x \in Sock |-> Stream(x)]' =
         [[x \in Sock |-> Stream(x)] EXCEPT ![s] = Stream(s) \o [i \in 1..n |-> m + i]]
  BY <1>5, <1>6
<1>8. m = Len(Stream(s))
  BY <1>3 DEF Received
<1>9. Stream_!Deliver(s, n)
  BY <1>4, <1>7, <1>8 DEF Stream_!Deliver
<1> QED
  BY <1>4, <1>9

LEMMA StreamStep ==
    ConstantsOK /\ Inv /\ [Next]_vars => [Stream_!Next]_(Stream_!vars)
<1> SUFFICES ASSUME ConstantsOK, Inv, [Next]_vars
             PROVE  Stream_!Next \/ UNCHANGED Stream_!vars
  OBVIOUS
<1>1. ASSUME NEW s \in Sock, NEW n \in PayloadSizes, Send(s, n) PROVE Stream_!Next
  BY <1>1, StreamSends DEF Stream_!Next
<1>2. ASSUME NEW s \in Sock, RcvData(s) PROVE Stream_!Next
  <2>1. /\ Passes(s) /\ DataDue(s) /\ UNCHANGED <<got, sent>>
        /\ inBuffer' = [inBuffer EXCEPT ![s] = @ \o Arrived(s).data]
    BY <1>2 DEF RcvData, userVars
  <2> QED
    BY <2>1, StreamDelivers DEF Stream_!Next
<1>3. ASSUME NEW s \in Sock, RcvRaises(s) PROVE Stream_!Next \/ UNCHANGED Stream_!vars
  <2>1. CASE DataDue(s)
    <3>1. /\ Passes(s) /\ UNCHANGED <<got, sent>>
          /\ inBuffer' = [inBuffer EXCEPT ![s] = @ \o Arrived(s).data]
      BY <1>3, <2>1 DEF RcvRaises, userVars
    <3> QED
      BY <2>1, <3>1, StreamDelivers DEF Stream_!Next
  <2>2. CASE ~DataDue(s)
    BY <1>3, <2>2, StreamStutters DEF RcvRaises, userVars, Stream
  <2> QED
    BY <2>1, <2>2
<1>4. ASSUME NEW s \in Sock, RecieveReturns(s) PROVE UNCHANGED Stream_!vars
  <2>1. \A x \in Sock : Stream(x)' = Stream(x)
    BY <1>4, StreamReads
  <2>2. UNCHANGED sent
    BY <1>4 DEF RecieveReturns
  <2> QED
    BY <2>1, <2>2, StreamStutters
<1>5. CASE UNCHANGED <<inBuffer, got, sent>>
  BY <1>5, StreamStutters DEF Stream
<1>6. ASSUME NEW s \in Sock,
             \/ RcvNoSocket(s) \/ RcvReset(s) \/ RcvOutOfWindow(s) \/ RcvNoAnswer(s)
             \/ RcvSynAck(s) \/ RcvLastFin(s) \/ RcvFin(s)
      PROVE  UNCHANGED <<inBuffer, got, sent>>
  BY <1>6 DEF RcvNoSocket, RcvReset, RcvOutOfWindow, RcvNoAnswer, RcvSynAck,
              RcvLastFin, RcvFin, userVars
<1>7. ASSUME NEW s \in Sock, RecieveCall(s) \/ Close(s) \/ TimeWaitOver(s) \/ Lose(s)
      PROVE  UNCHANGED <<inBuffer, got, sent>>
  BY <1>7 DEF RecieveCall, Close, TimeWaitOver, Lose, userVars
<1>8. ASSUME NEW c \in Clients,
             \/ Connect(c) \/ ConnectRaises(c) \/ ConnectReturns(c)
             \/ Accept(c) \/ AcceptRaises(c) \/ AcceptReturns(c)
             \/ RcvSyn(c) \/ RcvSynRefused(c)
      PROVE  UNCHANGED <<inBuffer, got, sent>>
  BY <1>8 DEF Connect, ConnectRaises, ConnectReturns, Accept, AcceptRaises,
              AcceptReturns, RcvSyn, RcvSynRefused, userVars
<1>9. CASE Bind \/ Listen \/ CloseListener \/ UNCHANGED vars
  BY <1>5, <1>9 DEF Bind, Listen, CloseListener, userVars, vars
<1> QED
  BY <1>1, <1>2, <1>3, <1>4, <1>5, <1>6, <1>7, <1>8, <1>9 DEF Next, Receive

\* Whatever the network loses and the applications do, a connection behaves
\* like the stream of TcpStream: each end takes the bytes of the other in
\* order, without gap, duplicate or corruption.
THEOREM ImplementsStream == Spec => StreamSpec
  BY ConstantsOK, StreamInit, StreamStep, InvHolds, PTL
     DEF Spec, StreamSpec, Stream_!Spec

=============================================================================
