---------------------------- MODULE TcpConnection ----------------------------
(***************************************************************************)
(* TCP connections of the network package: the sockets of                  *)
(* network/lib/socket/tcp.lua, the demultiplexing of                       *)
(* network/lib/network/tcp/TCPLayer.lua, and the applications that call    *)
(* them.  One machine runs a server (a listening socket and the sockets    *)
(* accept() makes); every client is a machine that opens one connection.   *)
(*                                                                         *)
(* The code runs in coroutines: a method runs without interruption up to   *)
(* its next os.sleep(), and so does the handling of one arriving segment,  *)
(* so each of these stretches is one action.  connect, accept and recieve  *)
(* sleep while they wait; each is split at the sleep.                      *)
(*                                                                         *)
(* _tick never sends anything: outBuffer is indexed by sequence number, so *)
(* the # operator is 0 and the method returns at its first line (for the   *)
(* key 1 it raises an error instead).  It has no action here.              *)
(***************************************************************************)
EXTENDS Integers, Sequences, FiniteSets

CONSTANTS
    Clients,       \* the client machines
    NoClient,      \* not a client
    ISS,           \* ISS[s]: initial send sequence number of socket s
    MaxSeq,        \* the largest sequence number, 0xffffffff in the code
    Mss,           \* the segment size, sent as the window of every segment
    BacklogLen,    \* the argument of listen()
    PayloadSizes,  \* sizes of the strings the applications send
    MaxBytes,      \* bound: bytes an application sends on one socket
    Closers,       \* the sides whose application closes an open connection
    ListenAny,     \* the server binds to '*' rather than to its address
    TimeoutsSet,   \* the applications called settimeout() on their sockets
    Lossy,         \* segments may be lost
    ArpMayFail     \* the first packet to a machine may fail to resolve it

Sides == {"active", "passive"}
Sock == Clients \X Sides
Peer(s) == <<s[1], IF s[2] = "active" THEN "passive" ELSE "active">>

ASSUME ConstantsOK ==
    /\ NoClient \notin Clients
    /\ MaxSeq \in Nat
    /\ ISS \in [Sock -> 1..MaxSeq]
    /\ Mss \in Nat \ {0}
    /\ BacklogLen \in Nat
    /\ PayloadSizes \subseteq Nat \ {0}
    /\ MaxBytes \in Nat
    /\ Closers \subseteq Sides
    /\ ListenAny \in BOOLEAN
    /\ TimeoutsSet \in BOOLEAN
    /\ Lossy \in BOOLEAN
    /\ ArpMayFail \in BOOLEAN

VARIABLES
    tcb,        \* tcb[s]: the protocol fields of socket s
    inBuffer,   \* inBuffer[s]: received and not yet read (_inBuffer._data)
    readable,   \* readable[s]: _inBuffer._data is not nil
    table,      \* the sockets in TCPLayer._sockets, the listener left aside
    timer,      \* the sockets whose 5 s timer of TIME-WAIT is running
    listener,   \* the life of the listening socket
    backlog,    \* its _backlog: the clients whose SYN waits for accept()
    accepting,  \* the client whose handshake accept() waits for, or NoClient
    net,        \* net[s]: segments from the machine of s to its peer, FIFO
    app,        \* app[s]: what the application has got from socket s
    reading,    \* the sockets whose application is blocked in recieve()
    sent,       \* sent[s]: number of bytes the application has sent
    got         \* got[s]: the bytes recieve() has returned

vars == <<tcb, inBuffer, readable, table, timer, listener, backlog,
          accepting, net, app, reading, sent, got>>

serverVars == <<listener, backlog, accepting>>
userVars == <<app, reading, sent, got>>

States == {"CLOSED", "SYN-SENT", "SYN-RECEIVED", "ESTABLISHED", "FIN-WAIT-1",
           "FIN-WAIT-2", "CLOSE-WAIT", "LAST-ACK", "TIME-WAIT"}
Flags == {"SYN", "ACK", "FIN", "PSH", "RST"}

\* Byte n of the string an application sends in several calls is the number n.
Segment == [flags : SUBSET Flags, seq : 0..MaxSeq, ack : 0..MaxSeq,
            data : Seq(Nat)]

SegLen(seg) ==
    Len(seg.data) + (IF "FIN" \in seg.flags THEN 1 ELSE 0)
                  + (IF "SYN" \in seg.flags THEN 1 ELSE 0)

Init ==
    /\ tcb = [s \in Sock |-> [state |-> "CLOSED", sndNxt |-> ISS[s],
                              sndUna |-> ISS[s], rcvNxt |-> -1,
                              outBuffer |-> {}]]
    /\ inBuffer = [s \in Sock |-> <<>>]
    /\ readable = [s \in Sock |-> TRUE]
    /\ table = {}
    /\ timer = {}
    /\ listener = "master"
    /\ backlog = <<>>
    /\ accepting = NoClient
    /\ net = [s \in Sock |-> <<>>]
    /\ app = [s \in Sock |-> "idle"]
    /\ reading = {}
    /\ sent = [s \in Sock |-> 0]
    /\ got = [s \in Sock |-> <<>>]

------------------------------------------------------------------------------
(* Building and sending segments *)

\* The sequence and acknowledgment numbers of a segment are asserted to be at
\* most MaxSeq: past it the call that builds a segment raises an error.
CanMake(t) == t.sndNxt <= MaxSeq

MakeSegment(t) ==
    [flags |-> IF t.state = "ESTABLISHED" THEN {"ACK"} ELSE {},
     seq   |-> t.sndNxt,
     ack   |-> IF t.state = "ESTABLISHED" THEN t.rcvNxt ELSE 0,
     data  |-> <<>>]

MakeDataSegment(t, bytes) ==
    [MakeSegment(t) EXCEPT !.flags = @ \cup {"PSH"},
                           !.ack = t.rcvNxt, !.data = bytes]

\* Mutant of AckNumber: the flag and the data are both counted.
AckNumberOneMore(seg) == seg.seq + Len(seg.data) + 1

\* Mutant of CanAck: nothing bounds the numbers of an acknowledgment.
CanAckUnchecked(t, seg) == TRUE

\* The acknowledgment number _setAck computes for a received segment.
AckNumber(seg) == seg.seq + (IF seg.data = <<>> THEN 1 ELSE Len(seg.data))

CanAck(t, seg) == CanMake(t) /\ AckNumber(seg) <= MaxSeq

MakeAck(t, seg, flags) ==
    [MakeSegment(t) EXCEPT !.flags = @ \cup {"ACK"} \cup flags,
                           !.ack = AckNumber(seg)]

\* The fields after sendRaw(seg): outBuffer holds one segment per number.
SendRaw(t, seg) ==
    [t EXCEPT !.outBuffer = {o \in @ : o.seq # seg.seq} \cup {seg},
              !.sndNxt = @ + SegLen(seg)]

\* Mutant of SendAck: rcvNxt is not advanced.
SendAckOnly(t, seg, flags) == SendRaw(t, MakeAck(t, seg, flags))

\* The fields after sendRaw(_makeAck(seg)) in which flags are added.
SendAck(t, seg, flags) ==
    SendRaw([t EXCEPT !.rcvNxt = AckNumber(seg)], MakeAck(t, seg, flags))

Transmit(s, segs) == net' = [net EXCEPT ![s] = @ \o segs]

------------------------------------------------------------------------------
(* The calls of the applications *)

Bind ==
    /\ listener = "master"
    /\ listener' = "bound"
    /\ UNCHANGED <<tcb, inBuffer, readable, table, timer, backlog, accepting,
                   net, userVars>>

Listen ==
    /\ listener = "bound"
    /\ listener' = "LISTEN"
    /\ UNCHANGED <<tcb, inBuffer, readable, table, timer, backlog, accepting,
                   net, userVars>>

\* close() on the listening socket: the backlog stays, and accept() still
\* takes from it (the tests on _kind and _state there never hold).
CloseListener ==
    /\ listener = "LISTEN"
    /\ "passive" \in Closers
    /\ listener' = "CLOSED"
    /\ UNCHANGED <<tcb, inBuffer, readable, table, timer, backlog, accepting,
                   net, userVars>>

\* connect() up to the loop that waits.
Connect(c) ==
    LET s == <<c, "active">>
        syn == [MakeSegment(tcb[s]) EXCEPT !.flags = {"SYN"}]
    IN /\ app[s] = "idle"
       /\ tcb' = [tcb EXCEPT ![s] = [SendRaw(@, syn) EXCEPT !.state = "SYN-SENT"]]
       /\ Transmit(s, <<syn>>)
       /\ table' = table \cup {s}
       /\ app' = [app EXCEPT ![s] = "connecting"]
       /\ UNCHANGED <<inBuffer, readable, timer, serverVars, reading, sent, got>>

\* connect() when the packet cannot be sent: sendRaw has stored the segment
\* and the error leaves connect() before anything else is done.
ConnectRaises(c) ==
    LET s == <<c, "active">>
        syn == [MakeSegment(tcb[s]) EXCEPT !.flags = {"SYN"}]
    IN /\ ArpMayFail
       /\ app[s] = "idle"
       /\ tcb' = [tcb EXCEPT ![s].outBuffer = {syn}]
       /\ table' = table \cup {s}
       /\ app' = [app EXCEPT ![s] = "failed"]
       /\ UNCHANGED <<inBuffer, readable, timer, serverVars, net, reading,
                      sent, got>>

\* connect() returns: the loop saw another state, or timed out.
ConnectReturns(c) ==
    LET s == <<c, "active">>
    IN /\ app[s] = "connecting"
       /\ tcb[s].state # "SYN-SENT" \/ TimeoutsSet
       /\ app' = [app EXCEPT ![s] =
                     IF tcb[s].state = "ESTABLISHED" THEN "open" ELSE "failed"]
       /\ UNCHANGED <<tcb, inBuffer, readable, table, timer, serverVars, net,
                      reading, sent, got>>

\* The SYN in the backlog carries the client's initial sequence number.
Syn(c) == [flags |-> {"SYN"}, seq |-> ISS[<<c, "active">>], ack |-> 0,
           data |-> <<>>]

\* Mutant of Accept: the connection counts as established once it is answered.
AcceptAtOnce(c) ==
    LET s == <<c, "passive">>
        t == [tcb[s] EXCEPT !.state = "SYN-RECEIVED"]
    IN /\ accepting = NoClient
       /\ backlog # <<>> /\ Head(backlog) = c
       /\ backlog' = Tail(backlog)
       /\ CanAck(t, Syn(c))
       /\ tcb' = [tcb EXCEPT ![s] = [SendAck(t, Syn(c), {"SYN"})
                                        EXCEPT !.state = "ESTABLISHED"]]
       /\ Transmit(s, <<MakeAck(t, Syn(c), {"SYN"})>>)
       /\ table' = table \cup {s}
       /\ accepting' = c
       /\ app' = [app EXCEPT ![s] = "accepting"]
       /\ UNCHANGED <<inBuffer, readable, timer, listener, reading, sent, got>>

\* accept() from the moment the backlog is not empty up to its second loop.
Accept(c) ==
    LET s == <<c, "passive">>
        t == [tcb[s] EXCEPT !.state = "SYN-RECEIVED"]
    IN /\ accepting = NoClient
       /\ backlog # <<>> /\ Head(backlog) = c
       /\ backlog' = Tail(backlog)
       /\ CanAck(t, Syn(c))
       /\ tcb' = [tcb EXCEPT ![s] = SendAck(t, Syn(c), {"SYN"})]
       /\ Transmit(s, <<MakeAck(t, Syn(c), {"SYN"})>>)
       /\ table' = table \cup {s}
       /\ accepting' = c
       /\ app' = [app EXCEPT ![s] = "accepting"]
       /\ UNCHANGED <<inBuffer, readable, timer, listener, reading, sent, got>>

\* accept() when the answer cannot be built or sent: the entry is gone from
\* the backlog and the new socket is in no table.
AcceptRaises(c) ==
    /\ accepting = NoClient
    /\ backlog # <<>> /\ Head(backlog) = c
    /\ ArpMayFail \/ ~CanAck(tcb[<<c, "passive">>], Syn(c))
    /\ backlog' = Tail(backlog)
    /\ UNCHANGED <<tcb, inBuffer, readable, table, timer, listener, accepting,
                   net, userVars>>

\* accept() returns the socket, or nil and 'timeout' ("lost": the application
\* never sees that socket).
AcceptReturns(c) ==
    LET s == <<c, "passive">>
    IN /\ accepting = c
       /\ tcb[s].state # "SYN-RECEIVED" \/ TimeoutsSet
       /\ accepting' = NoClient
       /\ app' = [app EXCEPT ![s] =
                     IF tcb[s].state = "ESTABLISHED" THEN "open" ELSE "lost"]
       /\ UNCHANGED <<tcb, inBuffer, readable, table, timer, listener, backlog,
                      net, reading, sent, got>>

\* send(): the test on the state never holds, so it sends in any state.
Send(s, n) ==
    LET seg == MakeDataSegment(tcb[s], [i \in 1..n |-> sent[s] + i])
    IN /\ app[s] = "open"
       /\ s \notin reading
       /\ sent[s] + n <= MaxBytes
       /\ CanMake(tcb[s])
       /\ tcb' = [tcb EXCEPT ![s] = SendRaw(@, seg)]
       /\ Transmit(s, <<seg>>)
       /\ sent' = [sent EXCEPT ![s] = @ + n]
       /\ UNCHANGED <<inBuffer, readable, table, timer, serverVars, app,
                      reading, got>>

\* recieve() with the pattern "*a", up to its first read.
RecieveCall(s) ==
    /\ app[s] = "open"
    /\ s \notin reading
    /\ reading' = reading \cup {s}
    /\ UNCHANGED <<tcb, inBuffer, readable, table, timer, serverVars, net, app,
                   sent, got>>

RecieveReturns(s) ==
    /\ s \in reading
    /\ readable[s] \/ TimeoutsSet
    /\ got' = [got EXCEPT ![s] = @ \o inBuffer[s]]
    /\ inBuffer' = [inBuffer EXCEPT ![s] = <<>>]
    /\ readable' = [readable EXCEPT ![s] = FALSE]
    /\ reading' = reading \ {s}
    /\ UNCHANGED <<tcb, table, timer, serverVars, net, app, sent>>

\* close() on a client socket.
Close(s) ==
    LET fin == [MakeSegment(tcb[s]) EXCEPT !.flags = @ \cup {"FIN", "ACK"}]
    IN /\ \/ app[s] = "open" /\ s[2] \in Closers
          \/ app[s] = "failed"
       /\ s \notin reading
       /\ app' = [app EXCEPT ![s] = "closed"]
       /\ IF tcb[s].state # "CLOSED"
          THEN /\ CanMake(tcb[s])
               /\ tcb' = [tcb EXCEPT ![s] =
                             [SendRaw(@, fin) EXCEPT !.state = "FIN-WAIT-1"]]
               /\ Transmit(s, <<fin>>)
               /\ UNCHANGED table
          ELSE /\ table' = table \ {s}
               /\ UNCHANGED <<tcb, net>>
       /\ UNCHANGED <<inBuffer, readable, timer, serverVars, reading, sent, got>>

------------------------------------------------------------------------------
(* A segment arrives *)

\* The next segment for the machine of s, and its removal from the channel
\* while segs go the other way.
Arrives(s) == net[Peer(s)] # <<>>
Arrived(s) == Head(net[Peer(s)])
IsSyn(seg) == "SYN" \in seg.flags /\ "ACK" \notin seg.flags
Answer(s, segs) ==
    net' = [net EXCEPT ![Peer(s)] = Tail(@), ![s] = @ \o segs]

\* getSocket finds the listener for a SYN.  It looks under the local address
\* first and never goes back to the entry of 0.0.0.0 once an accepted socket
\* has created an entry for the address.
ListenerFound ==
    /\ listener \in {"bound", "LISTEN"}
    /\ ListenAny => \A c \in Clients : <<c, "passive">> \notin table

\* TCPLayer:payloadHandler and the LISTEN branch: the SYN enters the backlog.
\* On a socket that does not listen an assertion fails; a full backlog is
\* answered with an ACK to the peer port of the listener, 0, where the client
\* has no socket.
RcvSyn(c) ==
    LET s == <<c, "passive">>
    IN /\ Arrives(s) /\ IsSyn(Arrived(s))
       /\ ListenerFound
       /\ backlog' = IF listener = "LISTEN" /\ Len(backlog) < BacklogLen
                     THEN Append(backlog, c) ELSE backlog
       /\ Answer(s, <<>>)
       /\ UNCHANGED <<tcb, inBuffer, readable, table, timer, listener,
                      accepting, userVars>>

Reset(seg) == [flags |-> {"RST", "ACK"}, seq |-> 0,
               ack |-> seg.seq + SegLen(seg), data |-> <<>>]

\* The same without a listener: a reset is sent.
RcvSynRefused(c) ==
    LET s == <<c, "passive">>
        seg == Arrived(s)
    IN /\ Arrives(s) /\ IsSyn(seg)
       /\ ~ListenerFound
       /\ Answer(s, IF Reset(seg).ack <= MaxSeq THEN <<Reset(seg)>> ELSE <<>>)
       /\ UNCHANGED <<tcb, inBuffer, readable, table, timer, serverVars,
                      userVars>>

\* Any other segment for which there is no socket.  On the server it may be
\* handed to the listener, which ignores segments without SYN.
RcvNoSocket(s) ==
    /\ Arrives(s) /\ ~IsSyn(Arrived(s))
    /\ s \notin table
    /\ Answer(s, <<>>)
    /\ UNCHANGED <<tcb, inBuffer, readable, table, timer, serverVars, userVars>>

\* A reset is obeyed.  In SYN-SENT it must acknowledge sndUna, which the ones
\* TCPLayer sends never do.
ResetObeyed(t, seg) ==
    /\ "RST" \in seg.flags
    /\ t.state = "SYN-SENT" => t.sndUna = seg.ack

RcvReset(s) ==
    /\ Arrives(s) /\ ~IsSyn(Arrived(s)) /\ s \in table
    /\ ResetObeyed(tcb[s], Arrived(s))
    /\ tcb' = [tcb EXCEPT ![s].state = "CLOSED"]
    /\ table' = table \ {s}
    /\ Answer(s, <<>>)
    /\ UNCHANGED <<inBuffer, readable, timer, serverVars, userVars>>

\* The window test, made in the states after the handshake.
Checked == {"ESTABLISHED", "FIN-WAIT-1", "FIN-WAIT-2", "CLOSE-WAIT", "TIME-WAIT"}
InWindow(t, n) == t.rcvNxt <= n /\ n < t.rcvNxt + Mss
WindowOK(t, seg) ==
    (t.state \in Checked /\ SegLen(seg) > 0) =>
        InWindow(t, seg.seq) \/ InWindow(t, seg.seq + SegLen(seg) - 1)

RcvOutOfWindow(s) ==
    /\ Arrives(s) /\ ~IsSyn(Arrived(s)) /\ s \in table
    /\ ~ResetObeyed(tcb[s], Arrived(s))
    /\ ~WindowOK(tcb[s], Arrived(s))
    /\ Answer(s, <<>>)
    /\ UNCHANGED <<tcb, inBuffer, readable, table, timer, serverVars, userVars>>

\* A segment that passes these tests, and the fields of s once its
\* acknowledgment number has been taken into account.
Passes(s) ==
    /\ Arrives(s) /\ ~IsSyn(Arrived(s)) /\ s \in table
    /\ ~ResetObeyed(tcb[s], Arrived(s))
    /\ WindowOK(tcb[s], Arrived(s))

ProcessAck(t, seg) ==
    IF "ACK" \in seg.flags /\ t.sndUna < seg.ack /\ seg.ack <= t.sndNxt
    THEN [t EXCEPT !.sndUna = seg.ack,
                   !.outBuffer = {o \in @ : o.seq + SegLen(o) > seg.ack}]
    ELSE t

Acked(s) == ProcessAck(tcb[s], Arrived(s))

Has(s, flags) == flags \subseteq Arrived(s).flags

\* The SYN-SENT, SYN-RECEIVED, FIN-WAIT-1 and LAST-ACK branches that only
\* change the state.  A reset in SYN-SENT leaves the socket in the table.
MoveOn(s) ==
    CASE tcb[s].state = "SYN-SENT" /\ Has(s, {"RST"})     -> "CLOSED"
      [] tcb[s].state = "SYN-RECEIVED" /\ Has(s, {"ACK"}) -> "ESTABLISHED"
      [] tcb[s].state = "FIN-WAIT-1" /\ Has(s, {"ACK"})   -> "FIN-WAIT-2"
      [] tcb[s].state = "LAST-ACK" /\ Has(s, {"ACK"})     -> "CLOSED"
      [] OTHER -> tcb[s].state

\* The segments a branch with an answer is written for.
SynAckDue(s) == tcb[s].state = "SYN-SENT" /\ Has(s, {"SYN", "ACK"})
                                          /\ ~Has(s, {"RST"})
LastFinDue(s) == tcb[s].state = "FIN-WAIT-2" /\ Has(s, {"FIN"})
FinDue(s) == tcb[s].state = "ESTABLISHED" /\ Has(s, {"FIN"})
\* Mutant of DataDue: any data in the window is taken as the next.
DataDueAnySeq(s) == /\ tcb[s].state = "ESTABLISHED" /\ ~Has(s, {"FIN"})
                    /\ SegLen(Arrived(s)) > 0
DataDue(s) == /\ tcb[s].state = "ESTABLISHED" /\ ~Has(s, {"FIN"})
              /\ SegLen(Arrived(s)) > 0
              /\ Arrived(s).seq = tcb[s].rcvNxt
AnswerDue(s) == SynAckDue(s) \/ LastFinDue(s) \/ FinDue(s) \/ DataDue(s)

RcvNoAnswer(s) ==
    /\ Passes(s)
    /\ ~AnswerDue(s)
    /\ tcb' = [tcb EXCEPT ![s] = [Acked(s) EXCEPT !.state = MoveOn(s)]]
    /\ table' = IF tcb[s].state = "LAST-ACK" /\ MoveOn(s) = "CLOSED"
                THEN table \ {s} ELSE table
    /\ Answer(s, <<>>)
    /\ UNCHANGED <<inBuffer, readable, timer, serverVars, userVars>>

\* SYN-SENT: the acknowledgment is made before the state changes.
RcvSynAck(s) ==
    LET t == Acked(s)
        seg == Arrived(s)
    IN /\ Passes(s)
       /\ SynAckDue(s)
       /\ CanAck(t, seg)
       /\ tcb' = [tcb EXCEPT ![s] =
                     [SendAck(t, seg, {}) EXCEPT !.state = "ESTABLISHED"]]
       /\ Answer(s, <<MakeAck(t, seg, {})>>)
       /\ UNCHANGED <<inBuffer, readable, table, timer, serverVars, userVars>>

\* Mutant of RcvLastFin: the timer is not started.
RcvLastFinNoTimer(s) ==
    LET t == [Acked(s) EXCEPT !.state = "TIME-WAIT"]
        seg == Arrived(s)
    IN /\ Passes(s)
       /\ LastFinDue(s)
       /\ CanAck(t, seg)
       /\ tcb' = [tcb EXCEPT ![s] = SendAck(t, seg, {})]
       /\ Answer(s, <<MakeAck(t, seg, {})>>)
       /\ UNCHANGED <<inBuffer, readable, table, timer, serverVars, userVars>>

\* FIN-WAIT-2: the FIN of the other end.
RcvLastFin(s) ==
    LET t == [Acked(s) EXCEPT !.state = "TIME-WAIT"]
        seg == Arrived(s)
    IN /\ Passes(s)
       /\ LastFinDue(s)
       /\ CanAck(t, seg)
       /\ tcb' = [tcb EXCEPT ![s] = SendAck(t, seg, {})]
       /\ Answer(s, <<MakeAck(t, seg, {})>>)
       /\ timer' = timer \cup {s}
       /\ UNCHANGED <<inBuffer, readable, table, serverVars, userVars>>

\* ESTABLISHED: the FIN of the other end is acknowledged, whatever its
\* sequence number, and this end sends its own FIN at once.
RcvFin(s) ==
    LET seg == Arrived(s)
        t1 == [Acked(s) EXCEPT !.state = "CLOSE-WAIT"]
        t2 == [SendAck(t1, seg, {}) EXCEPT !.state = "LAST-ACK"]
    IN /\ Passes(s)
       /\ FinDue(s)
       /\ CanAck(t1, seg)
       /\ tcb' = [tcb EXCEPT ![s] = SendAck(t2, seg, {"FIN"})]
       /\ Answer(s, <<MakeAck(t1, seg, {}), MakeAck(t2, seg, {"FIN"})>>)
       /\ UNCHANGED <<inBuffer, readable, table, timer, serverVars, userVars>>

\* ESTABLISHED: the next data of the stream.
RcvData(s) ==
    LET t == Acked(s)
        seg == Arrived(s)
    IN /\ Passes(s)
       /\ DataDue(s)
       /\ CanAck(t, seg)
       /\ inBuffer' = [inBuffer EXCEPT ![s] = @ \o seg.data]
       /\ readable' = [readable EXCEPT ![s] = TRUE]
       /\ tcb' = [tcb EXCEPT ![s] = SendAck(t, seg, {})]
       /\ Answer(s, <<MakeAck(t, seg, {})>>)
       /\ UNCHANGED <<table, timer, serverVars, userVars>>

\* One of these four branches when the acknowledgment cannot be built: the
\* error leaves the handler with what was done before it.
RcvRaises(s) ==
    LET t == Acked(s)
    IN /\ Passes(s)
       /\ AnswerDue(s)
       /\ ~CanAck(t, Arrived(s))
       /\ tcb' = [tcb EXCEPT ![s] =
                     [t EXCEPT !.state = CASE LastFinDue(s) -> "TIME-WAIT"
                                           [] FinDue(s) -> "CLOSE-WAIT"
                                           [] OTHER -> @]]
       /\ IF DataDue(s)
          THEN /\ inBuffer' = [inBuffer EXCEPT ![s] = @ \o Arrived(s).data]
               /\ readable' = [readable EXCEPT ![s] = TRUE]
          ELSE UNCHANGED <<inBuffer, readable>>
       /\ Answer(s, <<>>)
       /\ UNCHANGED <<table, timer, serverVars, userVars>>

\* The timer of TIME-WAIT takes the socket out of the table.
TimeWaitOver(s) ==
    /\ s \in timer
    /\ timer' = timer \ {s}
    /\ table' = table \ {s}
    /\ UNCHANGED <<tcb, inBuffer, readable, serverVars, net, userVars>>

\* The network drops a segment.
Lose(s) ==
    /\ Lossy
    /\ net[s] # <<>>
    /\ net' = [net EXCEPT ![s] = Tail(@)]
    /\ UNCHANGED <<tcb, inBuffer, readable, table, timer, serverVars, userVars>>

------------------------------------------------------------------------------
Receive(s) ==
    \/ RcvNoSocket(s) \/ RcvReset(s) \/ RcvOutOfWindow(s) \/ RcvNoAnswer(s)
    \/ RcvSynAck(s) \/ RcvLastFin(s) \/ RcvFin(s) \/ RcvData(s) \/ RcvRaises(s)

Next ==
    \/ Bind \/ Listen \/ CloseListener
    \/ \E c \in Clients :
          \/ Connect(c) \/ ConnectRaises(c) \/ ConnectReturns(c)
          \/ Accept(c) \/ AcceptRaises(c) \/ AcceptReturns(c)
          \/ RcvSyn(c) \/ RcvSynRefused(c)
    \/ \E s \in Sock :
          \/ \E n \in PayloadSizes : Send(s, n)
          \/ RecieveCall(s) \/ RecieveReturns(s)
          \/ Close(s) \/ Receive(s) \/ TimeWaitOver(s) \/ Lose(s)

Spec == Init /\ [][Next]_vars

\* The network keeps delivering, the waiting loops keep polling, the timers
\* fire and the server keeps calling accept(): each is a coroutine or a timer
\* the scheduler of the machine resumes.  Nothing obliges an application to
\* connect, send, read or close.
FairSpec ==
    /\ Spec
    /\ \A s \in Sock : /\ WF_vars(Receive(s))
                        /\ WF_vars(TimeWaitOver(s))
                        /\ WF_vars(RecieveReturns(s))
    /\ \A c \in Clients : /\ WF_vars(RcvSyn(c) \/ RcvSynRefused(c))
                           /\ WF_vars(ConnectReturns(c))
                           /\ WF_vars(Accept(c) \/ AcceptRaises(c))
                           /\ WF_vars(AcceptReturns(c))

------------------------------------------------------------------------------
\* Every variable keeps its type; the sequence numbers of what is in flight
\* fit the header.
TypeOK ==
    /\ tcb \in [Sock -> [state : States, sndNxt : Nat, sndUna : Nat,
                          rcvNxt : Nat \cup {-1}, outBuffer : SUBSET Segment]]
    /\ inBuffer \in [Sock -> Seq(Nat)]
    /\ readable \in [Sock -> BOOLEAN]
    /\ table \subseteq Sock
    /\ timer \subseteq Sock
    /\ listener \in {"master", "bound", "LISTEN", "CLOSED"}
    /\ backlog \in Seq(Clients)
    /\ accepting \in Clients \cup {NoClient}
    /\ net \in [Sock -> Seq(Segment)]
    /\ app \in [Sock -> {"idle", "connecting", "accepting", "open", "failed",
                         "lost", "closed"}]
    /\ reading \subseteq Sock
    /\ sent \in [Sock -> Nat]
    /\ got \in [Sock -> Seq(Nat)]

\* The bytes that have reached a socket, read or not.
Stream(s) == got[s] \o inBuffer[s]

\* An application reads the bytes its peer sent, in order and without a gap,
\* whatever segments were lost on the way.
ReceivedInOrder ==
    \A s \in Sock :
        /\ Stream(s) = [i \in 1..Len(Stream(s)) |-> i]
        /\ Len(Stream(s)) <= sent[Peer(s)]

\* While a connection is open, a byte counted as acknowledged has reached the
\* buffer of the other end.
AckedIsDelivered ==
    \A s \in Sock :
        tcb[s].state = "ESTABLISHED" =>
            tcb[s].sndUna - (ISS[s] + 1) <= Len(Stream(Peer(s)))

\* An accepted socket is ESTABLISHED only once its client has received the
\* SYN+ACK, unless the client has given up: SYN-RECEIVED is left on any
\* segment with ACK, whatever it acknowledges.
HandshakeAgreement ==
    \A c \in Clients :
        /\ tcb[<<c, "passive">>].state = "ESTABLISHED"
        /\ app[<<c, "active">>] # "closed"
        => tcb[<<c, "active">>].sndUna > ISS[<<c, "active">>]

\* The connection is the reliable stream of TcpStream.
Stream_ == INSTANCE TcpStream WITH
               End <- Sock, Other <- Peer, ChunkSizes <- PayloadSizes,
               received <- [s \in Sock |-> Stream(s)]
StreamSpec == Stream_!Spec

\* The FIN of the server lies beyond the window of its client.  A closing end
\* takes the data that still arrives without advancing rcvNxt, so a whole
\* segment size in flight at the close puts the FIN that follows out of reach:
\* it is dropped and neither socket ever leaves its table.
FinOutOfReach(c) ==
    \E o \in tcb[<<c, "passive">>].outBuffer :
        /\ "FIN" \in o.flags
        /\ o.seq >= tcb[<<c, "active">>].rcvNxt + Mss

\* After the client of a connection closes it, both sockets leave the tables,
\* unless the server had a segment size or more in flight.
ClosedIsReleased ==
    \A c \in Clients :
        app[<<c, "active">>] = "closed" ~>
            \/ {<<c, "active">>, <<c, "passive">>} \cap table = {}
            \/ FinOutOfReach(c)

\* Without losses, everything sent on a connection arrives, unless an end
\* closes it.
SentIsDelivered ==
    \A s \in Sock : \A n \in 1..MaxBytes :
        sent[s] >= n ~> \/ Len(Stream(Peer(s))) >= n
                        \/ "closed" \in {app[s], app[Peer(s)]}

==============================================================================
