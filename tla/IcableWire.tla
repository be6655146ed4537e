----------------------------- MODULE IcableWire -----------------------------
(***************************************************************************)
(* What one client of the icable server sends, byte by byte, and what the   *)
(* server makes of it: recievePacket (icableServer.py) puts frames together *)
(* from the pieces recv returns, icable/protocol.py and icable/packet.py    *)
(* decode them, and a datagram is encoded again for the client it is        *)
(* relayed to.  The client is authenticated, its user has a network, and    *)
(* the receiver it names is found: these are the part of IcableNodes.       *)
(* A byte of the stream is a pair <<i, j>>: byte j of the i-th frame sent.  *)
(* A frame is [kind, len, body]: its payload has len bytes, and body is     *)
(* what they say.  The body of CLIENT_DATA is a datagram:                   *)
(*   [ihl, tos, len, id, frag, ttl, protocol, sum, src, dst, rest]          *)
(* with the 16 bits of flags and fragment offset in frag, and in rest the   *)
(* bytes that follow the first 20.  Of a name the body says how long it is, *)
(* whether it is UTF-8 (text) and whether it is a login (known); of an      *)
(* address that is asked for, its kind and its mask.                        *)
(***************************************************************************)
EXTENDS Integers, Sequences, FiniteSets, SequencesExt

CONSTANTS
    Frames,     \* what the client may send
    MaxFrames   \* bound: frames sent

DatagramFields == {"ihl", "tos", "len", "id", "frag", "ttl", "protocol", "sum",
                   "src", "dst", "rest"}

ASSUME WireAssumption ==
    /\ MaxFrames \in Nat
    /\ \A frame \in Frames :
          /\ frame.len \in 0..(2^16 - 1)
          /\ frame.kind = "CLIENT_DATA" =>
                /\ DOMAIN frame.body = DatagramFields
                /\ frame.body.frag \in 0..(2^16 - 1)

VARIABLES
    sent,      \* the frames sent
    stream,    \* the bytes the socket holds for the server
    closed,    \* the client has closed its end
    data,      \* the variable data of recievePacket
    at,        \* "header", "payload", or "ended": the thread is over
    decoded,   \* the frames handed to the handlers
    relayed,   \* the datagrams sent on, each with the one it was made from
    split      \* history: the bytes of a header came in two pieces

vars == <<sent, stream, closed, data, at, decoded, relayed, split>>

HeaderBytes == 8      \* struct.calcsize('>4sBHx')
IpHeaderBytes == 20   \* struct.calcsize('>BBHHHBBHII')

Init ==
    /\ sent = << >> /\ stream = << >> /\ closed = FALSE
    /\ data = << >> /\ at = "header"
    /\ decoded = << >> /\ relayed = << >>
    /\ split = FALSE

-----------------------------------------------------------------------------
(* Decoding a payload of len bytes.  Decodes is FALSE where struct or       *)
(* bytes.decode raises; an empty payload is None, which no unpack takes.    *)

\* getLengthedString: a length byte, then as many bytes.
LengthedFits(declared, len) == 1 + declared <= len

DecodesAuth(frame) ==
    /\ LengthedFits(frame.body.name, frame.len)
    /\ LengthedFits(frame.body.password, frame.len - 1 - frame.body.name)
    /\ frame.body.text

DecodesAuthRequest(frame) ==
    LengthedFits(frame.body.name, frame.len) /\ frame.body.text

\* Kind 2 (AUTO_IPv4) is alone; any other is followed by address and mask.
DecodesNetconf(frame) ==
    /\ frame.len >= 1
    /\ frame.body.conf = 2 \/ frame.len >= 6

\* extract: width bits of n, from bit field on; those above the first one of
\* n are zero.
Extract(n, field, width) == (n \div 2^field) % 2^width

PayloadLen(datagram) == datagram.len - 4 * datagram.ihl

DecodesDatagram(frame) ==
    /\ frame.len >= IpHeaderBytes
    /\ PayloadLen(frame.body) \in 0..(frame.len - IpHeaderBytes)

Decodes(frame) ==
    CASE frame.kind = "CLIENT_AUTH"         -> DecodesAuth(frame)
      [] frame.kind = "CLIENT_AUTH_REQUEST" -> DecodesAuthRequest(frame)
      [] frame.kind = "CLIENT_NETCONF"      -> DecodesNetconf(frame)
      [] frame.kind = "CLIENT_DATA"         -> DecodesDatagram(frame)
      [] OTHER                              -> TRUE

-----------------------------------------------------------------------------
(* IPv4Datagram: unpack and pack, one after the other.                     *)

\* Six bits of dscp above two of ecn are read, and put back four bits up.
TosOf(datagram) ==
    Extract(datagram.tos, 2, 6) * 2^4 + Extract(datagram.tos, 0, 2)

\* The flags are read from bit 14 on and put back at bit 13.
FragOf(datagram) ==
    Extract(datagram.frag, 14, 3) * 2^13 + Extract(datagram.frag, 0, 13)

\* Mutant: the offset is put back in bytes.
RepackInBytes(datagram) ==
    [datagram EXCEPT
        !.tos = TosOf(datagram),
        !.frag = (Extract(datagram.frag, 14, 3) * 2^13
                    + Extract(datagram.frag, 0, 13) * 8) % 2^16,
        !.len = IpHeaderBytes + PayloadLen(datagram),
        !.rest = SubSeq(@, 1, PayloadLen(datagram))]

\* The payload is what follows byte 20, options included; the header length
\* and the checksum stay.
Repack(datagram) ==
    [datagram EXCEPT
        !.tos = TosOf(datagram),
        !.frag = FragOf(datagram),
        !.len = IpHeaderBytes + PayloadLen(datagram),
        !.rest = SubSeq(@, 1, PayloadLen(datagram))]

\* What struct.pack raises on: a byte above 255; and a checksum of 0, which
\* calculateChecksum computes from addresses that are no integers.
Packs(datagram) == TosOf(datagram) < 2^8 /\ datagram.sum # 0

\* The handlers that raise on a frame that decodes: the refusal of a challenge
\* for an unknown login calls a member of an enumeration; AUTO_IPv4 reads an
\* address that unpack never sets; ip_interface takes no mask above 32; and a
\* datagram may not pack.
HandlerRaises(frame) ==
    CASE frame.kind = "CLIENT_AUTH_REQUEST" -> ~frame.body.known
      [] frame.kind = "CLIENT_NETCONF" ->
            \/ frame.body.conf = 2
            \/ frame.body.conf = 1 /\ frame.body.mask > 32
      [] frame.kind = "CLIENT_DATA" -> ~Packs(frame.body)
      [] OTHER -> FALSE

\* Whatever raises ends the thread.
Raises(frame) == ~Decodes(frame) \/ HandlerRaises(frame)

-----------------------------------------------------------------------------
(* The client.                                                             *)

\* IcablePacket.pack
Bytes(i, frame) == [j \in 1..(HeaderBytes + frame.len) |-> <<i, j>>]

Send ==
    /\ ~closed /\ Len(sent) < MaxFrames
    /\ \E frame \in Frames :
        /\ sent' = Append(sent, frame)
        /\ stream' = stream \o Bytes(Len(sent) + 1, frame)
    /\ UNCHANGED <<closed, data, at, decoded, relayed, split>>

Close ==
    /\ ~closed
    /\ closed' = TRUE
    /\ UNCHANGED <<sent, stream, data, at, decoded, relayed, split>>

-----------------------------------------------------------------------------
(* recievePacket.                                                          *)

\* recv(wanted) returns between one byte and wanted, as the pieces come.
Recv(wanted) == {SubSeq(stream, 1, k) : k \in 1..Min({wanted, Len(stream)})}

Taken(piece) == stream' = SubSeq(stream, Len(piece) + 1, Len(stream))

\* The frame whose header is at the front of bytes; other bytes do not begin
\* with the magic 'ICAB' (ValueError).
HasHeader(bytes) ==
    \E i \in DOMAIN sent :
        SubSeq(bytes, 1, HeaderBytes) = SubSeq(Bytes(i, sent[i]), 1, HeaderBytes)
HeaderOf(bytes) == sent[Head(bytes)[1]]

\* What is decoded from bytes that are not those of one frame.
Garbage == [kind |-> "GARBAGE"]

\* The packet is complete: it is unpacked and handled, or something raises.
Handle(bytes) ==
    LET frame == HeaderOf(bytes)
        whole == bytes = Bytes(Head(bytes)[1], frame)
    IN  /\ data' = << >>
        /\ decoded' = Append(decoded, IF whole THEN frame ELSE Garbage)
        /\ IF ~whole \/ Raises(frame)
           THEN at' = "ended" /\ UNCHANGED relayed
           ELSE /\ at' = "header"
                /\ relayed' = IF frame.kind = "CLIENT_DATA"
                              THEN Append(relayed, [from |-> frame.body,
                                                    to |-> Repack(frame.body)])
                              ELSE relayed

\* The first loop: data is what this call returned, not added to what the
\* last one did.
ReadHeader ==
    /\ at = "header"
    /\ \E piece \in Recv(HeaderBytes - Len(data)) :
        /\ Taken(piece)
        /\ split' = (split \/ Len(piece) < HeaderBytes)
        /\ CASE Len(piece) < HeaderBytes ->
                  data' = piece /\ UNCHANGED <<at, decoded, relayed>>
             [] Len(piece) = HeaderBytes /\ ~HasHeader(piece) ->
                  at' = "ended" /\ data' = << >> /\ UNCHANGED <<decoded, relayed>>
             [] Len(piece) = HeaderBytes /\ HasHeader(piece) ->
                  IF HeaderOf(piece).len = 0
                  THEN Handle(piece)
                  ELSE /\ at' = "payload" /\ data' = piece
                       /\ UNCHANGED <<decoded, relayed>>
    /\ UNCHANGED <<sent, closed>>

PacketBytes == HeaderBytes + HeaderOf(data).len

\* Mutant: the second loop asks for the whole payload each time, and all it has
\* read is handed on.
ReadPayloadBeyond ==
    /\ at = "payload"
    /\ \E piece \in Recv(PacketBytes - HeaderBytes) :
        LET bytes == data \o piece
        IN  /\ Taken(piece)
            /\ IF Len(bytes) < PacketBytes
               THEN data' = bytes /\ UNCHANGED <<at, decoded, relayed>>
               ELSE Handle(bytes)
    /\ UNCHANGED <<sent, closed, split>>

\* Mutant: the second loop asks for the whole payload each time, and
\* what is too much is thrown away.
ReadPayloadTooMuch ==
    /\ at = "payload"
    /\ \E piece \in Recv(PacketBytes - HeaderBytes) :
        LET bytes == data \o piece
        IN  /\ Taken(piece)
            /\ IF Len(bytes) < PacketBytes
               THEN data' = bytes /\ UNCHANGED <<at, decoded, relayed>>
               ELSE Handle(SubSeq(bytes, 1, PacketBytes))
    /\ UNCHANGED <<sent, closed, split>>

\* Mutant: the second loop goes on with a complete packet.
ReadPayloadOneMore ==
    /\ at = "payload"
    /\ \E piece \in Recv(PacketBytes + 1 - Len(data)) :
        LET bytes == data \o piece
        IN  /\ Taken(piece)
            /\ IF Len(bytes) <= PacketBytes
               THEN data' = bytes /\ UNCHANGED <<at, decoded, relayed>>
               ELSE Handle(SubSeq(bytes, 1, PacketBytes))
    /\ UNCHANGED <<sent, closed, split>>

\* The second loop.
ReadPayload ==
    /\ at = "payload"
    /\ \E piece \in Recv(PacketBytes - Len(data)) :
        LET bytes == data \o piece
        IN  /\ Taken(piece)
            /\ IF Len(bytes) < PacketBytes
               THEN data' = bytes /\ UNCHANGED <<at, decoded, relayed>>
               ELSE Handle(bytes)
    /\ UNCHANGED <<sent, closed, split>>

\* recv returns nothing: ConnectionResetError.
ReadEnd ==
    /\ at \in {"header", "payload"}
    /\ stream = << >> /\ closed
    /\ at' = "ended" /\ data' = << >>
    /\ UNCHANGED <<sent, stream, closed, decoded, relayed, split>>

Receive == ReadHeader \/ ReadPayload \/ ReadEnd

Next == Send \/ Close \/ Receive

Spec == Init /\ [][Next]_vars

\* The client's thread reads whenever recv can return.
FairSpec == Spec /\ WF_vars(Receive)

-----------------------------------------------------------------------------
(* Properties.                                                             *)

\* However the network cuts the stream into pieces, the frames handed to the
\* handlers are those the client sent, whole, in order and each once.
DecodedIsSent == IsPrefix(decoded, sent)

\* A relayed datagram without options still names the same sender and
\* receiver, has the same identity, fragment offset and time to live, carries
\* the whole payload and nothing else, and its length says so; no option was
\* added to it.  One without flags keeps the whole word of flags and offset.
\* Flags are not kept: each comes out one bit lower, so that don't-fragment
\* becomes more-fragments, and more-fragments is lost.
RelayKeepsDelivery ==
    \A i \in DOMAIN relayed :
        LET from == relayed[i].from
            to   == relayed[i].to
        IN  from.ihl = 5 =>
              /\ to.src = from.src /\ to.dst = from.dst
              /\ to.ttl = from.ttl /\ to.protocol = from.protocol
              /\ to.id = from.id /\ to.frag % 2^13 = from.frag % 2^13
              /\ from.frag < 2^13 => to.frag = from.frag
              /\ to.rest = SubSeq(from.rest, 1, from.len - IpHeaderBytes)
              /\ to.len = IpHeaderBytes + Len(to.rest) /\ to.ihl = from.ihl

\* Every frame sent is handled, unless a frame before it ended the thread or
\* the pieces of a header came apart, which wedges the first loop.
SentIsDecoded ==
    \A i \in 1..MaxFrames :
        i <= Len(sent) ~> (Len(decoded) >= i \/ split \/ at = "ended")

\* While every header comes whole, a thread ends only with its client, all that
\* was sent decoded, or on a frame whose decoding or handler raises: never
\* because of how the payloads were cut.
EndsForAReason ==
    at = "ended" /\ ~split
    => \/ closed /\ decoded = sent
       \/ decoded # << >> /\ Raises(Last(decoded))
=============================================================================
