------------------------------ MODULE UdpSockets ------------------------------
(***************************************************************************)
(* The UDP sockets of one machine: the calls of network/lib/socket/udp.lua *)
(* and the table of open sockets that network/lib/network/udp/UDPLayer.lua *)
(* keeps to find the socket of an arriving datagram.                       *)
(*                                                                         *)
(* The nested tables of the code, local address -> local port -> remote    *)
(* address -> remote port -> socket, are one partial function here: the    *)
(* code removes the levels it empties, so a level is there exactly when a  *)
(* socket is under it.  No call yields between two changes of the table,   *)
(* so each call is one step.                                               *)
(***************************************************************************)
EXTENDS Naturals, Sequences, FiniteSets

CONSTANTS
    Socket,      \* the socket objects the machine's programs create
    LocalAddr,   \* the addresses of its interfaces
    Peer,        \* the addresses of other machines
    Port,        \* the ports programs name
    Ephemeral,   \* the ports math.random(49152, 65535) may give
    Arrivals,    \* the datagrams other machines send to this one
    MaxWaiting   \* bound: datagrams waiting in the sockets' buffers

\* 0.0.0.0, the address of a name that was not set, and of '*'.
AnyAddr == 0
Address == {AnyAddr} \cup LocalAddr \cup Peer
AnyPort == {0} \cup Port \cup Ephemeral

\* Where a socket is found: local address, local port, remote address, remote
\* port.
Key == Address \X AnyPort \X Address \X AnyPort
Datagram == [from : Address, src : AnyPort, to : Address, dst : AnyPort]

ASSUME ConstantsOK ==
    /\ LocalAddr \cup Peer \subseteq Nat \ {0}
    /\ Port \cup Ephemeral \subseteq Nat \ {0}
    /\ MaxWaiting \in Nat
    /\ Arrivals \subseteq {d \in Datagram : d.from \in Peer /\ d.to \in LocalAddr}

VARIABLES
    table,    \* UDPLayer._sockets: the sockets by their keys
    sockname, \* sockname[s]: local address and port
    peername, \* peername[s]: remote address and port
    kind,     \* kind[s]: "unconnected" or "connected"
    buffer    \* buffer[s]: the datagrams to be read

vars == <<table, sockname, peername, kind, buffer>>

Init ==
    /\ table = <<>>
    /\ sockname = [s \in Socket |-> <<AnyAddr, 0>>]
    /\ peername = [s \in Socket |-> <<AnyAddr, 0>>]
    /\ kind = [s \in Socket |-> "unconnected"]
    /\ buffer = [s \in Socket |-> <<>>]

------------------------------------------------------------------------------
(* The table of open sockets *)

KeyOf(local, remote) == <<local[1], local[2], remote[1], remote[2]>>
Names(s) == KeyOf(sockname[s], peername[s])

\* Mutant of Find: the wild-card's socket goes before the one of the exact address.
FindWildcardFirst(tab, key) ==
    LET D == DOMAIN tab
        local == IF \E k \in D : k[1] = AnyAddr THEN AnyAddr ELSE key[1]
    IN D \cap {<<local, key[2], key[3], key[4]>>,
               <<local, key[2], AnyAddr, 0>>}

\* Mutant of Find: a socket that is not connected is not found.
FindConnected(tab, key) ==
    DOMAIN tab \cap {key, <<AnyAddr, key[2], key[3], key[4]>>}

\* getSocket: at each level the exact entry if there is one, else the
\* wild-card's; a level once chosen is not left again.
Find(tab, key) ==
    LET D == DOMAIN tab
        local == IF \E k \in D : k[1] = key[1] THEN key[1] ELSE AnyAddr
        bound == {k \in D : k[1] = local /\ k[2] = key[2]}
        remote == IF \E k \in bound : k[3] = key[3] THEN key[3] ELSE AnyAddr
        port == IF <<local, key[2], remote, key[4]>> \in D THEN key[4] ELSE 0
    IN D \cap {<<local, key[2], remote, port>>}

Remove(tab, key) == [k \in DOMAIN tab \ {key} |-> tab[k]]
Insert(tab, key, s) ==
    [k \in DOMAIN tab \cup {key} |-> IF k = key THEN s ELSE tab[k]]

\* close() indexes a missing level when isOpen() found, by a wild-card, a
\* socket of another name.
CloseRaises(s) ==
    /\ Find(table, Names(s)) # {}
    /\ ~\E k \in DOMAIN table :
            \A i \in 1..3 : k[i] = Names(s)[i]

WithoutEntry(s) ==
    IF Find(table, Names(s)) = {} THEN table ELSE Remove(table, Names(s))

\* Mutant of Added: a taken key changes its owner.
AddedAnyway(tab, key, s) == Insert(tab, key, s)

\* addSocket refuses a key that is taken.
Busy(tab, key) == key \in DOMAIN tab
Added(tab, key, s) == IF Busy(tab, key) THEN tab ELSE Insert(tab, key, s)

\* Mutant of FreePorts: the range is one too long.
\* The ports bindSocket may draw at an address: none that is in use there.
FreePorts(tab, addr) ==
    {e \in Ephemeral : ~\E k \in DOMAIN tab : k[1] = addr /\ k[2] = e}

\* getOpenPorts, what netstat shows: the names of the sockets in the table.
OpenPorts == {Names(table[k]) : k \in DOMAIN table}

------------------------------------------------------------------------------
(* The calls of a socket.  One that raises an error or returns nil before it
   changes anything is no step: setsockname on a bound socket, setpeername
   with an address on a connected one, and whatever starts with the close()
   that raises. *)

\* bindSocket, and the new name that setsockname gives the socket.  The call
\* reports success even if the key was taken.
Bind(s, addr, port) ==
    LET tab == WithoutEntry(s)
        key == <<addr, port, peername[s][1], peername[s][2]>>
    IN /\ ~CloseRaises(s)
       /\ table' = Added(tab, key, s)
       /\ sockname' = IF Busy(tab, key) THEN sockname
                      ELSE [sockname EXCEPT ![s] = <<addr, port>>]
       /\ UNCHANGED <<peername, kind>>

BindFree(s, addr) ==
    \E port \in FreePorts(WithoutEntry(s), addr) : Bind(s, addr, port)

SetSockName(s, addr, port) ==
    /\ sockname[s][2] = 0
    /\ \/ port # 0 /\ Bind(s, addr, port)
       \/ port = 0 /\ BindFree(s, addr)
    /\ UNCHANGED buffer

\* Mutant of SetPeerName: the entry under the old names stays.
ConnectKeepsEntry(s, addr, port) ==
    LET key == KeyOf(sockname[s], <<addr, port>>) IN
    /\ kind[s] = "unconnected"
    /\ sockname[s][2] = 0 => port # 0
    /\ ~Busy(table, key)
    /\ table' = Insert(table, key, s)
    /\ peername' = [peername EXCEPT ![s] = <<addr, port>>]
    /\ kind' = [kind EXCEPT ![s] = "connected"]
    /\ UNCHANGED <<sockname, buffer>>

\* connectSocket on a key that is free or taken.  A socket that was never
\* bound is entered under the local port 0.
SetPeerName(s, addr, port) ==
    LET tab == WithoutEntry(s)
        key == KeyOf(sockname[s], <<addr, port>>)
    IN /\ kind[s] = "unconnected"
       /\ ~CloseRaises(s)
       /\ sockname[s][2] = 0 => port # 0
       /\ table' = Added(tab, key, s)
       /\ IF Busy(tab, key)
             THEN UNCHANGED <<peername, kind>>
             ELSE /\ peername' = [peername EXCEPT ![s] = <<addr, port>>]
                  /\ kind' = [kind EXCEPT ![s] = "connected"]
       /\ UNCHANGED <<sockname, buffer>>

\* setpeername('*') on a connected socket does not look at the answer of
\* connectSocket.
Disconnect(s) ==
    LET tab == WithoutEntry(s)
        key == KeyOf(sockname[s], <<AnyAddr, 0>>)
    IN /\ kind[s] = "connected"
       /\ ~CloseRaises(s)
       /\ sockname[s][2] # 0
       /\ table' = Added(tab, key, s)
       /\ peername' = [peername EXCEPT ![s] = <<AnyAddr, 0>>]
       /\ kind' = [kind EXCEPT ![s] = "unconnected"]
       /\ UNCHANGED <<sockname, buffer>>

\* setpeername('*') on a socket without a local port: the search for a port
\* indexes the entry it found missing, or never ends if another socket is
\* entered under port 0.  Either way the call ends with an error, after
\* close() has taken the socket out of the table.
DisconnectUnbound(s) ==
    /\ kind[s] = "connected"
    /\ ~CloseRaises(s)
    /\ sockname[s][2] = 0
    /\ table' = WithoutEntry(s)
    /\ UNCHANGED <<sockname, peername, kind, buffer>>

\* The socket keeps its names.
Close(s) ==
    /\ ~CloseRaises(s)
    /\ table' = WithoutEntry(s)
    /\ UNCHANGED <<sockname, peername, kind, buffer>>

------------------------------------------------------------------------------
(* Datagrams *)

Waiting == {w \in Socket \X (1..MaxWaiting) : w[2] <= Len(buffer[w[1]])}

\* UDPLayer.payloadHandler: to the socket the table gives, or to nobody.
Deliver(tab, d) ==
    LET found == Find(tab, <<d.to, d.dst, d.from, d.src>>) IN
    buffer' = [s \in Socket |-> IF \E k \in found : tab[k] = s
                                THEN Append(buffer[s], d) ELSE buffer[s]]

\* A datagram from another machine arrives.
Arrive(d) ==
    /\ Cardinality(Waiting) < MaxWaiting
    /\ Deliver(table, d)
    /\ UNCHANGED <<table, sockname, peername, kind>>

\* sendto to one of the machine's own addresses: the socket is bound first if
\* it was not, the router fills in the source address, and the datagram is
\* delivered within the call.
SendLocal(s, addr, port) ==
    /\ addr \in LocalAddr
    /\ Cardinality(Waiting) < MaxWaiting
    /\ IF sockname[s][2] = 0 THEN BindFree(s, AnyAddr)
       ELSE UNCHANGED <<table, sockname, peername, kind>>
    /\ LET local == sockname'[s]
           from == IF local[1] = AnyAddr THEN addr ELSE local[1]
       IN Deliver(table', [from |-> from, src |-> local[2],
                           to |-> addr, dst |-> port])

\* sendto to another machine changes nothing here but the socket's name.
SendAway(s) ==
    /\ sockname[s][2] = 0
    /\ BindFree(s, AnyAddr)
    /\ UNCHANGED buffer

\* receivefrom refuses a socket without a local port, and waits for a
\* datagram on any other.
Receive(s) ==
    /\ sockname[s][2] # 0
    /\ buffer[s] # <<>>
    /\ buffer' = [buffer EXCEPT ![s] = Tail(@)]
    /\ UNCHANGED <<table, sockname, peername, kind>>

------------------------------------------------------------------------------
CallOn(s) ==
    \/ \E addr \in {AnyAddr} \cup LocalAddr, port \in {0} \cup Port :
           SetSockName(s, addr, port)
    \/ \E addr \in Peer \cup LocalAddr, port \in {0} \cup Port :
           SetPeerName(s, addr, port)
    \/ Disconnect(s)
    \/ DisconnectUnbound(s)
    \/ Close(s)
    \/ \E addr \in LocalAddr, port \in Port : SendLocal(s, addr, port)
    \/ SendAway(s)
    \/ Receive(s)

Next ==
    \/ \E s \in Socket : CallOn(s)
    \/ \E d \in Arrivals : Arrive(d)

Spec == Init /\ [][Next]_vars

------------------------------------------------------------------------------
(* Properties *)

TypeOK ==
    /\ DOMAIN table \subseteq Key
    /\ \A k \in DOMAIN table : table[k] \in Socket
    /\ sockname \in [Socket -> Address \X AnyPort]
    /\ peername \in [Socket -> Address \X AnyPort]
    /\ kind \in [Socket -> {"unconnected", "connected"}]
    /\ buffer \in [Socket -> Seq(Datagram)]

\* Whatever programs bind, connect, disconnect and close, and whichever of
\* these calls are refused or raise: the key a socket is found under is the
\* one made of its own names, so no socket is entered twice and netstat shows
\* what is open (UDPLayer.bindSocket, connectSocket, close, getOpenPorts).
KeyIsNames == \A k \in DOMAIN table : Names(table[k]) = k

Registered(s) == \E k \in DOMAIN table : table[k] = s
Fresh(s) == Names(s) = <<AnyAddr, 0, AnyAddr, 0>>

\* The step changes or removes an entry that is not of s.
TakesAnother(s) ==
    \E k \in DOMAIN table :
        table[k] # s /\ ~(k \in DOMAIN table' /\ table'[k] = table[k])

\* A call on a socket that is in the table, or was never used, leaves the
\* entries of all others as they are, although close() removes by name and
\* not by socket (UDPLayer.close).  It is not so of a socket whose name was
\* refused or closed before, whose stale name another may have taken.
CallsKeepOthers ==
    [][\A s \in Socket :
          (Registered(s) \/ Fresh(s)) /\ TakesAnother(s) => ~CallOn(s)]_vars

\* A socket of these names may have the datagram.
Admits(local, remote, d) ==
    /\ local[1] \in {AnyAddr, d.to}
    /\ local[2] = d.dst
    /\ remote[1] \in {AnyAddr, d.from}
    /\ remote[2] \in {0, d.src}

\* A datagram is put only into the buffer of a socket whose names, as they
\* are at that moment, admit it, and a socket named exactly so goes first;
\* a connected socket hears its peer only (UDPLayer.getSocket,
\* payloadHandler).
DeliveredToMatching ==
    [][\A s \in Socket : Len(buffer'[s]) > Len(buffer[s]) =>
          LET d == buffer'[s][Len(buffer'[s])]
              exact == <<d.to, d.dst, d.from, d.src>>
          IN /\ Admits(sockname'[s], peername'[s], d)
             /\ exact \in DOMAIN table' => table'[exact] = s]_vars

\* No other socket in the table could stand in the way of s: none has its
\* local port, and none is bound to a single address.
Alone(s) ==
    \A k \in DOMAIN table :
        table[k] # s => k[1] = AnyAddr /\ k[2] # sockname[s][2]

\* A datagram that the names of an open socket admit finds it if no other
\* socket stands in the way; getSocket never goes back to a wild-card it has
\* passed, so without that condition a datagram may find nobody
\* (UDPLayer.getSocket).
AloneIsFound ==
    \A s \in Socket, d \in Arrivals :
        /\ Registered(s) /\ Alone(s)
        /\ Admits(sockname[s], peername[s], d)
        => Find(table, <<d.to, d.dst, d.from, d.src>>) = {Names(s)}

==============================================================================
