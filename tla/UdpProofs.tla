------------------------------- MODULE UdpProofs -------------------------------
(***************************************************************************)
(* Proofs about the table of UDP sockets, for any sets of sockets,         *)
(* addresses and ports.                                                    *)
(*                                                                         *)
(* KeyIsNames alone is not inductive: that a call takes the right entry    *)
(* away needs the types (a key is a 4-tuple, so it is the names it equals).*)
(* CallsKeepOthers needs, besides, that no entry has the names of a fresh  *)
(* socket (NoFreshKey).  Which socket a datagram finds follows from the     *)
(* same invariant.                                                         *)
(***************************************************************************)
EXTENDS UdpSockets, TLAPS

NoFreshKey == \A k \in DOMAIN table : k[2] # 0 \/ k[4] # 0

\* The invariant, and its part about the table and the names.
Inv == TypeOK /\ KeyIsNames /\ NoFreshKey
TableInv ==
    /\ DOMAIN table \subseteq Key
    /\ \A k \in DOMAIN table : table[k] \in Socket
    /\ sockname \in [Socket -> Address \X AnyPort]
    /\ peername \in [Socket -> Address \X AnyPort]
    /\ kind \in [Socket -> {"unconnected", "connected"}]
    /\ KeyIsNames
    /\ NoFreshKey
BufferOK == buffer \in [Socket -> Seq(Datagram)]

------------------------------------------------------------------------------
(* The table *)

\* A key of the table is found as it is.
LEMMA FindExact ==
    ASSUME NEW tab, NEW key \in Key, key \in DOMAIN tab
    PROVE  Find(tab, key) = {key}
  <1>1. key = <<key[1], key[2], key[3], key[4]>>
    BY DEF Key
  <1> DEFINE D == DOMAIN tab
             local == IF \E k \in D : k[1] = key[1] THEN key[1] ELSE AnyAddr
             bound == {k \in D : k[1] = local /\ k[2] = key[2]}
             remote == IF \E k \in bound : k[3] = key[3] THEN key[3] ELSE AnyAddr
             port == IF <<local, key[2], remote, key[4]>> \in D
                     THEN key[4] ELSE 0
  <1>2. local = key[1]
    OBVIOUS
  <1>3. key \in bound
    BY <1>2
  <1>4. remote = key[3]
    BY <1>3
  <1>5. port = key[4]
    BY <1>1, <1>2, <1>4
  <1>6. Find(tab, key) = D \cap {<<local, key[2], remote, port>>}
    BY DEF Find
  <1> QED
    BY <1>1, <1>2, <1>4, <1>5, <1>6

LEMMA InvParts == Inv <=> TableInv /\ BufferOK
  BY DEF Inv, TypeOK, TableInv, BufferOK

\* The names of a socket are a key.
LEMMA NamesInKey ==
    ASSUME TableInv, NEW s \in Socket
    PROVE  /\ Names(s) \in Key
           /\ Names(s) = <<sockname[s][1], sockname[s][2],
                           peername[s][1], peername[s][2]>>
  BY DEF TableInv, Names, KeyOf, Key

\* What close() leaves: no entry of s, and of the rest only entries that were
\* there, all of them but the one under the names of s.
LEMMA Cleared ==
    ASSUME TableInv, NEW s \in Socket
    PROVE  /\ DOMAIN WithoutEntry(s) = DOMAIN table \ {Names(s)}
           /\ \A k \in DOMAIN WithoutEntry(s) :
                  /\ WithoutEntry(s)[k] = table[k]
                  /\ table[k] # s
  <1>1. Names(s) \in Key
    BY NamesInKey
  <1>2. Names(s) \in DOMAIN table => Find(table, Names(s)) # {}
    BY <1>1, FindExact
  <1>3. /\ DOMAIN WithoutEntry(s) = DOMAIN table \ {Names(s)}
        /\ \A k \in DOMAIN WithoutEntry(s) : WithoutEntry(s)[k] = table[k]
    <2>1. CASE Find(table, Names(s)) = {}
      BY <1>2, <2>1 DEF WithoutEntry
    <2>2. CASE Find(table, Names(s)) # {}
      BY <2>2 DEF WithoutEntry, Remove
    <2> QED BY <2>1, <2>2
  <1>4. \A k \in DOMAIN table : table[k] = s => k = Names(s)
    BY DEF TableInv, KeyIsNames
  <1> QED BY <1>3, <1>4

------------------------------------------------------------------------------
(* The steps *)

\* The names a socket has after the step.
NewNames(s) == KeyOf(sockname'[s], peername'[s])

\* A call that leaves at most one entry of s, under the names s then has, and
\* of the other entries only such as were there, keeps the invariant.
LEMMA OwnEntryOnly ==
    ASSUME TableInv, NEW s \in Socket,
           sockname' \in [Socket -> Address \X AnyPort],
           peername' \in [Socket -> Address \X AnyPort],
           kind' \in [Socket -> {"unconnected", "connected"}],
           \A t \in Socket \ {s} : /\ sockname'[t] = sockname[t]
                                  /\ peername'[t] = peername[t],
           \A k \in DOMAIN table' :
               \/ k \in DOMAIN table /\ table'[k] = table[k] /\ table[k] # s
               \/ /\ k = NewNames(s) /\ table'[k] = s
                  /\ k[2] # 0 \/ k[4] # 0
    PROVE  TableInv'
  <1>1. NewNames(s) \in Key
    BY DEF NewNames, KeyOf, Key
  <1>2. \A t \in Socket \ {s} : NewNames(t) = Names(t)
    BY DEF NewNames, Names, KeyOf
  <1>3. ASSUME NEW k \in DOMAIN table'
        PROVE  /\ k \in Key
               /\ table'[k] \in Socket
               /\ NewNames(table'[k]) = k
               /\ k[2] # 0 \/ k[4] # 0
    <2>1. CASE k \in DOMAIN table /\ table'[k] = table[k] /\ table[k] # s
      <3>1. /\ k \in Key
            /\ table[k] \in Socket \ {s}
            /\ Names(table[k]) = k
            /\ k[2] # 0 \/ k[4] # 0
        BY <2>1 DEF TableInv, KeyIsNames, NoFreshKey
      <3> QED BY <2>1, <3>1, <1>2
    <2>2. CASE k = NewNames(s) /\ table'[k] = s /\ (k[2] # 0 \/ k[4] # 0)
      BY <2>2, <1>1
    <2> QED BY <2>1, <2>2
  <1>4. KeyIsNames'
    BY <1>3 DEF KeyIsNames, Names, NewNames
  <1>5. NoFreshKey'
    BY <1>3 DEF NoFreshKey
  <1> QED BY <1>3, <1>4, <1>5 DEF TableInv

\* What the calls on s make of the table.
TableStep(s) ==
    \/ table' = table
    \/ table' = WithoutEntry(s)
    \/ \E key : table' = Added(WithoutEntry(s), key, s)

\* The entries of WithoutEntry(s), and with it one of s that addSocket added.
LEMMA AddedShape ==
    ASSUME TableInv, NEW s \in Socket, NEW key, key[2] # 0 \/ key[4] # 0,
           table' = Added(WithoutEntry(s), key, s),
           Busy(WithoutEntry(s), key) \/ key = NewNames(s),
           NEW k \in DOMAIN table'
    PROVE  \/ k \in DOMAIN table /\ table'[k] = table[k] /\ table[k] # s
           \/ /\ k = NewNames(s) /\ table'[k] = s
              /\ k[2] # 0 \/ k[4] # 0
  <1> DEFINE tab == WithoutEntry(s)
  <1>1. /\ table' = Added(tab, key, s)
        /\ Busy(tab, key) \/ key = NewNames(s)
    OBVIOUS
  <1>2. \A j \in DOMAIN tab :
            j \in DOMAIN table /\ tab[j] = table[j] /\ table[j] # s
    BY Cleared
  <1> HIDE DEF tab
  <1>3. CASE Busy(tab, key)
    BY <1>1, <1>2, <1>3 DEF Added
  <1>4. CASE ~Busy(tab, key)
    <2>1. /\ DOMAIN table' = DOMAIN tab \cup {key}
          /\ table'[key] = s
          /\ \A j \in DOMAIN tab : table'[j] = tab[j]
      BY <1>1, <1>4 DEF Added, Insert, Busy
    <2> QED BY <1>1, <1>2, <1>4, <2>1
  <1> QED BY <1>3, <1>4

LEMMA BindStep ==
    ASSUME TableInv, NEW s \in Socket, NEW addr \in {AnyAddr} \cup LocalAddr,
           NEW port \in Port \cup Ephemeral, Bind(s, addr, port)
    PROVE  TableInv' /\ TableStep(s)
  <1> DEFINE tab == WithoutEntry(s)
             key == <<addr, port, peername[s][1], peername[s][2]>>
  <1>1. port \in Nat \ {0}
    BY ConstantsOK
  <1>2. /\ table' = Added(tab, key, s)
        /\ peername' = peername
        /\ kind' = kind
        /\ sockname' = IF Busy(tab, key) THEN sockname
                       ELSE [sockname EXCEPT ![s] = <<addr, port>>]
    BY DEF Bind
  <1>3. sockname' \in [Socket -> Address \X AnyPort]
    BY <1>2 DEF TableInv, Address, AnyPort
  <1>4. \A t \in Socket \ {s} : /\ sockname'[t] = sockname[t]
                               /\ peername'[t] = peername[t]
    BY <1>2 DEF TableInv
  <1>5. Busy(tab, key) \/ key = NewNames(s)
    <2>1. ASSUME ~Busy(tab, key)
          PROVE  sockname'[s] = <<addr, port>>
      BY <1>2, <2>1 DEF TableInv
    <2> QED BY <2>1, <1>2 DEF NewNames, KeyOf
  <1>6. key[2] # 0
    BY <1>1
  <1>7. \A k \in DOMAIN table' :
            \/ k \in DOMAIN table /\ table'[k] = table[k] /\ table[k] # s
            \/ /\ k = NewNames(s) /\ table'[k] = s
               /\ k[2] # 0 \/ k[4] # 0
    BY <1>2, <1>5, <1>6, AddedShape
  <1>8. TableInv'
    BY <1>2, <1>3, <1>4, <1>7, OwnEntryOnly DEF TableInv
  <1> QED BY <1>2, <1>8 DEF TableStep

LEMMA SetPeerNameStep ==
    ASSUME TableInv, NEW s \in Socket, NEW addr \in Peer \cup LocalAddr,
           NEW port \in {0} \cup Port, SetPeerName(s, addr, port)
    PROVE  TableInv' /\ TableStep(s)
  <1> DEFINE tab == WithoutEntry(s)
             key == KeyOf(sockname[s], <<addr, port>>)
  <1>1. /\ table' = Added(tab, key, s)
        /\ sockname' = sockname
        /\ sockname[s][2] = 0 => port # 0
        /\ Busy(tab, key) => peername' = peername /\ kind' = kind
        /\ ~Busy(tab, key) =>
              /\ peername' = [peername EXCEPT ![s] = <<addr, port>>]
              /\ kind' = [kind EXCEPT ![s] = "connected"]
    BY DEF SetPeerName
  <1>2. /\ peername' \in [Socket -> Address \X AnyPort]
        /\ kind' \in [Socket -> {"unconnected", "connected"}]
    BY <1>1 DEF TableInv, Address, AnyPort
  <1>3. \A t \in Socket \ {s} : /\ sockname'[t] = sockname[t]
                               /\ peername'[t] = peername[t]
    BY <1>1 DEF TableInv
  <1>4. Busy(tab, key) \/ key = NewNames(s)
    <2>1. ASSUME ~Busy(tab, key)
          PROVE  peername'[s] = <<addr, port>>
      BY <1>1, <2>1 DEF TableInv
    <2> QED BY <2>1, <1>1 DEF NewNames
  <1>5. key[2] # 0 \/ key[4] # 0
    BY <1>1 DEF KeyOf
  <1>6. \A k \in DOMAIN table' :
            \/ k \in DOMAIN table /\ table'[k] = table[k] /\ table[k] # s
            \/ /\ k = NewNames(s) /\ table'[k] = s
               /\ k[2] # 0 \/ k[4] # 0
    BY <1>1, <1>4, <1>5, AddedShape
  <1>7. TableInv'
    BY <1>1, <1>2, <1>3, <1>6, OwnEntryOnly DEF TableInv
  <1> QED BY <1>1, <1>7 DEF TableStep

LEMMA DisconnectStep ==
    ASSUME TableInv, NEW s \in Socket, Disconnect(s)
    PROVE  TableInv' /\ TableStep(s)
  <1> DEFINE tab == WithoutEntry(s)
             key == KeyOf(sockname[s], <<AnyAddr, 0>>)
  <1>1. /\ table' = Added(tab, key, s)
        /\ sockname' = sockname
        /\ sockname[s][2] # 0
        /\ peername' = [peername EXCEPT ![s] = <<AnyAddr, 0>>]
        /\ kind' = [kind EXCEPT ![s] = "unconnected"]
    BY DEF Disconnect
  <1>2. /\ peername' \in [Socket -> Address \X AnyPort]
        /\ kind' \in [Socket -> {"unconnected", "connected"}]
    BY <1>1 DEF TableInv, Address, AnyPort
  <1>3. \A t \in Socket \ {s} : /\ sockname'[t] = sockname[t]
                               /\ peername'[t] = peername[t]
    BY <1>1 DEF TableInv
  <1>4. key = NewNames(s)
    <2>1. peername'[s] = <<AnyAddr, 0>>
      BY <1>1 DEF TableInv
    <2> QED BY <2>1, <1>1 DEF NewNames
  <1>5. key[2] # 0
    BY <1>1 DEF KeyOf
  <1>6. \A k \in DOMAIN table' :
            \/ k \in DOMAIN table /\ table'[k] = table[k] /\ table[k] # s
            \/ /\ k = NewNames(s) /\ table'[k] = s
               /\ k[2] # 0 \/ k[4] # 0
    BY <1>1, <1>4, <1>5, AddedShape
  <1>7. TableInv'
    BY <1>1, <1>2, <1>3, <1>6, OwnEntryOnly DEF TableInv
  <1> QED BY <1>1, <1>7 DEF TableStep

LEMMA CloseStep ==
    ASSUME TableInv, NEW s \in Socket, table' = WithoutEntry(s),
           UNCHANGED <<sockname, peername, kind>>
    PROVE  TableInv' /\ TableStep(s)
  <1>1. \A k \in DOMAIN table' :
            k \in DOMAIN table /\ table'[k] = table[k] /\ table[k] # s
    BY Cleared
  <1>2. TableInv'
    BY <1>1, OwnEntryOnly DEF TableInv
  <1> QED BY <1>2 DEF TableStep

\* One step of any call on s, or the arrival of a datagram.
LEMMA CallStep ==
    ASSUME TableInv, NEW s \in Socket, CallOn(s)
    PROVE  TableInv' /\ TableStep(s)
  <1>1. ASSUME NEW addr \in {AnyAddr} \cup LocalAddr,
               BindFree(s, addr)
        PROVE  TableInv' /\ TableStep(s)
    BY <1>1, BindStep DEF BindFree, FreePorts
  <1>2. ASSUME NEW addr \in {AnyAddr} \cup LocalAddr,
               NEW port \in {0} \cup Port, SetSockName(s, addr, port)
        PROVE  TableInv' /\ TableStep(s)
    <2>1. CASE port # 0 /\ Bind(s, addr, port)
      BY <2>1, BindStep
    <2>2. CASE BindFree(s, addr)
      BY <2>2, <1>1
    <2> QED BY <1>2, <2>1, <2>2 DEF SetSockName
  <1>3. ASSUME NEW addr \in Peer \cup LocalAddr, NEW port \in {0} \cup Port,
               SetPeerName(s, addr, port)
        PROVE  TableInv' /\ TableStep(s)
    BY <1>3, SetPeerNameStep
  <1>4. CASE Disconnect(s)
    BY <1>4, DisconnectStep
  <1>5. CASE DisconnectUnbound(s) \/ Close(s)
    BY <1>5, CloseStep DEF DisconnectUnbound, Close
  <1>6. ASSUME UNCHANGED <<table, sockname, peername, kind>>
        PROVE  TableInv' /\ TableStep(s)
    BY <1>6 DEF TableInv, TableStep, KeyIsNames, NoFreshKey, Names
  <1>7. ASSUME NEW addr \in LocalAddr, NEW port \in Port,
               SendLocal(s, addr, port)
        PROVE  TableInv' /\ TableStep(s)
    <2>1. CASE BindFree(s, AnyAddr)
      BY <2>1, <1>1
    <2>2. CASE UNCHANGED <<table, sockname, peername, kind>>
      BY <2>2, <1>6
    <2> QED BY <1>7, <2>1, <2>2 DEF SendLocal
  <1>8. CASE SendAway(s)
    BY <1>8, <1>1 DEF SendAway
  <1>9. CASE Receive(s)
    BY <1>9, <1>6 DEF Receive
  <1> QED BY <1>2, <1>3, <1>4, <1>5, <1>7, <1>8, <1>9 DEF CallOn

LEMMA ArriveStep ==
    ASSUME TableInv, NEW d \in Arrivals, Arrive(d)
    PROVE  TableInv' /\ table' = table
  BY DEF Arrive, TableInv, KeyIsNames, NoFreshKey, Names

------------------------------------------------------------------------------
(* The buffers *)

LEMMA DeliverType ==
    ASSUME BufferOK, NEW tab, NEW d \in Datagram, Deliver(tab, d)
    PROVE  BufferOK'
  <1>1. \A s \in Socket : Append(buffer[s], d) \in Seq(Datagram)
    BY DEF BufferOK
  <1> QED BY <1>1 DEF BufferOK, Deliver

LEMMA BufferStep ==
    ASSUME Inv, [Next]_vars, TableInv'
    PROVE  BufferOK'
  <1> USE InvParts
  <1>1. ASSUME NEW s \in Socket, NEW addr \in LocalAddr, NEW port \in Port,
               SendLocal(s, addr, port)
        PROVE  BufferOK'
    <2> DEFINE from == IF sockname'[s][1] = AnyAddr THEN addr
                       ELSE sockname'[s][1]
               d == [from |-> from, src |-> sockname'[s][2], to |-> addr,
                     dst |-> port]
    <2>1. sockname'[s] \in Address \X AnyPort
      BY DEF TableInv
    <2>2. d \in Datagram
      BY <2>1 DEF Datagram, Address, AnyPort
    <2>3. Deliver(table', d)
      BY <1>1 DEF SendLocal
    <2> QED BY <2>2, <2>3, DeliverType
  <1>2. ASSUME NEW d \in Arrivals, Arrive(d)
        PROVE  BufferOK'
    <2>1. d \in Datagram
      BY ConstantsOK
    <2> QED BY <1>2, <2>1, DeliverType DEF Arrive
  <1>3. ASSUME NEW s \in Socket, Receive(s)
        PROVE  BufferOK'
    <2>1. Tail(buffer[s]) \in Seq(Datagram)
      BY <1>3 DEF Receive, BufferOK
    <2> QED BY <1>3, <2>1 DEF Receive, BufferOK
  <1>4. ASSUME UNCHANGED buffer
        PROVE  BufferOK'
    BY <1>4 DEF BufferOK
  <1>5. ASSUME NEW s \in Socket, CallOn(s)
        PROVE  BufferOK'
    BY <1>1, <1>3, <1>4, <1>5
       DEF CallOn, SetSockName, SetPeerName, Disconnect, DisconnectUnbound,
           Close, SendAway
  <1>6. CASE UNCHANGED vars
    BY <1>6, <1>4 DEF vars
  <1> QED BY <1>2, <1>5, <1>6 DEF Next

------------------------------------------------------------------------------
(* Where a datagram goes *)

\* What getSocket finds agrees with the names asked for, level by level, but
\* for wild-cards.
LEMMA FoundAgrees ==
    ASSUME NEW tab, NEW a, NEW b, NEW c, NEW e,
           NEW k \in Find(tab, <<a, b, c, e>>)
    PROVE  /\ k \in DOMAIN tab
           /\ k[1] \in {AnyAddr, a} /\ k[2] = b
           /\ k[3] \in {AnyAddr, c} /\ k[4] \in {0, e}
  <1> DEFINE D == DOMAIN tab
             local == IF \E j \in D : j[1] = a THEN a ELSE AnyAddr
             bound == {j \in D : j[1] = local /\ j[2] = b}
             remote == IF \E j \in bound : j[3] = c THEN c ELSE AnyAddr
             port == IF <<local, b, remote, e>> \in D THEN e ELSE 0
  <1>1. Find(tab, <<a, b, c, e>>) = D \cap {<<local, b, remote, port>>}
    BY DEF Find
  <1>2. local \in {AnyAddr, a} /\ remote \in {AnyAddr, c} /\ port \in {0, e}
    OBVIOUS
  <1> HIDE DEF local, bound, remote, port
  <1> QED
    BY <1>1, <1>2

\* getSocket, asked for the ends of d in the table tab, finds s.
FoundFor(tab, d, s) ==
    \E k \in Find(tab, <<d.to, d.dst, d.from, d.src>>) : tab[k] = s

\* A delivery that makes a buffer longer is to a socket that getSocket found.
LEMMA DeliveredIsFound ==
    ASSUME BufferOK, NEW tab, NEW d, Deliver(tab, d), NEW s \in Socket,
           Len(buffer'[s]) > Len(buffer[s])
    PROVE  /\ buffer'[s][Len(buffer'[s])] = d
           /\ FoundFor(tab, d, s)
  <1>1. buffer[s] \in Seq(Datagram)
    BY DEF BufferOK
  <1>2. ~(buffer'[s] = buffer[s])
    BY <1>1
  <1>3. FoundFor(tab, d, s) /\ buffer'[s] = Append(buffer[s], d)
    BY <1>2 DEF Deliver, FoundFor
  <1>4. Len(Append(buffer[s], d)) = Len(buffer[s]) + 1
    BY <1>1
  <1>5. Append(buffer[s], d)[Len(buffer[s]) + 1] = d
    BY <1>1
  <1> QED
    BY <1>3, <1>4, <1>5

\* The socket that gets a datagram is named for it.
LEMMA GetterIsNamed ==
    ASSUME TableInv', BufferOK, NEW d \in Datagram, Deliver(table', d),
           NEW s \in Socket, Len(buffer'[s]) > Len(buffer[s])
    PROVE  LET e == buffer'[s][Len(buffer'[s])]
               exact == <<e.to, e.dst, e.from, e.src>>
           IN  /\ Admits(sockname'[s], peername'[s], e)
               /\ exact \in DOMAIN table' => table'[exact] = s
  <1> DEFINE exact == <<d.to, d.dst, d.from, d.src>>
  <1>1. /\ buffer'[s][Len(buffer'[s])] = d
        /\ FoundFor(table', d, s)
    BY DeliveredIsFound
  <1>2. PICK k : k \in Find(table', exact) /\ table'[k] = s
    BY <1>1 DEF FoundFor
  <1>3. /\ k \in DOMAIN table'
        /\ k[1] \in {AnyAddr, d.to} /\ k[2] = d.dst
        /\ k[3] \in {AnyAddr, d.from} /\ k[4] \in {0, d.src}
    BY <1>2, FoundAgrees
  <1>4. k = <<sockname'[s][1], sockname'[s][2], peername'[s][1], peername'[s][2]>>
    BY <1>2, <1>3 DEF TableInv, KeyIsNames, Names, KeyOf
  <1>5. Admits(sockname'[s], peername'[s], d)
    BY <1>3, <1>4 DEF Admits
  <1>6. ASSUME exact \in DOMAIN table'
        PROVE  table'[exact] = s
    <2>1. exact \in Key
      BY DEF Datagram, Key
    <2> HIDE DEF exact
    <2>2. Find(table', exact) = {exact}
      BY <1>6, <2>1, FindExact
    <2> QED
      BY <1>2, <2>2
  <1> QED
    BY <1>1, <1>5, <1>6

\* A socket that stands alone is found by the names it admits.
LEMMA AloneFound ==
    ASSUME TableInv, NEW s \in Socket, NEW d \in Arrivals,
           Registered(s), Alone(s), Admits(sockname[s], peername[s], d)
    PROVE  Find(table, <<d.to, d.dst, d.from, d.src>>) = {Names(s)}
  <1> DEFINE D == DOMAIN table
             n == Names(s)
             local == IF \E j \in D : j[1] = d.to THEN d.to ELSE AnyAddr
             bound == {j \in D : j[1] = local /\ j[2] = d.dst}
             remote == IF \E j \in bound : j[3] = d.from THEN d.from ELSE AnyAddr
             port == IF <<local, d.dst, remote, d.src>> \in D THEN d.src ELSE 0
  <1>1. Find(table, <<d.to, d.dst, d.from, d.src>>)
            = D \cap {<<local, d.dst, remote, port>>}
    BY DEF Find
  <1>2. /\ n \in D
        /\ \A k \in D : k # n => k[1] = AnyAddr /\ k[2] # d.dst
    BY DEF Registered, Alone, Admits, TableInv, KeyIsNames
  <1>3. /\ n = <<n[1], n[2], n[3], n[4]>>
        /\ n[1] \in {AnyAddr, d.to} /\ n[2] = d.dst
        /\ n[3] \in {AnyAddr, d.from} /\ n[4] \in {0, d.src}
    BY NamesInKey DEF Admits
  <1>4. d.to # AnyAddr /\ d.from # AnyAddr
    BY ConstantsOK DEF AnyAddr
  <1> HIDE DEF n
  <1>5. local = n[1]
    BY <1>2, <1>3, <1>4
  <1>6. bound = {n}
    BY <1>2, <1>3, <1>5
  <1>7. remote = n[3]
    BY <1>3, <1>4, <1>6
  <1>8. <<local, d.dst, remote, d.src>> \in D <=> n[4] = d.src
    <2>1. <<local, d.dst, remote, d.src>> = <<n[1], n[2], n[3], d.src>>
      BY <1>3, <1>5, <1>7
    <2>2. <<n[1], n[2], n[3], d.src>> \in D => <<n[1], n[2], n[3], d.src>> = n
      BY <1>2, <1>3
    <2>3. <<n[1], n[2], n[3], d.src>> = n <=> n[4] = d.src
      BY <1>3
    <2> QED
      BY <1>2, <2>1, <2>2, <2>3
  <1>9. port = n[4]
    BY <1>3, <1>8
  <1>10. <<local, d.dst, remote, port>> = n
    BY <1>3, <1>5, <1>7, <1>9
  <1> QED
    BY <1>1, <1>2, <1>10 DEF n

------------------------------------------------------------------------------
(* The theorems *)

LEMMA InvInit == Init => Inv
  <1> SUFFICES ASSUME Init PROVE Inv
    OBVIOUS
  <1>1. DOMAIN table = {}
    BY DEF Init
  <1>2. TypeOK
    BY <1>1 DEF Init, TypeOK, Address, AnyPort
  <1> QED BY <1>1, <1>2 DEF Inv, KeyIsNames, NoFreshKey

LEMMA InvStep == Inv /\ [Next]_vars => Inv'
  <1> SUFFICES ASSUME Inv, [Next]_vars PROVE Inv'
    OBVIOUS
  <1>1. TableInv'
    <2>1. ASSUME NEW s \in Socket, CallOn(s) PROVE TableInv'
      BY <2>1, CallStep, InvParts
    <2>2. ASSUME NEW d \in Arrivals, Arrive(d) PROVE TableInv'
      BY <2>2, ArriveStep, InvParts
    <2>3. CASE UNCHANGED vars
      BY <2>3, InvParts DEF vars, TableInv, KeyIsNames, NoFreshKey, Names
    <2> QED BY <2>1, <2>2, <2>3 DEF Next
  <1>2. BufferOK'
    BY <1>1, BufferStep
  <1> QED BY <1>1, <1>2 DEF Inv, TypeOK, TableInv, BufferOK

LEMMA InvHolds == Spec => []Inv
  BY InvInit, InvStep, PTL DEF Spec

\* The variables keep their types.
THEOREM TypeCorrect == Spec => []TypeOK
  BY InvHolds, PTL DEF Inv

\* Every socket in the table is under the key its own names make: what
\* bindSocket, connectSocket, setpeername and close leave behind, refused or
\* not.
THEOREM TableFollowsNames == Spec => []KeyIsNames
  BY InvHolds, PTL DEF Inv

\* A call on a socket in the table, or on one never used, changes no other
\* socket's entry.
THEOREM OthersKept == Spec => CallsKeepOthers
  <1>1. ASSUME Inv, NEW s \in Socket, Registered(s) \/ Fresh(s), CallOn(s)
        PROVE  ~TakesAnother(s)
    <2>1. TableInv
      BY <1>1, InvParts
    <2>2. ASSUME NEW k \in DOMAIN table, table[k] # s
          PROVE  k # Names(s)
      <3>1. CASE Registered(s)
        BY <2>1, <2>2, <3>1 DEF Registered, TableInv, KeyIsNames
      <3>2. CASE Fresh(s)
        <4>1. Names(s)[2] = 0 /\ Names(s)[4] = 0
          BY <3>2 DEF Fresh
        <4> QED BY <4>1, <2>1 DEF TableInv, NoFreshKey
      <3> QED BY <1>1, <3>1, <3>2
    <2>3. ASSUME NEW k \in DOMAIN table, table[k] # s
          PROVE  k \in DOMAIN WithoutEntry(s) /\ WithoutEntry(s)[k] = table[k]
      BY <2>1, <2>2, <2>3, Cleared
    <2>4. ASSUME NEW tab, NEW key, table' = Added(tab, key, s)
          PROVE  \A k \in DOMAIN tab : k \in DOMAIN table' /\ table'[k] = tab[k]
      <3>1. CASE Busy(tab, key)
        BY <2>4, <3>1 DEF Added
      <3>2. CASE ~Busy(tab, key)
        BY <2>4, <3>2 DEF Added, Insert, Busy
      <3> QED BY <3>1, <3>2
    <2>5. TableStep(s)
      BY <1>1, <2>1, CallStep
    <2>6. ASSUME NEW k \in DOMAIN table, table[k] # s
          PROVE  k \in DOMAIN table' /\ table'[k] = table[k]
      BY <2>3, <2>4, <2>5, <2>6 DEF TableStep
    <2> QED BY <2>6 DEF TakesAnother
  <1>2. Inv /\ [Next]_vars =>
            [\A s \in Socket :
                (Registered(s) \/ Fresh(s)) /\ TakesAnother(s)
                    => ~CallOn(s)]_vars
    BY <1>1
  <1> QED BY <1>2, InvHolds, PTL DEF Spec, CallsKeepOthers

\* A datagram is only ever handed to a socket whose names admit it, and a socket
\* named exactly so is never passed over for a wild-card's, whichever sockets
\* are opened, renamed and closed around the delivery.
THEOREM DatagramsGoWhereNamed == Spec => DeliveredToMatching
  <1> DEFINE Right(s) ==
                 Len(buffer'[s]) > Len(buffer[s]) =>
                    LET d == buffer'[s][Len(buffer'[s])]
                        exact == <<d.to, d.dst, d.from, d.src>>
                    IN  /\ Admits(sockname'[s], peername'[s], d)
                        /\ exact \in DOMAIN table' => table'[exact] = s
  <1>1. ASSUME Inv, Inv', [Next]_vars, NEW s \in Socket
        PROVE  Right(s)
    <2>1. BufferOK /\ TableInv'
      BY <1>1, InvParts DEF Inv, TypeOK, TableInv
    <2>2. buffer[s] \in Seq(Datagram)
      BY <2>1 DEF BufferOK
    <2>3. ASSUME NEW t \in Socket, NEW addr \in LocalAddr, NEW port \in Port,
                 SendLocal(t, addr, port)
          PROVE  Right(s)
      <3> DEFINE from == IF sockname'[t][1] = AnyAddr THEN addr
                         ELSE sockname'[t][1]
                 d == [from |-> from, src |-> sockname'[t][2], to |-> addr,
                       dst |-> port]
      <3>1. sockname'[t] \in Address \X AnyPort
        BY <2>1 DEF TableInv
      <3>2. d \in Datagram
        BY <3>1 DEF Datagram, Address, AnyPort
      <3>3. Deliver(table', d)
        BY <2>3 DEF SendLocal
      <3> HIDE DEF d
      <3> QED BY <2>1, <3>2, <3>3, GetterIsNamed
    <2>4. ASSUME NEW d \in Arrivals, Arrive(d)
          PROVE  Right(s)
      <3>1. d \in Datagram /\ Deliver(table', d)
        BY <2>4, ConstantsOK DEF Arrive
      <3> QED BY <2>1, <3>1, GetterIsNamed
    <2>5. ASSUME NEW t \in Socket, Receive(t)
          PROVE  Right(s)
      <3>1. buffer[t] \in Seq(Datagram) /\ buffer[t] # <<>>
        BY <2>1, <2>5 DEF BufferOK, Receive
      <3>2. buffer'[s] = IF s = t THEN Tail(buffer[s]) ELSE buffer[s]
        BY <2>1, <2>5 DEF BufferOK, Receive
      <3>3. Len(Tail(buffer[t])) <= Len(buffer[t])
        BY <3>1
      <3>4. ~(Len(buffer'[s]) > Len(buffer[s]))
        BY <2>2, <3>1, <3>2, <3>3
      <3> QED BY <3>4
    <2>6. ASSUME UNCHANGED buffer
          PROVE  Right(s)
      <3>1. ~(Len(buffer'[s]) > Len(buffer[s]))
        BY <2>2, <2>6
      <3> QED BY <3>1
    <2> HIDE DEF Right
    <2>7. ASSUME NEW t \in Socket, CallOn(t)
          PROVE  Right(s)
      BY <2>3, <2>5, <2>6, <2>7
         DEF CallOn, SetSockName, SetPeerName, Disconnect, DisconnectUnbound,
             Close, SendAway
    <2>8. CASE UNCHANGED vars
      BY <2>6, <2>8 DEF vars
    <2> QED BY <1>1, <2>4, <2>7, <2>8 DEF Next
  <1>2. Inv /\ Inv' /\ [Next]_vars => [\A s \in Socket : Right(s)]_vars
    BY <1>1
  <1> QED BY <1>2, InvHolds, PTL DEF Spec, DeliveredToMatching

\* No open socket is deaf: unless another socket stands in its way, a datagram
\* its names admit is found to be its.
THEOREM AloneGetsIt == Spec => []AloneIsFound
  <1>1. Inv => AloneIsFound
    BY AloneFound, InvParts DEF AloneIsFound
  <1> QED BY <1>1, InvHolds, PTL

==============================================================================
