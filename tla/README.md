# openComputers_codes in TLA+

This directory holds TLA+ models of the programs of this repository, the TLC
configurations that check them, and TLAPS proofs. The programs are written in
Lua for OpenComputers (computers inside Minecraft), and in Python: the server
of the internet cable (`icable_server`) and the tools that build the packages
(`pm/tools`). Paths below are relative to `src/`.

Run a check with `tlc -workers 2 -config TcpLossy.cfg MCTcpConnection.tla`, and
a proof with `tlapm BankProofs.tla`. `PROJECT.json` lists the components, the
runs, the mutants that each property detects, the source lines every
definition stands for, the hazards of the code and the theorems.

## 1. The system

Every computer runs OpenOS: coroutines scheduled without preemption, and a
queue of signals (`modem_message`, `arp`, `key_down`, timers) that
`event.pull` takes one at a time, calling the registered handlers. **A
handler, or a stretch of a thread between two sleeps, runs without
interruption; whatever sleeps or pulls an event lets every other handler run
inside it.** That is where the interleavings of the models come from. The
other sources of difficulty are the network, which loses frames (range, full
signal queues), the machine, which can be switched off at any time, and the
disk, which can be full.

| Component | Keeps | Does | Talks to |
|---|---|---|---|
| IP network (`network/lib/network/{ethernet,arp,ipv4,icmp}`, `lib/ifconfig.lua`, `boot/30_network.lua`) | interfaces, routing table, ARP cache, fragment buffers | raise and lower interfaces, route, resolve, forward, answer pings | the modem's signals below, TCP and UDP above |
| TCP (`network/lib/socket/tcp.lua`, `tcp/*`) | per socket: state, sequence numbers, in and out buffers; the table of sockets | bind, listen, accept, connect, send, recieve, close; one handler for arriving segments | IP |
| UDP (`network/lib/socket/udp.lua`, `udp/*`) | per socket: names, buffer; the nested table of sockets | setsockname, setpeername, sendto, receivefrom, close | IP; used by the bank, lnfs, DNS |
| Bank (`bank_server/rc.d/bank_server.lua`, `bank_api/lib/bank_api.lua`) | one signed file per account; the server's socket | balance, transaction, new account, new card, edit | UDP; cards (`libCB`) |
| Coins, cash machine, vending machine (`libCoin`, `bank_atm`, `vending`) | coins in chests, the session, the card in the reader, the stock | deposit, withdraw, sell, refund | the bank, transposers |
| Network file system (`lnfs`) | client: property cache; server: open files | the calls of an OpenComputers file system, forwarded | UDP |
| DNS (`dns_common`, `dns_server`) | zones; the resolver keeps nothing | resolve | UDP |
| Internet cable server: client threads (`icable_server/icableServer.py`) | the list of connected clients; per client its user, pending challenge and address | authenticate, give addresses, relay datagrams through the firewall, stop | the clients' sockets; the database |
| Internet cable server: wire format (`icable_server/icable/{protocol,packet,utils}.py`) | the half-read frame of each client | put frames together, decode and encode them | the client threads |
| Internet cable server: web interface and database (`icableServer.py`, `models/*`, `icable/firewall.py`) | users, sessions, networks and their members, firewalls | log in and out, sign up, delete, make and delete networks, edit firewalls | browsers; the client threads read the same database |
| Internet cable client (`icable`) | the read lock and half-read packets | carry IP packets over an internet card | IP below `ifconfig`; the server |
| Package tools (`pm/tools`) | descriptions in two forms, archives and their index | convert one form to the other, build with one of three builders | files that `pm` fetches |
| Package manager (`pm`, `pm_get`) | manifests of installed packages, the list of automatic ones | install, upgrade, uninstall, autoremove | files, the web |
| Controllers (`stargate_*`, `autocrafter`, `doorCtrl`) | screen and device state | react to events of the device | devices |
| Libraries (`libGUI*`, `yawl`, `libClass*`, `tar`, `datahashlib`, `crypttool`) | nothing or drawing state | drawing, codecs, hashes | - |

What makes each correct, and what is hard about it:

- **IP network.** A packet is handed up once and only at the machine it is
  addressed to; caches hold the truth; a ping is answered or is dropped
  somewhere. Hard: a send waits for ARP inside `event.pull`, which runs
  handlers that send and wait too; interfaces change under traffic.
- **TCP.** The reader gets the writer's bytes in order; both ends agree on
  which connections exist; closing releases both sockets. Hard: losses,
  time-outs on both sides of a handshake, the backlog, numbers that run out.
- **UDP.** A datagram reaches the socket whose names match. Hard: four nested
  tables, calls refused half-way, stale names.
- **Bank.** Money is neither created nor lost, a debit is covered when it is
  written, OK means done, and an answer belongs to the call that asked. Hard:
  crashes between the two files of a transaction, late answers, retries.
- **Coins and machines.** What is paid is delivered, or returned. Hard:
  partial transfers, handlers running inside each other's bank calls.
- **lnfs.** A cached property equals the server's. Hard: background fills
  that overtake invalidations, answers without a request number.
- **DNS.** An answer belongs to its question. Hard: time-outs, constant ids.
- **icable, threads.** An address belongs to one client, is in a network its
  user can use, and a datagram goes to its holder in the sender's subnet if the
  firewall lets it. Hard: the list is searched by index while others change it;
  what was looked up is used later; the receiver may be slow or gone.
- **icable, web and database.** What belongs to an account ends with it; every
  network has somebody who can manage it; users see their subnet's networks.
  Hard: one request is several commits, subnets and sessions are drawn at
  random, a login can be signed up again.
- **icable, wire.** What is decoded is what was sent, a relayed datagram goes
  where the first one was sent, with its payload. Hard: `recv` cuts anywhere, fields are read and
  written at different bit positions.
- **Package tools.** The index gives no version that its archive has not
  reached; a converted package installs the same files. Hard: runs that fail or
  are interrupted half-way, path rules that differ between the builders.
- **pm.** What an installed package depends on is installed. Hard: cyclic
  dependencies, a step that fails half-way.

## 2. The modules

| Module | Models |
|---|---|
| `TcpStream` | the promise of a TCP connection: a reliable stream in each direction |
| `TcpConnection` | a listening server and its clients |
| `TcpProofs` | theorems about `TcpConnection`, its refinement of `TcpStream` among them |
| `UdpSockets` | the UDP sockets of one machine |
| `UdpProofs` | theorems about `UdpSockets` |
| `IpNetwork` | interfaces, routes, ARP, forwarding and ping on several machines |
| `IpProofs` | theorems about `IpNetwork` |
| `BankLedger` | the promise of the bank: an atomic ledger with calls that get their own answer |
| `Bank` | the bank's server, its files, and the calls of the api |
| `BankProofs` | theorems about `Bank` |
| `IcableDb` | the icable server's database: what each method of the models does to the tables |
| `IcableWeb` | the web interface: one request after the other, crashes between commits |
| `IcableProofs` | theorems about `IcableWeb` |
| `IcableNodes` | the client threads over the shared list, the main loop, the signal handler, the web interface beside them |
| `IcableNodesProofs` | theorems about `IcableNodes` |
| `IcableWire` | the bytes of one client: frames, decoding, relaying |
| `IcableWireProofs` | theorems about `IcableWire` |
| `PackageFiles` | what each builder and the converter make of one package (pure operators) |
| `PackageTools` | editing, converting and building a repository, with failures and interruptions |
| `PackageProofs` | theorems about `PackageTools` |
| `MC...` | the instances TLC explores |

The layers are not composed into one state space: each is modelled against
what the layer below does to it. TCP and the bank see channels that lose
segments or datagrams, which is what `IpNetwork` does to packets (`lost`); the
bank sees UDP sockets as one fresh socket per call, whose key `UdpSockets`
shows to be its own (`KeyIsNames`). The icable server is three models around
one database: `IcableWeb` and `IcableNodes` both extend `IcableDb`, and in
`IcableNodes` the web interface changes the database while the threads look at
it, by the operators `IcableWeb` uses; `IcableWire` is the part of a thread
around its handlers: what reaches them, what they raise at, what a relayed
datagram becomes. It takes for granted that the client is authenticated, that
its user has a network and that the receiver is found, which is the part of
`IcableNodes`.

### TcpConnection

`tcb[s]` is the protocol record of a socket (`_state`, `_SND_NXT`, `_SND_UNA`,
`_RCV_NXT`, `_outBuffer`), `inBuffer` and `readable` are `_inBuffer` and
whether it is nil, `table` is `TCPLayer._sockets`, `net` the segments under
way. Byte n of a stream is the number n, so a repeated, skipped or swapped
byte is visible. `connect`, `accept` and `recieve` sleep while they wait; each
is split in two actions there. `Rcv...` are the branches of
`TCPSocket:payloadHandler`, one action per branch with the acknowledgment,
buffer and answer it makes; `RcvRaises` is a branch whose answer cannot be
built, since `TCPSegment:seq` asserts that a number is at most 0xffffffff.

`_tick` (retransmission) has no action: `_outBuffer` is indexed by sequence
number, so `#self._outBuffer` is 0 and the method returns at its first line.
Nothing is ever sent again. A consequence is that with losses only safety is
claimed, and delivery only without.

### UdpSockets

The four nested tables of `UDPLayer` are one partial function from keys to
sockets. The levels the code empties it also removes, so a level exists
exactly when a key lies under it; `Find` does the level by level look-up with
its wild-cards. Refused and raising calls are modelled with what they did
before they were refused (`DisconnectUnbound`).

### IpNetwork

`signals[n]` is the queue of machine n, `waiting[n]` the stack of sends that
are inside `getAddress`, newest first: an `arp` signal is seen by the newest
wait alone, and the waits below it lose it. `GiveUp` drops the whole stack:
the waits below the newest began before it, so when it runs out they have run
out too, and they return one inside the other without taking a signal in
between. `Process` is everything one
machine does with one packet in one handler: hand up, answer a ping, route,
resolve or send. `RemoveKeys` is the loop of `removeByInterface`, which runs
over the wrong keys. A machine owns, besides the addresses of its interfaces
that are up, all of 127.0.0.0/8 (`Owns`), so a packet to it goes nowhere else.

### Bank

`Handle` is `messageHandler` up to its verdict; `OpenFile` and `WriteFile` are
the two halves of `writeAccount` (opening for writing empties the file);
`Answer` sends. The split is where a crash or a full disk bites; stopping the
service can only happen between requests or in the sending of the answer,
where the thread sleeps (`Stop`). The verdict of `checkCBdata` is an input
(`card`), as are signatures (`bad` files, trusted clients). Amounts have any
sign. A file that was emptied and not written keeps its old balance in the
model (`solde` of a `torn` file), for the properties alone: the code cannot
read it.

### IcableDb and IcableWeb

A database is a record of tables, each a partial function; a method of the
models is an operator from a database to the next. Two of them are subtle.
`DeleteUser` is the row, what `ON DELETE CASCADE` takes with it, the trigger
`cleanSubnetwork` and the deletion the code repeats. `Visible` is the query of
`User.networks`, whose inner `SELECT` names a column the inner table does not
have: it means the outer row's, so a network with any member is listed to its
whole subnet.

`HTTPServer` handles one request at a time and nobody else writes, so a request
is one action per commit: `PostSignup` and `SignupSession`, `PostNetworkNew`
and `NetworkMember`. `Crash` comes between any two. The cookie of a browser is
outside the server and survives everything. The 401 of `do_POST` does not
return, so what stops a request without a session is only that `self.user` is
missing; `PostNetworkDelete` does not use it and goes through. The history
variables tell one account from the next of the same name.

### IcableNodes

`pc[n]` is where thread n is between two looks at shared state, `job[n]` the
locals of its handler. Iterating over `clientList` is by index, one element a
step (`Scan`, `Rescan`, `Find`), and `Finish` removes an element below the
iterator of another thread. `Verify...` are apart from `AuthFound` because
`getUserFromLogin` and `verify` query one after the other. `Relay` sends in the
sender's thread on the receiver's socket, whose buffer holds `Capacity`
messages. `AuthRequest` is one step though it queries twice: an account deleted
between the look-up and the reading of its salt makes the thread raise, as one
deleted before does. `Stop` runs the signal handler in the main thread, which joins every
thread in the list. `disturbed` is history: it is set when, during a look-up,
another thread or the web interface changes what is looked up; the properties
that the code keeps only without such a change say so, and are then exact.

### IcableWire

The stream is made of pairs (frame, byte), so that a frame put together from
the wrong bytes is seen; what a payload says is a record of its fields. `Recv`
returns any piece. `ReadHeader` is the first loop of `recievePacket` as it is
written: each piece replaces the one before. `Repack` is `IPv4Datagram.unpack`
followed by `pack`, with the shifts of each; `Packs` is when `struct.pack`
takes the values. `Raises` is what ends the thread: a payload that does not
decode, or a handler that raises on one that does (`HandlerRaises`: a challenge
for an unknown login, `AUTO_IPv4`, a mask above 32, a datagram that does not
pack).

### PackageFiles and PackageTools

An archive is the set of installed paths.
`RepoArchive`, `OppmArchive` and `PmArchive` are the three builders, with the
order in which they copy and what they refuse (`shutil.copytree` onto a folder
that exists, a source that is missing); `ToPm` and `ToOppm` are `repoConvert`.
Each goes over the entries of a package with a fold, one entry at a time, as the
loops of the tools do.
In `PackageTools` a run opens an archive, completes it, skips a package or ends
on one, and last writes the index; `Interrupt` stops it anywhere and leaves the
file it had open broken.

## 3. What is checked

| Run | Shows | Size |
|---|---|---|
| `tcp_lossy` | one connection over a lossy network, both ends send and close; the server's numbers end two bytes after its first: what is read is a prefix of what was sent, acknowledged bytes have arrived, and the connection implements `TcpStream`. `connect` and `accept` may time out, an address may not be resolved, the listener is on all addresses: an established socket of the server belongs to a client that got its SYN+ACK | 1 client, 2 bytes a side in chunks of 1 or 2; 130 k states |
| `tcp_live` | without losses what is sent arrives, and a connection its client closes is released at both ends, unless the server had a segment size or more under way at the close (`FinOutOfReach`, below); only the client's program closes, because two closes at once leave both sockets behind (below) | 1 client, 2 bytes, a segment size of 2 |
| `udp_sockets` | any order of calls, refused ones included, while datagrams arrive | 3 sockets, 1 port, 2 ephemeral ports |
| `ip_network` | two hosts behind a router; interfaces go up and down; losses, late and lost answers; two packets out of five kinds | 113 k states |
| `bank_ledger` | the bank implements `BankLedger` and conserves money while messages are lost and calls time out, with every refusal the code has | 2 clients, 4 accounts, 3 calls |
| `bank_crash` | crashes and full disk at every step, transactions of a negative amount among the requests: every other debit is covered when it is written, no money is created but by a debt that goes with its file, OK is durable | 2 clients, 4 calls |
| `bank_negative` | expected to fail: a transaction of a negative amount takes an account below zero (finding, below) | 2 clients, 4 calls, no losses and no crashes |
| `icable_web` | requests of two browsers in any order, crashes between commits: rows end with their account, no network is left to nobody, everybody sees the networks of their subnet, an edit of a firewall changes only the verdicts it should | 2 logins, 2 subnets, 2 sessions, 6 requests, 1 crash; symmetric |
| `icable_nodes` | three threads over the list while it grows and shrinks, a firewall that changes, SIGTERM: two clients get one address only after a disturbed look-up, and an undisturbed search for a receiver is exact | 3 connections, 1.7 million states |
| `icable_live` | challenges, answers to them again, a change of user, a client that leaves, an account and a network deleted, the login signed up again: no challenge is good twice, a datagram stays in its subnet, an address is in a network of its holder's user, and every handler ends | 2 connections, buffers of 1 |
| `icable_wire` | two frames out of 22, well formed and not, in pieces of any size: decoded is what was sent; a relayed datagram keeps its addresses, identity, offset and payload, though not its flags; while headers come whole, the thread ends only with its client or on a frame whose decoding or handler raises | 2 frames |
| `package_tools` | edits, conversions, builds by each builder, failing packages, interruptions: the index never gives a version later than that of a complete archive (it may name one that an interruption left broken), a finished run leaves both equal, conversion installs the same files | 2 packages, 3 edits, 1 interruption; 650 k states |

Why the bounds suffice. Two bytes in chunks of one or two give every relation
between data and acknowledgments that the handlers tell apart: first, next,
merged, repeated, out of window. In `tcp_live` the segment size is 2, so that
two segments of one byte fill the window and a FIN can fall out of it; with a
size above the number of bytes that case would not exist. One client meets every
step of a handshake and of its time-outs at both ends; that clients do not
disturb each other's handshakes is proved for any number (`BothEndsKnow`).
Three UDP sockets over one named and two ephemeral ports reach every pair of
sockets that can meet on a key, with a third whose entry they may hit; the
look-up distinguishes at each level only the exact key and the wild-card. Two
packets are what a nested wait needs: one waiting, one sent inside its wait.
Three calls of two clients reach the retry of a call that timed out while the
first request is still in the server, beside a call of another client. One
negative amount, of a size the account does not hold, is all the code tells
apart from the others. Four
accounts are a payer, a payee, one that does not exist and one with a bad
signature.

Two logins, two subnets and two sessions are what the random draws can collide
in; six requests reach signing up, making a network, deleting the account and
signing up again with a session of another browser in between, and one crash
falls between any two commits. Three connections are the taker of an address,
a rival, and one that shortens the list below both; each sends at most three
packets, which are an authentication, an address and a datagram. Two frames
are the one that is cut and the one behind it. Two packages are one that fails
and one that does not, in either order; three edits are a description, its
next version and a change of form.

`CHECK_DEADLOCK FALSE` is in every configuration: programs may stop calling,
and the number of calls, requests, packets or edits is bounded.

**Fairness.** `FairSpec` of TCP: segments are delivered, the timer of
TIME-WAIT fires, the polling loops of `connect`, `accept` and `recieve` look
again, and the server goes on calling `accept()`. The first three are
coroutines and timers that OpenOS resumes; the last is a program that serves,
without which nobody takes from the backlog. No fairness is assumed of
`connect`, `send`, `close` or of reading. `IpNetwork`: a machine goes on
taking signals and a wait times out (`event.pull` with a limit, repeated at
most until its deadline). `Bank`'s properties are safety and need none.
`IcableNodes`: each thread runs, and each client that stays reads what it is
sent; without the second `send` blocks for ever, which the code does not
prevent. No fairness is assumed of what clients send, of leaving, of accepting
or of the web interface. `IcableWire`: the client's thread reads whenever
`recv` can return.

**Where documents and code differ.** The models follow the code; the
properties say what it keeps. These differences were met on the way:

- `accept()` polls, so a connection established and closed by its peer
  between two looks is reported as a time-out (`tcp.lua:191` against `:178`);
- `TCPLayer:getSocket` never goes back from the table of an address to that
  of 0.0.0.0 (`TCPLayer.lua:147` against `tcp.lua:227`);
- a wait for an ARP answer loses it to a wait nested in it (`arp/api.lua:80`);
- `removeByInterface` removes by position in a list of positions
  (`IPv4Router.lua:135` against `:123`);
- **finding, run `bank_negative`:** the balance test uses the signed amount, the
  transfer its absolute value (`bank_server.lua:164`, `:170`), so a transaction
  of -2 from an account that holds 1 is granted and leaves it at -1, while
  `bank_api/README.md:59` says "A account can't have a negative balance.";
- in `icableServer.py`: a challenge for an unknown login calls a member of an
  enumeration and raises instead of refusing (`:145`, `protocol.txt:81`);
  `AUTO_IPv4` raises, since the address it reads was never set (`:149`,
  `protocol.py:102`);
  NOT_AUTH is never sent, an unauthenticated client is cut off because `user`
  was never set (`protocol.txt:118`); CLIENT_DISCONNECT is answered with an
  error and ends nothing (`protocol.txt:126`); an address is looked for and taken apart (`:160` and
  `:166`), so two clients can get it (`DuplicateNeedsRace` says when); a header
  that comes in two pieces leaves the first loop out of step (`:55`), which is
  why `SentIsDecoded` and `EndsForAReason` are limited to whole ones; `stop`
  joins threads that only end with their clients, and raises on one that is not
  started (`:44`);
- in `icable/packet.py`: a relayed datagram has its dscp and its flags shifted
  (`:160`, `:169`: don't-fragment becomes more-fragments and more-fragments is
  lost, which the receiver's reassembly goes by, `IPv4Layer.lua:151` and `:158`),
  its options taken for payload, and with a checksum of 0 or a dscp of 16 or more is
  not relayed at all, while `protocol.txt:132` has it passed on as it is;
- in `pm/tools`: `oppmPackager` does not put the archives where it was asked to
  (`oppmPackager.py:137`, `:197`); the configuration `repoPackager` protects is
  named by the source path, not by where it is installed; an index built for
  some packages drops the others; a package without the field `repo` is
  converted to a folder it cannot be built from; `doPmToOppm` leaves out
  packages that have no list of files.

Other oddities the models reproduce and do not judge: CLOSE-WAIT is left with
a FIN at once (`tcp.lua:523`), so a program cannot send after its peer closed;
when both ends close at once neither socket leaves its table, because
FIN-WAIT-1 waits for an acknowledgment that a FIN also carries; an end that has
closed takes the data still arriving without advancing its `rcvNxt`
(`tcp.lua:505`), so with a segment size or more under way the peer's FIN fails
the window test (`tcp.lua:453`), is not sent again, and the ends stay in
FIN-WAIT-2 and LAST-ACK for ever; `send()` works
in any state, since the test `not self._state == ...` never holds; a SYN for a
full backlog is answered with a plain ACK to port 0, so its client waits until
its time-out; `setsockname` returns 1 when the address
is taken; status 4 of the bank means both a refused command and a short
account; an account file emptied by a crash makes every request for it
unanswered.

## 4. What is proved

Proofs hold for every number of accounts, clients, sockets, machines and
packets, and every sequence of steps; the runs above check the same definitions
on small instances, and TLC checked each inductive invariant below on the
instance of its run before it was proved. `PROJECT.json` lists the theorems
with the properties they state.

**`TcpProofs`**, for any number of clients, any initial sequence numbers, any
sizes of payload, losses, time-outs and applications. The invariant `Inv` has
four parts. `SockOK`: what the numbers of a socket mean as long as it takes
data. Its `sndNxt` follows the bytes it has written, its `sndUna` is at most
what its peer has received, and its `rcvNxt` at most what is in its stream
(`rcvNxt` stays behind when an acknowledgment cannot be built, which is why it
is no equality). `FlowOK`: the data on the way to a socket are bytes after those
it has, in their order; nothing is sent twice, so a lost segment leaves a gap
that every later segment is refused for. `SegOK`: what each segment under way
tells its receiver, a SYN the initial number, an acknowledgment no more than its
sender has received, a FIN that its sender is finished. `SynOnce`: a client's SYN
is unsent, on its way, in the backlog or accepted, and never two of these, so
the passive side of a connection is opened once. Two lemmas, `ActorStep` and
`FieldsStep`, reduce an action to what it does to the one socket that acts.
- `TypeCorrect` (in particular every number that is sent fits the header),
  `ReceivedIsPrefix`, `AcknowledgedIsReceived`, `BothEndsKnow`.
- `ImplementsStream`: `Spec => StreamSpec`. Writing, reading and closing are the
  steps of `TcpStream`, everything else stutters; a step that moves data needs
  the invariant to be one.

**`IpProofs`**, for any topology, addresses and number of packets. `Inv` says
that routes name interfaces of their machine, caches hold the truth, frames
that carry an ARP answer hold it too, and that a packet marked for the machine
itself is addressed to it, in every queue, wait and list of what was handed up.
The routes that `removeByInterface` leaves are wrong ones, but routes of the same
table (`RemoveKeysType`), which is all that is needed: being handed a packet is
decided by its address, never by the route. `OnceInv` counts where each packet
is: at most once, over all queues and waits together with what was handed up.
- `TypeCorrect`, `CachesNeverLie`, `OnlyAddresseesGetIt`, `RepliesAreEarned`,
  `NothingIsDuplicated`.

`RemoveKeys` is a recursive function; what is proved about it is by induction
over its argument. The library's induction theorems cannot be used (they take an
operator), so the lemma `Induct` derives the one form that is needed from a least
counterexample, which the well-foundedness of `<` gives.

**`BankProofs`.**
- `TypeCorrect`: the types are kept. `TypeOK` alone is not inductive, because
  `WriteFile` takes the head of `job.edits`; `OpenForEdit` adds that a file is
  open only while an edit is left.
- `DebitsCovered`: for amounts of any sign, a file is opened for a balance below
  zero only to credit it or for a negative transaction. The invariant `Solvent`
  ties each pending edit to the file it will change: the first edit of a job,
  until its file is opened, is a credit, belongs to a negative transaction or is
  covered by the balance as it was when the request was decided (`IsCovered`),
  and the second is a credit. It survives a crash because a crash only removes
  the job.
- `OkMeansWritten`: a call that returned OK has its change on the disk. The
  invariant `Durable` follows an outcome from the decision through the job,
  the answer and the client: an OK answer only exists for a request in
  `written`, and a request is added when its last edit is.
- `BankIsLedger`, assuming `Undisturbed` (`~MayCrash /\ ~DiskMayFail`; losses,
  stops and time-outs remain): the bank implements
  `BankLedger` under the refinement mapping of `Bank`, step by step. A request
  takes effect in the ledger when it is decided; the writes that follow change
  the files and not the mapped balances (`Balance` adds the pending edits to the
  file). The invariant is `Orderly`: `Solvent`, that the ids of the requests on
  their way are distinct and of calls already made (`QueueOK`), and that what is
  answered is an outcome of the log (`FaithfulOK`).
- `MoneyOnlyMoves`, assuming `Undisturbed`: between two requests the accounts
  hold what they held at the start and what granted edits added, for amounts of
  any sign. `NoMoneyFromNothing`: they never hold more, but for the debts that
  went with the files they stood in (`DebtsLost`), whatever crash or disk error
  cuts a request in two. Both follow `Gain`, the money in the files, in the open
  file (`InHand`) and in the edits not yet written (`Pending`), less what was
  minted and what the edit in progress is still to mint (`Owed`). Every step but
  a crash and a disk error keeps `Gain`; these two change it by `Owed - InHand -
  Pending`, which is at most the debt in the open file (`DebtInHand`, by
  `Covered`), and that debt is then one of the lost ones; so `Gain + DebtInHand`
  never exceeds the debts lost. The invariant `Kept` adds that no request is
  carried out twice (`FreshOK`) and that a file open for writing is torn, so its
  old balance is counted once (`HandOK`).
- The sums themselves (`MapThenSumSet` of the community modules) are first shown to
  exist, to be integers and not to depend on the order of addition (`SumExists`,
  `AnyOrder`), by a least counterexample over the cardinality of finite sets; then
  one more or one changed number changes the sum by that much (`SumGrows`,
  `SumStays`).

**`IcableProofs`.** The invariant has three parts. `Linked(db)`: the
references between the tables hold, every network's subnet is somebody's, and
no id above `lastId` is in use. `Owned`: each session and membership is of the
account now behind its login. `Unfinished`: what a request has still to do is
for an account that exists and, for a membership, for the last network, which
is that account's. It is needed because a crash may come before the second
commit, and because a new account must find no row of its name, which is
`Linked`. One lemma per method of the models says which tables it writes, one
that it keeps `Linked`, and one per request that it keeps the invariant.
- `RowsEndWithAccount`, `NetworksHaveUsers`, `ReferencesHold`: for any logins,
  subnets, browsers, requests and crashes.
- `UsersSeeTheirSubnet`. The invariant `Listed` adds that a membership joins a
  user and a network of one subnet, and that while it is `calm` every network but
  the one being made has a member: with `Linked`, that is what the look-up of a
  user's networks goes by.
- `EditsFollowRules`, an action property, needs of the state only that a firewall
  is a list of rules (`RulesOk`). Its content is about lists of any length: the
  first rule that matches decides (`FirstDecides`), a rule at the end decides only
  where there was no other (`AppendVerdict`), and one fewer occurrence of a rule
  moves no other rule before or behind a third (`RemoveVerdict`). `StepEdits` shows
  that a step edits at most one subnet's list, by one rule.

**`IcableNodesProofs`**, for any number of connections and packets, any
interleaving of the threads, and any changes of the database.
- `ChallengesAreSingleUse`. Challenges used were asked before (`asked` grows only
  when one is sent), the pending one was not used, and a handler works on an
  answer to one that was asked; a new challenge is then above all that were
  used, and the pending one is forgotten in the very step that accepts it.
- `SubnetsAreSeparate`, `DuplicatesComeFromRaces`, `LookupsAreExact`,
  `AddressesNeedNetworks`. The invariant `LookInv` says for each step of a look-up
  what its thread knows (`LookOk`): unless it was disturbed, every element
  before its index was connected and examined, and none of them was what it
  looks for; whatever happened, the receiver it has chosen was in a subnet of
  the sender at that time. A step of another thread either keeps that knowledge
  or sets `disturbed`; the heart of the proof is that no third case exists. That
  an index still means the same element is where an undisturbed list is needed:
  only the removal of an element moves others, and it disturbs.

**`IcableWireProofs`**, for any frames and any pieces. The invariant `Where`: until
a header comes in two pieces, the bytes taken together with those to come are the
frames not decoded yet, each whole and in order (`Chain`, stated of every byte by
its frame and place, so that no recursion over frames is needed); after it, the
first loop holds between 1 and 7 bytes for ever and nothing more is decoded.
`ChainDrop` and `ChainSend` are the two ends of the stream, `HandleKeeps` the
step that decodes.
- `FramesAreWhole`, `NothingEndsItEarly`.
- `RelayIsFaithful`: the shifts of `unpack` and `pack` cancel on the 13 bits of the
  offset (`FragKept`), for every 16 bits of flags and offset; they do not cancel on
  the flags, so the whole word is kept only when none is set.

**`PackageProofs`**, for any packages, recipes, edits and interruptions. The
versions are tied along the way they take: the form that is converted is never
ahead of the form the owner edits (`FormsOk`), what a run has made is in the
archives and is of the version described (`RunOk`), and the index is not ahead of
the descriptions (`IndexOk`), which is what keeps it right while archives are
opened, written anew or broken under it.
- `IndexIsHonest`, `FinishedBuildsAgree`.
- `ConversionsInstallTheSame`. The invariant `Sound`: the
  descriptions are packages, a form that has the version of the other was converted
  from it (`FormsAgree`), and a conversion works on a package that is described
  (`ConvertOk`), though edits, skipped packages and interruptions come
  between the two files a conversion writes. What is left is about
  packages of any number of entries. A fold is the last of the results it goes
  through, each made from the one before (`Steps`, `RepoFolds`, `PmFolds`,
  `PutFolds`, `ListFolds`), and what is so of the first and kept by each step is so
  of the last (`Induct`, by the least number for which it is not): `repoPackager` and
  `pmUtils` put in an archive exactly the files of their entries at their places (`RepoBuilds`,
  `PmBuilds`), and a conversion keeps sources and places
  (`ToPmKeeps`, `ToOppmKeeps`).

  Proving it showed a case that the run's recipes do not have and in which the two
  forms do differ. `fileListOppmToPm` leaves a path outside the project's folder as
  it is, and `pmUtils` takes every path from that folder: if the same path also
  exists there, it is that file which is installed, and not the one
  `repoPackager` takes. `ConversionKeepsPlaces` excludes it by name
  (`HasTwin`); without a twin `pmUtils` refuses such a package.

**`UdpProofs`.** The invariant is `Inv == TypeOK /\ KeyIsNames /\ NoFreshKey`:
the key of an entry is made of its socket's names, and no entry has the names
of a socket that was never used. The lemma `OwnEntryOnly` shows that `close()`
of a socket in the table finds that very entry, exact at all four levels, so
removing by name removes the right one. `TypeCorrect`, `TableFollowsNames` and
`OthersKept` follow.
`DatagramsGoWhereNamed` follows because what `Find` returns is the key of an entry
that agrees with the datagram in every name but its wild-cards (`FoundAgrees`),
and that key is its socket's names. `AloneGetsIt` is the converse: the look-up,
which never goes back, turns at each level towards the socket when no other shares
its port or hides it behind a single address (`AloneFound`).

Assumed: the named ASSUMEs of the modules on their constants, which the runs
evaluate, and `Undisturbed` where it is stated. They say what the
constants are (a 16-bit field is one, an initial database has the tables of the
schema, a finite number of interfaces and of account files (`AccountsFinite`), no
package named like a mark of the model, nothing below a file of the repository
(`TreeAssumption`), recipes that are packages), never what the program does with them.

Every invariant and every action property that a passing run checks is stated by
one of these theorems, and so is the refinement of `TcpStream` and of `BankLedger`.

Only model-checked: liveness. `SentIsDelivered`, `ClosedIsReleased`, `EchoAnswered`,
`HandlerEnds` and `SentIsDecoded` rest on fairness, which is about `ENABLED`, outside
the reach of the prover.

## 5. What is left out of the modelled parts

- TCP: the choice of port by `bind` and `connectSocket`, the read modes other
  than "*a", checksums; a machine with several listening sockets.
- IP: fragments (`IPv4Packet.lua`, planned as a pure function), the ttl (it
  starts again at each hop, so it never runs out), `ifup` of an interface that
  was raised before (it adds a second listener), routes typed in by hand.
- Bank: the cryptography, whose verdicts are inputs; `secretdir` and key
  handling. An answer finds its call by a client port drawn at random out of
  16384 and by the name of the command (`UDPLayer.lua:50`); the model tells calls
  apart by number, so it leaves out a later call that draws the port of an
  earlier one whose answer is still to come.
- icable: pages that only read, HTML and cookies' attributes; hashing and
  random numbers, whose collisions are kept for subnets and sessions and left
  out for challenges and hashes; methods nobody calls; a client that closes
  while the server accepts it.
- Package tools: the command lines, the text of manifests beyond paths and
  versions, the configuration files they name, the tar format; two tools run at
  once, edits during a run, a description cut in the middle; a second copy of a package elsewhere.
- Card, GUI and other tools: see the notes of the components in
  `PROJECT.json`.

## 6. Plan

The modules above came first because everything else runs on them, and money
and data are at stake there; the icable server and the package tools followed,
as the part with real threads and the part every other program is delivered
with. In order:

1. **Coins, cash machine, vending machine** (`Coins`, `Atm`, `Vending`):
   `moveCoin` over several stacks with partial transfers; the re-entrant
   handlers of the cash machine composed with an abstract bank
   (`BankLedger`); payment before delivery. Properties: coins plus balance
   are conserved, a session's operations go to the card of that session, what
   is paid is delivered or refunded.
2. **Package manager** (`Packages`): resolution, install and removal over a
   small dependency graph with a cycle, against a reference closure.
   Properties: the resolved list contains each dependency once and before its
   dependant, removal leaves no package without what it depends on.
3. **lnfs** (`Lnfs`): cache and server, background fills against
   invalidations, answers taken for another call's; refinement of an atomic
   file system.
4. **DNS** (`Dns`): resolver time-outs, zone look-up with aliases against a
   reference closure.
5. **Internet cable client** (`IcableClient`): the read lock and packets that
   arrive in pieces, against `IcableWire`.
6. **IP, second part** (`Fragments`): splitting and reassembly against
   identity, interfaces raised again.
7. **Hashes and controllers**: `datahashlib` against reference definitions
   over few-bit words, `autocrafter`, `doorCtrl`, stargate.

Each will have one run of its own, with the properties of the component
together.

Theorems to prove next are those of the modules to come, conservation of coins in
`Coins` first.
