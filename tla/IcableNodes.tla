---------------------------- MODULE IcableNodes ----------------------------
(***************************************************************************)
(* The client side of src/icable_server/icableServer.py: the main loop that *)
(* accepts connections, one Node thread per connection, and the signal      *)
(* handler.  The threads share clientList, each other's address and user,   *)
(* and the database, which the web interface changes meanwhile.             *)
(* A step of a thread is the code between two looks at something shared;    *)
(* iterating over clientList is one step per element, by its index, as the  *)
(* list may change below the iterator.  pc[n] is where a thread is:         *)
(*   new, listed     not accepted yet; in clientList, thread not started    *)
(*   recv            waiting in recievePacket                               *)
(*   auth, verify    handler_client_auth: before and after getUserFromLogin *)
(*   authreq         handler_client_auth_request                            *)
(*   scan, rescan    handler_netconf, looking for the address in the list   *)
(*   nets, check     canUserConnectToNetwork                                *)
(*   find, firewall, relay    handler_data                                  *)
(*   reply           sending to the own client                              *)
(*   end, done       the finally clause; the thread has ended               *)
(***************************************************************************)
EXTENDS IcableDb

CONSTANTS
    Nodes,       \* connections; each is accepted at most once
    NoNode,
    NoLogin,     \* a user attribute that was never set
    Addresses, NoAddress,
    InitialDb,   \* the database when the server starts
    WebChanges,  \* what the web interface may do meanwhile, each once
    Requests,    \* bound: Requests[n][i] is what the i-th packet of n may be
    Leavers,     \* bound: the connections whose client may leave
    Capacity,    \* messages the socket to a client holds before send blocks
    MayStop      \* whether SIGTERM arrives

ASSUME NodesAssumption ==
    /\ NoNode \notin Nodes /\ NoLogin \notin Logins
    /\ NoAddress \notin Addresses
    /\ Leavers \subseteq Nodes
    /\ Capacity \in Nat \ {0}
    /\ MayStop \in BOOLEAN
    /\ DOMAIN InitialDb = DOMAIN EmptyDb /\ DOMAIN InitialDb.users \subseteq Logins
    /\ \A change \in WebChanges :
          /\ change.kind \in {"delete user", "sign up", "delete network", "new rule"}
          /\ change.kind = "sign up" => change.login \in Logins

VARIABLES
    db,
    running,     \* the Event run
    main,        \* the main thread: [at, node, i, target, from]
    clientList,
    pc, job,     \* the threads, and the local variables of their handlers
    user, pending, address,   \* attributes of the Node objects
    unread,      \* how many messages each client has not read yet
    gone,        \* the client has closed its end
    sent, asked, \* packets received from each client; challenges sent to it
    changes,     \* what the web interface may still do
    \* History.
    got,         \* whose data was relayed to each client
    used,        \* the challenges each client's authentications answered
    was,         \* the logins each connection was authenticated as
    raced        \* the nodes whose address was given in a disturbed look-up

threadVars == <<clientList, pc, job, user, pending, address>>
socketVars == <<unread, gone, sent, asked>>
history == <<got, used, was, raced>>
vars == <<db, running, main, changes, threadVars, socketVars, history>>

NoJob == [packet |-> [kind |-> "NONE"], challenge |-> 0, i |-> 1, to |-> NoNode, ids |-> {},
          reply |-> "NONE", login |-> NoLogin,
          disturbed |-> FALSE]  \* history: what is looked up has changed

Init ==
    /\ db = InitialDb
    /\ running = TRUE
    /\ main = [at |-> "accept", node |-> NoNode, i |-> 1,
               target |-> NoNode, from |-> "accept"]
    /\ clientList = << >>
    /\ pc = [n \in Nodes |-> "new"] /\ job = [n \in Nodes |-> NoJob]
    /\ user = [n \in Nodes |-> NoLogin]
    /\ pending = [n \in Nodes |-> NoLogin]
    /\ address = [n \in Nodes |-> NoAddress]
    /\ unread = [n \in Nodes |-> 0]
    /\ gone = [n \in Nodes |-> FALSE]
    /\ sent = [n \in Nodes |-> 0] /\ asked = [n \in Nodes |-> 0]
    /\ changes = WebChanges
    /\ got = [n \in Nodes |-> {}] /\ used = [n \in Nodes |-> << >>]
    /\ was = [n \in Nodes |-> {}]
    /\ raced = {}

\* The threads in the middle of a look-up in clientList.
LookingUp == {n \in Nodes : pc[n] \in {"scan", "rescan", "nets", "check",
                                       "find", "firewall", "relay"}}

\* A change that what thread n does (NoNode: the web interface) makes to the
\* list or to what its elements refer to disturbs the look-ups of the others.
DisturbOthers(n, locals) ==
    job' = [m \in Nodes |->
              CASE m = n -> locals
                [] m # n /\ m \in LookingUp -> [job[m] EXCEPT !.disturbed = TRUE]
                [] OTHER -> job[m]]

-----------------------------------------------------------------------------
(* The clients.                                                            *)

\* What a client sends is chosen when its thread receives it; a client that
\* has left may have sent before.
ReadReply(n) ==
    /\ unread[n] > 0 /\ ~gone[n]
    /\ unread' = [unread EXCEPT ![n] = @ - 1]
    /\ UNCHANGED <<db, running, main, changes, threadVars, gone, sent, asked,
                   history>>

Leave(n) ==
    /\ n \in Leavers
    /\ pc[n] \notin {"new", "done"} /\ ~gone[n]
    /\ gone' = [gone EXCEPT ![n] = TRUE]
    /\ unread' = [unread EXCEPT ![n] = 0]
    /\ UNCHANGED <<db, running, main, changes, threadVars, sent, asked, history>>

-----------------------------------------------------------------------------
(* The web interface, as IcableWeb has it: one committed change at a time. *)

Apply(change) ==
    CASE change.kind = "delete user"    -> DeleteUser(db, change.login)
      [] change.kind = "sign up"        ->
            InsertUser(db, change.login, change.password, change.subnet)
      [] change.kind = "delete network" -> DeleteNetwork(db, change.id)
      [] change.kind = "new rule"       ->
            SaveFirewall(db, change.subnet,
                AppendRule(FirewallOf(db, change.subnet), change.rule))

WebChange ==
    \E change \in changes :
        /\ change.kind = "delete user" => Found(db, change.login)
        /\ change.kind = "sign up" => ~Found(db, change.login)
        /\ change.kind = "delete network" => change.id \in DOMAIN db.networks
        /\ db' = Apply(change)
        /\ changes' = changes \ {change}
        /\ DisturbOthers(NoNode, NoJob)
        /\ UNCHANGED <<running, main, clientList, pc, user, pending, address,
                       socketVars, history>>

-----------------------------------------------------------------------------
(* The main thread.                                                        *)

mainOthers == <<db, changes, job, user, pending, address, socketVars, history>>

\* The connection is in the list before its thread is started.
Accept(n) ==
    /\ main.at = "accept"
    /\ pc[n] = "new"
    /\ clientList' = Append(clientList, n)
    /\ pc' = [pc EXCEPT ![n] = "listed"]
    /\ main' = [main EXCEPT !.at = "start", !.node = n]
    /\ UNCHANGED <<running, mainOthers>>

Start ==
    /\ main.at = "start"
    /\ pc' = [pc EXCEPT ![main.node] = IF running THEN "recv" ELSE "end"]
    /\ main' = [main EXCEPT !.at = IF running THEN "accept" ELSE "over"]
    /\ UNCHANGED <<running, clientList, mainOthers>>

\* The handler runs in the main thread, wherever that is.
Stop ==
    /\ MayStop /\ running
    /\ main.at \in {"accept", "start"}
    /\ running' = FALSE
    /\ main' = [main EXCEPT !.at = "join", !.i = 1, !.from = main.at]
    /\ UNCHANGED <<clientList, pc, mainOthers>>

\* for node in clientList: node.join().  The list shrinks as threads end;
\* joining a thread that was not started raises in the main thread.
Join ==
    /\ main.at = "join"
    /\ \/ /\ main.i > Len(clientList)
          /\ main' = [main EXCEPT !.at = main.from]
       \/ /\ main.i <= Len(clientList)
          /\ pc[clientList[main.i]] = "listed"
          /\ main' = [main EXCEPT !.at = "dead"]
       \/ /\ main.i <= Len(clientList)
          /\ pc[clientList[main.i]] # "listed"
          /\ main' = [main EXCEPT !.at = "wait", !.target = clientList[main.i]]
    /\ UNCHANGED <<running, clientList, pc, mainOthers>>

Joined ==
    /\ main.at = "wait" /\ pc[main.target] = "done"
    /\ main' = [main EXCEPT !.at = "join", !.i = @ + 1]
    /\ UNCHANGED <<running, clientList, pc, mainOthers>>

-----------------------------------------------------------------------------
(* Node.run: the loop, and how it ends.                                    *)

Goto(n, step) == pc' = [pc EXCEPT ![n] = step]

\* Go on to step with the locals changed; send reply next.
Continue(n, step, locals) == Goto(n, step) /\ job' = [job EXCEPT ![n] = locals]

\* The handler is done: the loop looks at run before it receives again.
NextLoop == IF running THEN "recv" ELSE "end"
Loop(n) == Continue(n, NextLoop, NoJob)

\* An exception that nothing catches: the finally clause is next.
Raise(n) == Continue(n, "end", NoJob)

Answer(n, reply) == Continue(n, "reply", [NoJob EXCEPT !.reply = reply])

threadOthers == <<db, running, main, changes, clientList, gone, sent>>

\* What a step that only moves its own thread leaves alone.
OnlyMoves == UNCHANGED <<threadOthers, user, pending, address, unread, asked,
                         history>>

\* recv returned nothing: ConnectionResetError, which run catches.
ReceiveEnd(n) ==
    /\ pc[n] = "recv" /\ gone[n]
    /\ Raise(n)
    /\ OnlyMoves

\* The finally clause.  From here on sending to n raises.
Finish(n) ==
    /\ pc[n] = "end"
    /\ clientList' = RemoveFirst(clientList, n)
    /\ Goto(n, "done") /\ DisturbOthers(n, NoJob)
    /\ UNCHANGED <<db, running, main, changes, user, pending, address,
                   socketVars, history>>

\* socket.send to the own client: blocks while the buffer is full; after the
\* client has gone it is lost or raises.  With the answer of a successful
\* authentication, self.user is set.
Reply(n) ==
    LET login == job[n].login IN
    /\ pc[n] = "reply"
    /\ \/ /\ ~gone[n] /\ unread[n] < Capacity
          /\ unread' = [unread EXCEPT ![n] = @ + 1]
       \/ gone[n] /\ UNCHANGED unread
    /\ asked' = [asked EXCEPT ![n] = IF job[n].reply = "SERVER_AUTH_REQUEST"
                                     THEN @ + 1 ELSE @]
    /\ IF login = NoLogin
       THEN Loop(n) /\ UNCHANGED <<user, history>>
       ELSE /\ Goto(n, NextLoop) /\ DisturbOthers(n, NoJob)
            /\ user' = [user EXCEPT ![n] = login]
            /\ was' = [was EXCEPT ![n] = @ \cup {login}]
            /\ UNCHANGED <<got, used, raced>>
    /\ UNCHANGED <<threadOthers, pending, address>>

ReplyRaises(n) ==
    /\ pc[n] = "reply" /\ gone[n]
    /\ Raise(n)
    /\ OnlyMoves

Packet(n) == job[n].packet

-----------------------------------------------------------------------------
(* handler_client_auth and handler_client_auth_request.  pending[n] is the  *)
(* User object a challenge was made for: its login and the challenge.      *)

authOthers == <<threadOthers, user, address, unread, asked>>

AuthUnknownUser(n) ==
    /\ pc[n] = "auth" /\ ~Found(db, Packet(n).login)
    /\ Answer(n, "SERVER_AUTH")
    /\ pending' = [pending EXCEPT ![n] = NoLogin]
    /\ UNCHANGED <<authOthers, history>>

AuthFound(n) ==
    /\ pc[n] = "auth" /\ Found(db, Packet(n).login)
    /\ Goto(n, "verify") /\ UNCHANGED job
    /\ OnlyMoves

\* verify without a pending user, secureVerify with one of the same login.
Accepted(n) ==
    /\ Verify(db, Packet(n).login, Packet(n).password)
    /\ IF pending[n] = NoLogin
       THEN ~Packet(n).secure
       ELSE /\ pending[n].login = Packet(n).login
            /\ Packet(n).secure
            /\ pending[n].challenge = job[n].challenge

\* Mutant: the pending user is kept.
KeepPending(n) == UNCHANGED pending

\* The pending user is forgotten whatever the outcome: single use.
ForgetPending(n) == pending' = [pending EXCEPT ![n] = NoLogin]

\* The password is read again: the user may have been deleted since.
VerifyAuth(n) ==
    /\ pc[n] = "verify"
    /\ Found(db, Packet(n).login)
    /\ ForgetPending(n)
    /\ Continue(n, "reply", [NoJob EXCEPT
            !.reply = "SERVER_AUTH",
            !.login = IF Accepted(n) THEN Packet(n).login ELSE NoLogin])
    /\ used' = IF Accepted(n) /\ Packet(n).secure
               THEN [used EXCEPT ![n] = Append(@, job[n].challenge)]
               ELSE used
    /\ UNCHANGED <<authOthers, got, was, raced>>

VerifyDeleted(n) ==
    /\ pc[n] = "verify"
    /\ ~Found(db, Packet(n).login)
    /\ \/ Raise(n) /\ UNCHANGED pending
       \/ /\ pending[n] # NoLogin /\ pending[n].login # Packet(n).login
          /\ ForgetPending(n)
          /\ Answer(n, "SERVER_AUTH")
    /\ UNCHANGED <<authOthers, history>>

\* An account deleted between the look-up and the reading of its salt makes the
\* thread raise, as AuthRequestUnknownUser has it for one deleted before.
AuthRequest(n) ==
    /\ pc[n] = "authreq" /\ Found(db, Packet(n).login)
    /\ pending' = [pending EXCEPT ![n] = [login |-> Packet(n).login,
                                          challenge |-> asked[n] + 1]]
    /\ Answer(n, "SERVER_AUTH_REQUEST")
    /\ UNCHANGED <<authOthers, history>>

\* The refusal calls a member of an enumeration: TypeError.
AuthRequestUnknownUser(n) ==
    /\ pc[n] = "authreq" /\ ~Found(db, Packet(n).login)
    /\ Raise(n)
    /\ OnlyMoves

-----------------------------------------------------------------------------
(* Look-ups in clientList, one element per step.                           *)

AtEnd(n) == job[n].i > Len(clientList)
Element(n) == clientList[job[n].i]
NextElement(n) ==
    Continue(n, pc[n], [job[n] EXCEPT !.i = @ + 1])

\* Mutant: the last client is not looked at.
ScanMissesLast(n) ==
    /\ pc[n] = "scan"
    /\ CASE job[n].i >= Len(clientList) -> Goto(n, "nets") /\ UNCHANGED job
         [] job[n].i < Len(clientList) /\ address[Element(n)] = Packet(n).addr ->
                Continue(n, "rescan", [job[n] EXCEPT !.i = 1])
         [] OTHER -> NextElement(n)
    /\ OnlyMoves

Scan(n) ==
    /\ pc[n] = "scan"
    /\ CASE AtEnd(n) -> Goto(n, "nets") /\ UNCHANGED job
         [] ~AtEnd(n) /\ address[Element(n)] = Packet(n).addr ->
                Continue(n, "rescan", [job[n] EXCEPT !.i = 1])
         [] OTHER -> NextElement(n)
    /\ OnlyMoves

\* The second case asks again: when the address has been released since,
\* nothing is answered.
Rescan(n) ==
    /\ pc[n] = "rescan"
    /\ CASE AtEnd(n) -> Loop(n)
         [] ~AtEnd(n) /\ address[Element(n)] = Packet(n).addr ->
                Answer(n, "SERVER_ERROR")
         [] OTHER -> NextElement(n)
    /\ OnlyMoves

\* canUserConnectToNetwork: the ids first, then each network by its id; a
\* network deleted in between is False, which has no attribute network.
ReadNetworks(n) ==
    /\ pc[n] = "nets"
    /\ IF Found(db, user[n])
       THEN Continue(n, "check", [job[n] EXCEPT !.ids = Visible(db, user[n])])
       ELSE Raise(n)
    /\ OnlyMoves

\* Mutant: any network will do.
MatchingAny(n) == {i \in DOMAIN db.networks :
                       db.networks[i].prefix = Packet(n).prefix}

Matching(n) == {i \in job[n].ids \cap DOMAIN db.networks :
                    db.networks[i].prefix = Packet(n).prefix}

\* The ids are looked at in their order, up to the first match.
MeetsDeleted(n) ==
    \E i \in job[n].ids \ DOMAIN db.networks : \A k \in Matching(n) : i < k

\* The address is taken before the answer is sent.
Grant(n) ==
    /\ pc[n] = "check" /\ ~MeetsDeleted(n) /\ Matching(n) # {}
    /\ address' = [address EXCEPT ![n] = Packet(n).addr]
    /\ Goto(n, "reply")
    /\ DisturbOthers(n, [NoJob EXCEPT !.reply = "SERVER_NETCONF"])
    /\ raced' = IF job[n].disturbed THEN raced \cup {n} ELSE raced \ {n}
    /\ UNCHANGED <<threadOthers, user, pending, unread, asked, got, used, was>>

Refuse(n) ==
    /\ pc[n] = "check"
    /\ \/ MeetsDeleted(n) /\ Raise(n)
       \/ ~MeetsDeleted(n) /\ Matching(n) = {} /\ Answer(n, "SERVER_ERROR")
    /\ OnlyMoves

\* Mutant: the subnets are not compared.
AnySubnet(n, m) == TRUE

SameSubnet(n, m) == SubnetOf(db, user[m]) = SubnetOf(db, user[n])

\* Mutant: a search that has found nobody begins again.
FindForEver(n) ==
    /\ pc[n] = "find"
    /\ CASE AtEnd(n) /\ job[n].to = NoNode ->
              Continue(n, "find", [job[n] EXCEPT !.i = 1])
         [] AtEnd(n) /\ job[n].to # NoNode -> Goto(n, "firewall") /\ UNCHANGED job
         [] ~AtEnd(n) /\ address[Element(n)] # Packet(n).dst -> NextElement(n)
         [] OTHER ->
              IF Found(db, user[n]) /\ Found(db, user[Element(n)])
              THEN Continue(n, "find", [job[n] EXCEPT
                     !.i = @ + 1,
                     !.to = IF @ = NoNode /\ SameSubnet(n, Element(n))
                            THEN Element(n) ELSE @])
              ELSE Raise(n)
    /\ OnlyMoves

\* A client with the address is asked for its user's subnet, and so is the
\* sender; the first that agrees is taken.  A user that is not set, or was
\* deleted, raises.
Find(n) ==
    /\ pc[n] = "find"
    /\ CASE AtEnd(n) /\ job[n].to = NoNode -> Loop(n)
         [] AtEnd(n) /\ job[n].to # NoNode -> Goto(n, "firewall") /\ UNCHANGED job
         [] ~AtEnd(n) /\ address[Element(n)] # Packet(n).dst -> NextElement(n)
         [] OTHER ->
              IF Found(db, user[n]) /\ Found(db, user[Element(n)])
              THEN Continue(n, "find", [job[n] EXCEPT
                     !.i = @ + 1,
                     !.to = IF @ = NoNode /\ SameSubnet(n, Element(n))
                            THEN Element(n) ELSE @])
              ELSE Raise(n)
    /\ OnlyMoves

\* Mutant: source and destination are swapped.
FirewallBackwards(n) ==
    /\ pc[n] = "firewall"
    /\ CASE ~Found(db, user[n]) -> Raise(n)
         [] Found(db, user[n]) /\ GetAction(FirewallOf(db, SubnetOf(db, user[n])),
                            Packet(n).dst, Packet(n).src) = "ALLOW" ->
                Goto(n, "relay") /\ UNCHANGED job
         [] OTHER -> Loop(n)
    /\ OnlyMoves

Firewall(n) ==
    /\ pc[n] = "firewall"
    /\ CASE ~Found(db, user[n]) -> Raise(n)
         [] Found(db, user[n]) /\ GetAction(FirewallOf(db, SubnetOf(db, user[n])),
                            Packet(n).src, Packet(n).dst) = "ALLOW" ->
                Goto(n, "relay") /\ UNCHANGED job
         [] OTHER -> Loop(n)
    /\ OnlyMoves

\* client.socket.send in the sender's thread: it blocks while the receiver's
\* buffer is full, is lost when the receiver's client has gone, and raises
\* when its client has gone or its thread has closed the socket.
Relay(n) ==
    LET m == job[n].to IN
    /\ pc[n] = "relay" /\ pc[m] # "done" /\ ~gone[m]
    /\ unread[m] < Capacity
    /\ unread' = [unread EXCEPT ![m] = @ + 1]
    /\ got' = [got EXCEPT ![m] = @ \cup {user[n]}]
    /\ Loop(n)
    /\ UNCHANGED <<threadOthers, user, pending, address, asked, used, was,
                   raced>>

RelayLost(n) ==
    /\ pc[n] = "relay" /\ pc[job[n].to] # "done" /\ gone[job[n].to]
    /\ Loop(n)
    /\ OnlyMoves

RelayRaises(n) ==
    /\ pc[n] = "relay" /\ (pc[job[n].to] = "done" \/ gone[job[n].to])
    /\ Raise(n)
    /\ OnlyMoves

-----------------------------------------------------------------------------
(* recievePacket, and the first case of the loop that fits the packet.     *)

\* The thread's handler begins with packet p and looks at shared state next.
Begin(n, p, k, step) ==
    Continue(n, step, [NoJob EXCEPT !.packet = p, !.challenge = k])

\* handler_netconf.  An automatic request has no address: asking for it
\* raises.
Netconf(n, p) ==
    CASE p.conf = "MANUAL" -> Begin(n, p, 0, "scan")
      [] p.conf = "AUTO"   -> Raise(n)
      [] OTHER             -> Answer(n, "SERVER_ERROR")

\* handler_data, for the holder of the source address.
Data(n, p) ==
    IF p.src = address[n] THEN Begin(n, p, 0, "find")
                          ELSE Answer(n, "SERVER_ERROR")

\* Asking an attribute that was never set (user) raises, and so does a
\* payload that cannot be unpacked.
Dispatch(n, p, k) ==
    CASE p.kind = "MALFORMED"           -> Raise(n)
      [] p.kind = "CLIENT_AUTH"         -> Begin(n, p, k, "auth")
      [] p.kind = "CLIENT_AUTH_REQUEST" -> Begin(n, p, 0, "authreq")
      [] user[n] = NoLogin              -> Raise(n)
      [] p.kind = "CLIENT_NETCONF"      -> Netconf(n, p)
      [] p.kind = "CLIENT_DATA"         -> Data(n, p)
      [] OTHER                          -> Answer(n, "SERVER_ERROR")

\* An authentication with secure answers one of the challenges received.
Receive(n) ==
    /\ pc[n] = "recv" /\ sent[n] < Len(Requests[n])
    /\ sent' = [sent EXCEPT ![n] = @ + 1]
    /\ \E p \in Requests[n][sent[n] + 1], k \in 0..asked[n] :
        /\ (p.kind = "CLIENT_AUTH" /\ p.secure) <=> k > 0
        /\ Dispatch(n, p, k)
    /\ UNCHANGED <<db, running, main, changes, clientList, user, pending,
                   address, unread, gone, asked, history>>

-----------------------------------------------------------------------------
Step(n) ==
    \/ Receive(n) \/ ReceiveEnd(n) \/ Finish(n) \/ Reply(n) \/ ReplyRaises(n)
    \/ AuthUnknownUser(n) \/ AuthFound(n) \/ VerifyAuth(n) \/ VerifyDeleted(n)
    \/ AuthRequest(n) \/ AuthRequestUnknownUser(n)
    \/ Scan(n) \/ Rescan(n) \/ ReadNetworks(n)
    \/ Grant(n) \/ Refuse(n)
    \/ Find(n) \/ Firewall(n)
    \/ Relay(n) \/ RelayLost(n) \/ RelayRaises(n)

Client(n) == ReadReply(n) \/ Leave(n)

Main == (\E n \in Nodes : Accept(n)) \/ Start \/ Stop \/ Join \/ Joined

Next == Main \/ WebChange \/ \E n \in Nodes : Step(n) \/ Client(n)

Spec == Init /\ [][Next]_vars

\* The threads run, and the clients read what they are sent.
FairSpec == Spec /\ \A n \in Nodes : WF_vars(Step(n)) /\ WF_vars(ReadReply(n))

-----------------------------------------------------------------------------
(* Properties.                                                             *)

\* A challenge is good for one authentication: replaying the answer to it,
\* on the same connection, is refused whatever is asked in between.
ChallengeUsedOnce == \A n \in Nodes : IsInjective(used[n])

\* The check of an address and its assignment are apart.  Two clients that are
\* connected hold the same address only when a look-up was disturbed: another
\* thread took an address, ended or changed what the look-up refers to
\* between the check and the assignment.
DuplicateNeedsRace ==
    \A n, m \in Range(clientList) :
        n # m /\ address[n] = address[m] /\ address[n] # NoAddress
        => n \in raced \/ m \in raced

\* The subnets a login has been in.
SubnetsEver(login) ==
    (IF Found(InitialDb, login) THEN {SubnetOf(InitialDb, login)} ELSE {})
    \cup {change.subnet : change \in {c \in WebChanges :
                             c.kind = "sign up" /\ c.login = login}}

\* What a client receives was sent by a user of one of its own subnets,
\* whoever connects, re-authenticates or takes an address during the look-up.
RelayStaysInSubnet ==
    \A m \in Nodes : \A sender \in got[m] :
        \E login \in was[m] : SubnetsEver(login) \cap SubnetsEver(sender) # {}

\* Unless it was disturbed, the look-up of handler_data is exact: when it has
\* found nobody it has missed nobody, and a datagram about to be relayed goes to
\* a connected client that holds the destination, in the sender's subnet, by
\* the rules of that subnet as they are now.
Reachable(n, m) == address[m] = Packet(n).dst /\ SameSubnet(n, m)

UndisturbedLookupIsExact ==
    \A n \in Nodes :
        ~job[n].disturbed =>
          /\ pc[n] = "find" /\ AtEnd(n) /\ job[n].to = NoNode
             => ~\E m \in Range(clientList) : Reachable(n, m)
          /\ pc[n] = "relay"
             => /\ job[n].to \in Range(clientList) /\ Reachable(n, job[n].to)
                /\ GetAction(FirewallOf(db, SubnetOf(db, user[n])),
                             Packet(n).src, Packet(n).dst) = "ALLOW"

\* Unless it was disturbed, an address is given in a network that the client's
\* user can use, and to somebody who is authenticated.
AddressNeedsNetwork ==
    [][\A n \in Nodes :
          address'[n] # address[n] /\ ~job[n].disturbed
          => /\ Found(db, user[n])
             /\ \E i \in Visible(db, user[n]) :
                   db.networks[i].prefix = Packet(n).prefix]_vars

InHandler(n) == pc[n] \notin {"new", "listed", "recv", "end", "done"}

\* Every handler comes to its end, also when it is sending to a client that
\* is slow or has gone while others come, go and change the list.
HandlerEnds ==
    \A n \in Nodes : InHandler(n) ~> (pc[n] \in {"recv", "done"})
=============================================================================
