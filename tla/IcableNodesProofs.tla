-------------------------- MODULE IcableNodesProofs --------------------------
(***************************************************************************)
(* Theorems about IcableNodes, for every set of connections, logins and     *)
(* networks, any packets in any order, any interleaving of the threads and  *)
(* any changes of the database: the answer to a challenge is good once; and *)
(* what the look-ups in the shared list of clients guarantee.               *)
(***************************************************************************)
EXTENDS IcableNodes, SequenceTheorems, WellFoundedInduction, TLAPS

-----------------------------------------------------------------------------
(* The invariant of the challenges.                                        *)

\* The locals of a handler that works on an answer to one of k challenges.
JobOk(j, k) == DOMAIN j = DOMAIN NoJob /\ j.challenge \in 0..k

Typed ==
    /\ asked \in [Nodes -> Nat]
    /\ used \in [Nodes -> Seq(Nat)]
    /\ DOMAIN pending = Nodes
    /\ DOMAIN job = Nodes
    /\ \A n \in Nodes : JobOk(job[n], asked[n])

\* What was used was asked before, and what is pending was not used.
Fresh(n) ==
    /\ \A i \in DOMAIN used[n] : used[n][i] <= asked[n]
    /\ pending[n] # NoLogin =>
          \A i \in DOMAIN used[n] : used[n][i] # pending[n].challenge

Once(n) == IsInjective(used[n])

Inv == Typed /\ \A n \in Nodes : Fresh(n) /\ Once(n)

LEMMA NoJobOk == \A k \in Nat : JobOk(NoJob, k)
BY DEF JobOk, NoJob

\* A thread's locals change.
LEMMA ContinueOk ==
    ASSUME Typed, NEW n \in Nodes, NEW j, JobOk(j, asked[n]),
           job' = [job EXCEPT ![n] = j]
    PROVE  DOMAIN job' = Nodes /\ \A m \in Nodes : JobOk(job'[m], asked[m])
BY DEF Typed

\* ... and the look-ups of the others are disturbed.
LEMMA DisturbOk ==
    ASSUME Typed, NEW n, NEW j, n \in Nodes => JobOk(j, asked[n]),
           DisturbOthers(n, j)
    PROVE  DOMAIN job' = Nodes /\ \A m \in Nodes : JobOk(job'[m], asked[m])
<1>1. \A m \in Nodes : JobOk([job[m] EXCEPT !.disturbed = TRUE], asked[m])
  BY DEF Typed, JobOk, NoJob
<1>2. DOMAIN job' = Nodes
  BY DEF DisturbOthers
<1>3. ASSUME NEW m \in Nodes PROVE JobOk(job'[m], asked[m])
  <2>1. CASE m = n
    BY <2>1 DEF DisturbOthers
  <2>2. CASE m # n /\ m \in LookingUp
    BY <2>2, <1>1 DEF DisturbOthers
  <2>3. CASE m # n /\ m \notin LookingUp
    BY <2>3 DEF DisturbOthers, Typed
  <2> QED
    BY <2>1, <2>2, <2>3
<1> QED
  BY <1>2, <1>3

\* A step that neither asks, forgets nor accepts a challenge.
LEMMA QuietStep ==
    ASSUME Inv, UNCHANGED <<asked, used, pending>>,
           DOMAIN job' = Nodes, \A m \in Nodes : JobOk(job'[m], asked[m])
    PROVE  Inv'
<1>1. Typed'
  BY DEF Inv, Typed
<1>2. \A n \in Nodes : Fresh(n)' /\ Once(n)'
  BY DEF Inv, Fresh, Once
<1> QED
  BY <1>1, <1>2 DEF Inv

\* A step that forgets the challenge that was pending.
LEMMA ForgetStep ==
    ASSUME Inv, UNCHANGED <<asked, used>>, NEW n \in Nodes,
           pending' = [pending EXCEPT ![n] = NoLogin],
           DOMAIN job' = Nodes, \A m \in Nodes : JobOk(job'[m], asked[m])
    PROVE  Inv'
<1>1. Typed'
  BY DEF Inv, Typed
<1>2. \A m \in Nodes : pending'[m] = NoLogin \/ pending'[m] = pending[m]
  BY DEF Inv, Typed
<1>3. \A m \in Nodes : Fresh(m)' /\ Once(m)'
  BY <1>2 DEF Inv, Fresh, Once
<1> QED
  BY <1>1, <1>3 DEF Inv

LEMMA InitInv == Init => Inv
<1> SUFFICES ASSUME Init PROVE Inv
  OBVIOUS
<1>1. Typed
  BY NoJobOk DEF Init, Typed
<1>2. \A n \in Nodes : used[n] = << >> /\ pending[n] = NoLogin
  BY DEF Init
<1>3. \A n \in Nodes : Fresh(n) /\ Once(n)
  BY <1>2 DEF Fresh, Once, IsInjective
<1> QED
  BY <1>1, <1>3 DEF Inv

LEMMA MainKeeps ==
    ASSUME NodesAssumption, Inv, Main \/ WebChange \/ \E n \in Nodes : Client(n)
    PROVE  Inv'
<1>1. CASE Main \/ \E n \in Nodes : Client(n)
  <2>1. UNCHANGED <<asked, used, pending, job>>
    BY <1>1 DEF Main, Client, Accept, Start, Stop, Join, Joined, ReadReply,
                Leave, mainOthers, threadVars, socketVars, history
  <2> QED
    BY <2>1, QuietStep DEF Inv, Typed
<1>2. CASE WebChange
  <2>1. /\ UNCHANGED <<asked, used, pending>>
        /\ DisturbOthers(NoNode, NoJob)
    BY <1>2 DEF WebChange, socketVars, history
  <2>2. DOMAIN job' = Nodes /\ \A m \in Nodes : JobOk(job'[m], asked[m])
    BY <2>1, DisturbOk DEF Inv, NodesAssumption
  <2> QED
    BY <2>1, <2>2, QuietStep
<1> QED
  BY <1>1, <1>2

-----------------------------------------------------------------------------
(* The steps of a thread that only move it.                                *)

MovesJob(n) ==
    \/ UNCHANGED job
    \/ \E j : JobOk(j, asked[n]) /\ job' = [job EXCEPT ![n] = j]

LEMMA MovesKeeps ==
    ASSUME Inv, NEW n \in Nodes, MovesJob(n), UNCHANGED <<asked, used, pending>>
    PROVE  Inv'
<1>1. CASE UNCHANGED job
  BY <1>1, QuietStep DEF Inv, Typed
<1>2. CASE \E j : JobOk(j, asked[n]) /\ job' = [job EXCEPT ![n] = j]
  BY <1>2, ContinueOk, QuietStep DEF Inv
<1> QED
  BY <1>1, <1>2 DEF MovesJob

LEMMA ResetMoves ==
    ASSUME Typed, NEW n \in Nodes, Raise(n) \/ Loop(n)
    PROVE  MovesJob(n)
<1>1. job' = [job EXCEPT ![n] = NoJob]
  BY DEF Raise, Loop, Continue
<1>2. JobOk(NoJob, asked[n])
  BY NoJobOk DEF Typed
<1> QED
  BY <1>1, <1>2 DEF MovesJob

LEMMA AnswerMoves ==
    ASSUME Typed, NEW n \in Nodes, NEW r, Answer(n, r)
    PROVE  MovesJob(n)
<1>1. job' = [job EXCEPT ![n] = [NoJob EXCEPT !.reply = r]]
  BY DEF Answer, Continue
<1>2. JobOk([NoJob EXCEPT !.reply = r], asked[n])
  BY DEF Typed, JobOk, NoJob
<1> QED
  BY <1>1, <1>2 DEF MovesJob

LEMMA ContinueMoves ==
    ASSUME Typed, NEW n \in Nodes, NEW step, NEW j,
           JobOk(j, asked[n]), Continue(n, step, j)
    PROVE  MovesJob(n)
BY DEF Continue, MovesJob

\* Locals of which only these fields are new.
LEMMA FieldsOk ==
    ASSUME Typed, NEW n \in Nodes, NEW x, NEW y
    PROVE  /\ JobOk([job[n] EXCEPT !.i = x], asked[n])
           /\ JobOk([job[n] EXCEPT !.ids = x], asked[n])
           /\ JobOk([job[n] EXCEPT !.i = x, !.to = y], asked[n])
BY DEF Typed, JobOk, NoJob

LEMMA NextElementMoves ==
    ASSUME Typed, NEW n \in Nodes, NextElement(n)
    PROVE  MovesJob(n)
BY FieldsOk, ContinueMoves DEF NextElement

LEMMA EndKeeps ==
    ASSUME Inv, NEW n \in Nodes,
           \/ ReceiveEnd(n) \/ ReplyRaises(n) \/ AuthFound(n)
           \/ AuthRequestUnknownUser(n) \/ RelayLost(n) \/ RelayRaises(n)
    PROVE  Inv'
<1>1. UNCHANGED <<asked, used, pending>>
  BY DEF ReceiveEnd, ReplyRaises, AuthFound, AuthRequestUnknownUser, RelayLost,
         RelayRaises, OnlyMoves, history
<1>2. Raise(n) \/ Loop(n) \/ UNCHANGED job
  BY DEF ReceiveEnd, ReplyRaises, AuthFound, AuthRequestUnknownUser, RelayLost,
         RelayRaises
<1>3. MovesJob(n)
  BY <1>2, ResetMoves DEF Inv, MovesJob
<1> QED
  BY <1>1, <1>3, MovesKeeps

LEMMA FinishKeeps ==
    ASSUME Inv, NEW n \in Nodes, Finish(n)
    PROVE  Inv'
<1>1. UNCHANGED <<asked, used, pending>> /\ DisturbOthers(n, NoJob)
  BY DEF Finish, socketVars, history
<1>2. JobOk(NoJob, asked[n])
  BY NoJobOk DEF Inv, Typed
<1> QED
  BY <1>1, <1>2, DisturbOk, QuietStep DEF Inv

LEMMA LookupKeeps ==
    ASSUME Inv, NEW n \in Nodes, Scan(n) \/ Rescan(n) \/ ReadNetworks(n)
    PROVE  Inv'
<1>1. UNCHANGED <<asked, used, pending>>
  BY DEF Scan, Rescan, ReadNetworks, OnlyMoves, history
<1>2. CASE Scan(n)
  <2>1. \/ UNCHANGED job
        \/ Continue(n, "rescan", [job[n] EXCEPT !.i = 1])
        \/ NextElement(n)
    BY <1>2 DEF Scan
  <2> QED
    BY <1>1, <2>1, FieldsOk, ContinueMoves, NextElementMoves, MovesKeeps
       DEF Inv, MovesJob
<1>3. CASE Rescan(n)
  <2>1. Loop(n) \/ Answer(n, "SERVER_ERROR") \/ NextElement(n)
    BY <1>3 DEF Rescan
  <2> QED
    BY <1>1, <2>1, ResetMoves, AnswerMoves, NextElementMoves, MovesKeeps DEF Inv
<1>4. CASE ReadNetworks(n)
  <2>1. \/ Continue(n, "check", [job[n] EXCEPT !.ids = Visible(db, user[n])])
        \/ Raise(n)
    BY <1>4 DEF ReadNetworks
  <2> QED
    BY <1>1, <2>1, FieldsOk, ContinueMoves, ResetMoves, MovesKeeps DEF Inv
<1> QED
  BY <1>2, <1>3, <1>4

LEMMA GrantKeeps ==
    ASSUME Inv, NEW n \in Nodes, Grant(n)
    PROVE  Inv'
<1>1. /\ UNCHANGED <<asked, used, pending>>
      /\ DisturbOthers(n, [NoJob EXCEPT !.reply = "SERVER_NETCONF"])
  BY DEF Grant
<1>2. JobOk([NoJob EXCEPT !.reply = "SERVER_NETCONF"], asked[n])
  BY DEF Inv, Typed, JobOk, NoJob
<1> QED
  BY <1>1, <1>2, DisturbOk, QuietStep DEF Inv

LEMMA SearchKeeps ==
    ASSUME Inv, NEW n \in Nodes,
           Refuse(n) \/ Find(n) \/ Firewall(n) \/ Relay(n)
    PROVE  Inv'
<1>1. UNCHANGED <<asked, used, pending>>
  BY DEF Refuse, Find, Firewall, Relay, OnlyMoves, history
<1>2. CASE Refuse(n) \/ Firewall(n) \/ Relay(n)
  <2>1. Raise(n) \/ Loop(n) \/ Answer(n, "SERVER_ERROR") \/ UNCHANGED job
    BY <1>2 DEF Refuse, Firewall, Relay
  <2> QED
    BY <1>1, <2>1, ResetMoves, AnswerMoves, MovesKeeps DEF Inv, MovesJob
<1>3. CASE Find(n)
  <2>1. \/ Raise(n) \/ Loop(n) \/ NextElement(n) \/ UNCHANGED job
        \/ \E i, to : Continue(n, "find", [job[n] EXCEPT !.i = i, !.to = to])
    BY <1>3 DEF Find
  <2> QED
    BY <1>1, <2>1, FieldsOk, ContinueMoves, ResetMoves, NextElementMoves,
       MovesKeeps DEF Inv, MovesJob
<1> QED
  BY <1>2, <1>3

-----------------------------------------------------------------------------
(* The steps that ask, forget or accept a challenge.                       *)

\* The answer with a challenge is under way: from now on it has been asked.
LEMMA ReplyKeeps ==
    ASSUME Inv, NEW n \in Nodes, Reply(n)
    PROVE  Inv'
<1>1. /\ UNCHANGED <<used, pending>>
      /\ asked' \in [Nodes -> Nat]
      /\ \A m \in Nodes : asked[m] <= asked'[m]
  BY DEF Reply, history, threadOthers, Inv, Typed
<1>2. JobOk(NoJob, asked[n])
  BY NoJobOk DEF Inv, Typed
<1>3. job' = [job EXCEPT ![n] = NoJob] \/ DisturbOthers(n, NoJob)
  BY DEF Reply, Loop, Continue
<1>4. DOMAIN job' = Nodes /\ \A m \in Nodes : JobOk(job'[m], asked[m])
  BY <1>2, <1>3, ContinueOk, DisturbOk DEF Inv
<1>5. \A m \in Nodes : JobOk(job'[m], asked'[m])
  BY <1>1, <1>4 DEF JobOk, Inv, Typed
<1>6. Typed'
  BY <1>1, <1>4, <1>5 DEF Inv, Typed
<1>7. \A m \in Nodes : Fresh(m)' /\ Once(m)'
  BY <1>1 DEF Inv, Typed, Fresh, Once
<1> QED
  BY <1>6, <1>7 DEF Inv

LEMMA AuthRefusedKeeps ==
    ASSUME Inv, NEW n \in Nodes, AuthUnknownUser(n) \/ VerifyDeleted(n)
    PROVE  Inv'
<1>1. UNCHANGED <<asked, used>>
  <2>1. UNCHANGED <<authOthers, history>>
    BY DEF AuthUnknownUser, VerifyDeleted
  <2> QED
    BY <2>1 DEF authOthers, history
<1>2. Answer(n, "SERVER_AUTH") \/ Raise(n)
  BY DEF AuthUnknownUser, VerifyDeleted
<1>3. MovesJob(n)
  BY <1>2, AnswerMoves, ResetMoves DEF Inv
<1>4. DOMAIN job' = Nodes /\ \A m \in Nodes : JobOk(job'[m], asked[m])
  BY <1>3, ContinueOk DEF MovesJob, Inv, Typed
<1>5. CASE UNCHANGED pending
  BY <1>1, <1>4, <1>5, QuietStep
<1>6. CASE pending' = [pending EXCEPT ![n] = NoLogin]
  BY <1>1, <1>4, <1>6, ForgetStep
<1> QED
  BY <1>5, <1>6 DEF AuthUnknownUser, VerifyDeleted, ForgetPending

\* A new challenge differs from every one that was asked before.
LEMMA AuthRequestKeeps ==
    ASSUME Inv, NEW n \in Nodes, AuthRequest(n)
    PROVE  Inv'
<1> DEFINE p == [login |-> Packet(n).login, challenge |-> asked[n] + 1]
<1>1. UNCHANGED <<asked, used>> /\ pending' = [pending EXCEPT ![n] = p]
  BY DEF AuthRequest, authOthers, threadOthers, history
<1>2. p.challenge = asked[n] + 1
  OBVIOUS
<1>3. MovesJob(n)
  BY AnswerMoves DEF AuthRequest, Inv
<1>4. DOMAIN job' = Nodes /\ \A m \in Nodes : JobOk(job'[m], asked[m])
  BY <1>3, ContinueOk DEF MovesJob, Inv, Typed
<1> HIDE DEF p
<1>5. Typed'
  BY <1>1, <1>4 DEF Inv, Typed
<1>6. \A i \in DOMAIN used[n] : used[n][i] # p.challenge
  BY <1>2 DEF Inv, Typed, Fresh
<1>7. \A m \in Nodes : Fresh(m)' /\ Once(m)'
  BY <1>1, <1>6 DEF Inv, Typed, Fresh, Once
<1> QED
  BY <1>5, <1>7 DEF Inv

\* An accepted answer is to the challenge that was pending, which is forgotten.
LEMMA VerifyAuthKeeps ==
    ASSUME Inv, NEW n \in Nodes, VerifyAuth(n)
    PROVE  Inv'
<1>1. UNCHANGED asked /\ pending' = [pending EXCEPT ![n] = NoLogin]
  BY DEF VerifyAuth, ForgetPending, authOthers, threadOthers
<1>2. PICK j : /\ JobOk(j, asked[n])
               /\ job' = [job EXCEPT ![n] = j]
  <2>1. \A r, l : JobOk([NoJob EXCEPT !.reply = r, !.login = l], asked[n])
    BY DEF Inv, Typed, JobOk, NoJob
  <2> QED
    BY <2>1 DEF VerifyAuth, Continue
<1>3. DOMAIN job' = Nodes /\ \A m \in Nodes : JobOk(job'[m], asked[m])
  BY <1>2, ContinueOk DEF Inv
<1>4. CASE used' = used
  BY <1>1, <1>3, <1>4, ForgetStep
<1> DEFINE c == job[n].challenge
<1>5. CASE /\ used' = [used EXCEPT ![n] = Append(@, c)]
           /\ pending[n] # NoLogin /\ pending[n].challenge = c
  <2>1. c \in Nat /\ c <= asked[n] /\ \A i \in DOMAIN used[n] : used[n][i] # c
    BY <1>5 DEF Inv, Typed, JobOk, Fresh
  <2> HIDE DEF c
  <2>2. /\ used' \in [Nodes -> Seq(Nat)]
        /\ used'[n] = Append(used[n], c)
        /\ \A m \in Nodes \ {n} : used'[m] = used[m]
    BY <1>5, <2>1 DEF Inv, Typed
  <2>3. Typed'
    BY <1>1, <1>3, <2>2 DEF Inv, Typed
  <2>4. ASSUME NEW m \in Nodes \ {n} PROVE Fresh(m)' /\ Once(m)'
    BY <1>1, <2>2 DEF Inv, Typed, Fresh, Once
  <2>5. /\ used[n] \in Seq(Nat) /\ DOMAIN used'[n] = 1..(Len(used[n]) + 1)
        /\ \A i \in 1..Len(used[n]) : used'[n][i] = used[n][i]
        /\ used'[n][Len(used[n]) + 1] = c
    BY <2>1, <2>2 DEF Inv, Typed
  <2>6. Fresh(n)'
    BY <1>1, <2>1, <2>5 DEF Inv, Typed, Fresh
  <2>7. Once(n)'
    <3>1. DOMAIN used[n] = 1..Len(used[n]) /\ Len(used[n]) \in Nat
      BY <2>5
    <3>2. \A a, b \in 1..Len(used[n]) : used[n][a] = used[n][b] => a = b
      BY <3>1 DEF Inv, Once, IsInjective
    <3>3. \A a \in 1..Len(used[n]) : used'[n][a] # c
      BY <2>1, <2>5, <3>1
    <3> DEFINE k == Len(used[n])
               u == used'[n]
    <3>4. ASSUME NEW a \in 1..(k + 1), NEW b \in 1..(k + 1), u[a] = u[b]
          PROVE  a = b
      <4>1. /\ k \in Nat /\ u[k + 1] = c
            /\ \A i \in 1..k : u[i] = used[n][i] /\ u[i] # c
        BY <2>5, <3>1, <3>3
      <4>2. \A i, l \in 1..k : used[n][i] = used[n][l] => i = l
        BY <3>2
      <4> HIDE DEF k, u
      <4>3. a = k + 1 \/ a \in 1..k
        BY <4>1
      <4>4. b = k + 1 \/ b \in 1..k
        BY <4>1
      <4> QED
        BY <3>4, <4>1, <4>2, <4>3, <4>4
    <3> QED
      BY <2>5, <3>4 DEF Once, IsInjective
  <2> QED
    BY <2>3, <2>4, <2>6, <2>7 DEF Inv
<1> QED
  BY <1>4, <1>5 DEF VerifyAuth, Accepted

LEMMA ReceiveKeeps ==
    ASSUME Inv, NEW n \in Nodes, Receive(n)
    PROVE  Inv'
<1>1. UNCHANGED <<asked, used, pending>>
  BY DEF Receive, history
<1>2. PICK p, k : k \in 0..asked[n] /\ Dispatch(n, p, k)
  BY DEF Receive
<1>3. 0 \in 0..asked[n]
  BY DEF Inv, Typed
<1>4. ASSUME NEW c \in 0..asked[n], NEW step, Begin(n, p, c, step)
      PROVE  MovesJob(n)
  <2>1. JobOk([NoJob EXCEPT !.packet = p, !.challenge = c], asked[n])
    BY DEF JobOk, NoJob
  <2> QED
    BY <1>4, <2>1, ContinueMoves DEF Begin, Inv
<1>5. \/ Raise(n) \/ Answer(n, "SERVER_ERROR")
      \/ Begin(n, p, k, "auth") \/ Begin(n, p, 0, "authreq")
      \/ Begin(n, p, 0, "scan") \/ Begin(n, p, 0, "find")
  BY <1>2 DEF Dispatch, Netconf, Data
<1>6. MovesJob(n)
  BY <1>2, <1>3, <1>4, <1>5, ResetMoves, AnswerMoves DEF Inv
<1> QED
  BY <1>1, <1>6, MovesKeeps

LEMMA StepInv == ASSUME NodesAssumption, Inv, [Next]_vars PROVE Inv'
<1>1. CASE Main \/ WebChange \/ \E n \in Nodes : Client(n)
  BY <1>1, MainKeeps
<1>2. CASE \E n \in Nodes : Step(n)
  BY <1>2, ReceiveKeeps, EndKeeps, FinishKeeps, ReplyKeeps, AuthRefusedKeeps,
     VerifyAuthKeeps, AuthRequestKeeps, LookupKeeps, GrantKeeps, SearchKeeps
     DEF Step
<1>3. CASE UNCHANGED vars
  BY <1>3, QuietStep DEF vars, threadVars, socketVars, history, Inv, Typed
<1> QED
  BY <1>1, <1>2, <1>3 DEF Next

-----------------------------------------------------------------------------
\* However often a client asks for challenges, authenticates, fails and sends
\* an answer again, in any order, no answer is accepted twice.
THEOREM ChallengesAreSingleUse == Spec => []ChallengeUsedOnce
<1>1. Init => Inv
  BY InitInv
<1>2. Inv /\ [Next]_vars => Inv'
  BY NodesAssumption, StepInv
<1>3. Inv => ChallengeUsedOnce
  BY DEF Inv, Once, ChallengeUsedOnce
<1> QED
  BY <1>1, <1>2, <1>3, PTL DEF Spec

-----------------------------------------------------------------------------
(* The invariant of the look-ups in clientList.                            *)

\* m was authenticated as a user of a subnet of the sender.
Known(m, sender) ==
    /\ m \in Nodes
    /\ \E login \in was[m] : SubnetsEver(login) \cap SubnetsEver(sender) # {}

Meets(n, m, dst) == address[m] = dst /\ SameSubnet(n, m)

\* What a thread with the locals j knows at a step of an undisturbed look-up:
\* the elements before the index were looked at, and are as they were.
Exact(n, step, j) ==
    /\ step \in {"scan", "find"} => j.i <= Len(clientList) + 1
    /\ step = "scan" =>
          \A k \in 1..(j.i - 1) : address[clientList[k]] # j.packet.addr
    /\ step \in {"nets", "check"} =>
          \A m \in Range(clientList) :
              address[m] # j.packet.addr \/ address[m] = NoAddress
    /\ step = "check" => Found(db, user[n]) /\ j.ids = Visible(db, user[n])
    /\ step = "find" /\ j.to = NoNode =>
          \A k \in 1..(j.i - 1) : ~Meets(n, clientList[k], j.packet.dst)
    /\ step \in {"find", "firewall", "relay"} /\ j.to # NoNode =>
          j.to \in Range(clientList) /\ Meets(n, j.to, j.packet.dst)
    /\ step = "relay" =>
          GetAction(FirewallOf(db, SubnetOf(db, user[n])),
                    j.packet.src, j.packet.dst) = "ALLOW"

\* ... and what it knows when it was disturbed, too.
Look(n, step, j) ==
    /\ step \in {"find", "firewall", "relay"} /\ j.to # NoNode =>
          Known(j.to, user[n])
    /\ step \in {"firewall", "relay"} => j.to # NoNode
    /\ ~j.disturbed => Exact(n, step, j)

LookOk(n) == Look(n, pc[n], job[n])

\* The users there are, and the subnets they have.
DbOk ==
    /\ DOMAIN db = DOMAIN EmptyDb
    /\ DOMAIN db.users \subseteq Logins
    /\ \A login \in DOMAIN db.users : SubnetOf(db, login) \in SubnetsEver(login)
    /\ changes \subseteq WebChanges

\* The thread that the main thread starts, or returns to start, has not begun.
Starting == \/ main.at = "start"
            \/ main.at \in {"join", "wait"} /\ main.from = "start"

MainOk ==
    /\ DOMAIN main = {"at", "node", "i", "target", "from"}
    /\ Starting => main.node \in Nodes /\ pc[main.node] = "listed"

TypedJob(j) == DOMAIN j = DOMAIN NoJob /\ j.i \in Nat \ {0}

LocalsTyped ==
    /\ DOMAIN pc = Nodes /\ DOMAIN job = Nodes
    /\ DOMAIN user = Nodes /\ DOMAIN address = Nodes
    /\ DOMAIN got = Nodes /\ DOMAIN was = Nodes
    /\ \A n \in Nodes : TypedJob(job[n])
    /\ clientList \in Seq(Nodes)

\* A thread that has not begun has no address; a user was authenticated.
NodeOk(n) ==
    /\ pc[n] \in {"new", "listed"} => address[n] = NoAddress
    /\ user[n] # NoLogin => user[n] \in was[n]

LookInv ==
    /\ LocalsTyped /\ DbOk /\ MainOk
    /\ \A n \in Nodes : NodeOk(n) /\ LookOk(n)
    /\ RelayStaysInSubnet
    /\ DuplicateNeedsRace

LEMMA Nobody == NoNode \notin Nodes /\ NoLogin \notin Logins
BY NodesAssumption DEF NodesAssumption

LEMMA NoJobTyped == TypedJob(NoJob)
BY DEF NoJob, TypedJob

LEMMA NothingYet == << >> \in Seq(Nodes) /\ Range(<< >>) = {}
BY DEF Range

LEMMA LookInit == ASSUME NodesAssumption, Init PROVE LookInv
<1>1. LocalsTyped
  <2>1. \A n \in Nodes : job[n] = NoJob
    BY DEF Init
  <2>2. clientList \in Seq(Nodes)
    BY NothingYet DEF Init
  <2> QED
    BY NoJobTyped, <2>1, <2>2 DEF Init, LocalsTyped
<1>2. DbOk
  BY DEF Init, DbOk, NodesAssumption, SubnetsEver, Found
<1>3. MainOk
  BY DEF Init, MainOk, Starting
<1>4. \A n \in Nodes : NodeOk(n) /\ LookOk(n)
  BY DEF Init, NodeOk, LookOk, Look, Exact
<1>5. RelayStaysInSubnet
  BY DEF Init, RelayStaysInSubnet
<1>6. DuplicateNeedsRace
  <2>1. Range(clientList) = {}
    BY NothingYet DEF Init
  <2> QED
    BY <2>1 DEF DuplicateNeedsRace
<1> QED
  BY <1>1, <1>2, <1>3, <1>4, <1>5, <1>6 DEF LookInv

-----------------------------------------------------------------------------
(* The steps that change nothing the look-ups of others depend on.         *)

\* At these steps a thread looks nothing up.
LEMMA IdleLook ==
    ASSUME NEW n, NEW j, NEW step,
           step \notin {"scan", "nets", "check", "find", "firewall", "relay"}
    PROVE  Look(n, step, j)
BY DEF Look, Exact

\* What a thread knows depends on these only.
LEMMA LookSame ==
    ASSUME NEW n, NEW j, NEW step, Look(n, step, j),
           UNCHANGED <<db, clientList, user, address, was>>
    PROVE  Look(n, step, j)'
BY DEF Look, Exact, Known, Meets, SameSubnet

\* Thread n goes on to step s with the locals j.
Goes(n, s, j) ==
    /\ pc' = [pc EXCEPT ![n] = s]
    /\ DOMAIN job' = Nodes /\ job'[n] = j
    /\ \A m \in Nodes \ {n} : job'[m] = job[m]

LEMMA Gone ==
    ASSUME LookInv, NEW n \in Nodes, NEW s, NEW j
    PROVE  /\ Continue(n, s, j) => Goes(n, s, j)
           /\ Goto(n, s) /\ UNCHANGED job
              => Goes(n, s, job[n]) /\ TypedJob(job[n])
BY DEF LookInv, LocalsTyped, Continue, Goto, Goes

LEMMA OwnStep ==
    ASSUME LookInv, NEW n \in Nodes, NEW s, NEW j,
           UNCHANGED <<db, changes, main, clientList, user, address, was, raced>>,
           DOMAIN got' = Nodes, RelayStaysInSubnet',
           Goes(n, s, j), TypedJob(j), Look(n, s, j),
           s \notin {"new", "listed"}, pc[n] # "listed"
    PROVE  LookInv'
<1> USE DEF Goes
<1>1. LocalsTyped'
  BY DEF LookInv, LocalsTyped, TypedJob
<1>2. DbOk' /\ DuplicateNeedsRace'
  BY DEF LookInv, DbOk, DuplicateNeedsRace
<1>3. MainOk'
  BY DEF LookInv, LocalsTyped, MainOk, Starting
<1>4. ASSUME NEW m \in Nodes PROVE NodeOk(m)' /\ LookOk(m)'
  <2> PICK q, l : q = pc[m] /\ l = job[m]
    OBVIOUS
  <2>1. Look(n, s, j)' /\ Look(m, q, l)'
    <3>1. Look(m, q, l)
      BY DEF LookInv, LookOk
    <3> QED
      BY <3>1, LookSame
  <2>2. CASE m = n
    <3>1. pc'[n] = s /\ job'[n] = j
      BY DEF LookInv, LocalsTyped
    <3>2. LookOk(n)'
      BY <2>1, <3>1 DEF LookOk
    <3> QED
      BY <2>2, <3>1, <3>2 DEF LookInv, NodeOk
  <2>3. CASE m # n
    <3>1. pc'[m] = pc[m] /\ job'[m] = job[m]
      BY <2>3 DEF LookInv, LocalsTyped
    <3>2. LookOk(m)'
      BY <2>1, <3>1 DEF LookOk
    <3> QED
      BY <3>1, <3>2 DEF LookInv, NodeOk
  <2> QED
    BY <2>2, <2>3
<1> QED
  BY <1>1, <1>2, <1>3, <1>4 DEF LookInv

\* The steps at which a thread looks nothing up, and is not about to begin.
IdleSteps == {"recv", "end", "reply", "auth", "authreq", "verify", "rescan"}

Idles(n) == \E s \in IdleSteps : \E j : TypedJob(j) /\ Goes(n, s, j)

LEMMA IdleStep ==
    ASSUME LookInv, NEW n \in Nodes, Idles(n), pc[n] # "listed",
           UNCHANGED <<db, changes, main, clientList, user, address, was, raced>>,
           DOMAIN got' = Nodes, RelayStaysInSubnet'
    PROVE  LookInv'
<1>1. PICK s \in IdleSteps : \E j : TypedJob(j) /\ Goes(n, s, j)
  BY DEF Idles
<1> PICK j : TypedJob(j) /\ Goes(n, s, j)
  BY <1>1
<1>2. Look(n, s, j)
  BY IdleLook DEF IdleSteps
<1>3. s \notin {"new", "listed"}
  BY DEF IdleSteps
<1> QED
  BY <1>1, <1>2, <1>3, OwnStep

LEMMA SameGot ==
    ASSUME LookInv, UNCHANGED <<got, was>>
    PROVE  DOMAIN got' = Nodes /\ RelayStaysInSubnet'
BY DEF LookInv, LocalsTyped, RelayStaysInSubnet

LEMMA ResetIdles ==
    ASSUME LookInv, NEW n \in Nodes, Raise(n) \/ Loop(n) \/ \E r : Answer(n, r)
    PROVE  Idles(n)
<1>1. \A r : TypedJob([NoJob EXCEPT !.reply = r])
  BY DEF NoJob, TypedJob
<1> QED
  BY <1>1, NoJobTyped, Gone DEF Raise, Loop, Answer, Idles, IdleSteps, NextLoop

LEMMA EndLooks ==
    ASSUME LookInv, NEW n \in Nodes,
           \/ ReceiveEnd(n) \/ ReplyRaises(n) \/ AuthFound(n)
           \/ AuthRequestUnknownUser(n) \/ Refuse(n) \/ RelayLost(n)
           \/ RelayRaises(n)
    PROVE  LookInv'
<1>1. OnlyMoves /\ pc[n] # "listed"
  BY DEF ReceiveEnd, ReplyRaises, AuthFound, AuthRequestUnknownUser, Refuse,
         RelayLost, RelayRaises
<1>2. Idles(n)
  <2>1. CASE AuthFound(n)
    BY <2>1, Gone DEF AuthFound, Idles, IdleSteps
  <2>2. CASE ~AuthFound(n)
    <3>1. Raise(n) \/ Loop(n) \/ Answer(n, "SERVER_ERROR")
      BY <2>2 DEF ReceiveEnd, ReplyRaises, AuthRequestUnknownUser, Refuse,
                  RelayLost, RelayRaises
    <3> QED
      BY <3>1, ResetIdles
  <2> QED
    BY <2>1, <2>2
<1> QED
  BY <1>1, <1>2, IdleStep, SameGot DEF OnlyMoves, threadOthers, history

LEMMA AuthLooks ==
    ASSUME LookInv, NEW n \in Nodes,
           \/ AuthUnknownUser(n) \/ VerifyAuth(n) \/ VerifyDeleted(n)
           \/ AuthRequest(n)
    PROVE  LookInv'
<1>1. /\ UNCHANGED <<authOthers, got, was, raced>> /\ pc[n] # "listed"
  BY DEF AuthUnknownUser, VerifyAuth, VerifyDeleted, AuthRequest, history
<1>2. Idles(n)
  <2>1. CASE VerifyAuth(n)
    <3>1. \A r, l : TypedJob([NoJob EXCEPT !.reply = r, !.login = l])
      BY DEF NoJob, TypedJob
    <3> QED
      BY <2>1, <3>1, Gone DEF VerifyAuth, Idles, IdleSteps
  <2>2. CASE ~VerifyAuth(n)
    <3>1. Raise(n) \/ Answer(n, "SERVER_AUTH") \/ Answer(n, "SERVER_AUTH_REQUEST")
      BY <2>2 DEF AuthUnknownUser, VerifyDeleted, AuthRequest
    <3> QED
      BY <3>1, ResetIdles
  <2> QED
    BY <2>1, <2>2
<1> QED
  BY <1>1, <1>2, IdleStep, SameGot DEF authOthers, threadOthers

LEMMA IndexFields ==
    ASSUME NEW j, TypedJob(j)
    PROVE  LET l == [j EXCEPT !.i = @ + 1]
           IN  /\ TypedJob(l) /\ l.i = j.i + 1
               /\ l.packet = j.packet /\ l.to = j.to /\ l.ids = j.ids
               /\ l.disturbed = j.disturbed
BY DEF TypedJob, NoJob

LEMMA InRange ==
    ASSUME LookInv
    PROVE  /\ Len(clientList) \in Nat
           /\ \A m \in Range(clientList) :
                 \E k \in 1..Len(clientList) : m = clientList[k]
           /\ \A k \in 1..Len(clientList) :
                 clientList[k] \in Nodes /\ clientList[k] \in Range(clientList)
BY DEF LookInv, LocalsTyped, Range

LEMMA ScanLooks ==
    ASSUME LookInv, NEW n \in Nodes, Scan(n)
    PROVE  LookInv'
<1>1. OnlyMoves /\ pc[n] = "scan" /\ TypedJob(job[n])
  BY DEF Scan, LookInv, LocalsTyped
<1>2. /\ UNCHANGED <<db, changes, main, clientList, user, address, was, raced>>
      /\ DOMAIN got' = Nodes /\ RelayStaysInSubnet'
  BY <1>1, SameGot DEF OnlyMoves, threadOthers, history
<1>3. Look(n, "scan", job[n])
  BY <1>1 DEF LookInv, LookOk
<1>4. job[n].i \in Nat \ {0}
  BY <1>1 DEF TypedJob
<1>5. CASE AtEnd(n)
  <2>1. Goes(n, "nets", job[n])
    BY <1>1, <1>5, Gone DEF Scan
  <2>2. Look(n, "nets", job[n])
    <3>1. ~job[n].disturbed =>
             \A m \in Range(clientList) : address[m] # Packet(n).addr
      BY <1>3, <1>4, <1>5, InRange DEF Look, Exact, AtEnd, Packet
    <3> QED
      BY <3>1 DEF Look, Exact, Packet
  <2> QED
    BY <1>1, <1>2, <2>1, <2>2, OwnStep
<1>6. CASE ~AtEnd(n) /\ address[Element(n)] = Packet(n).addr
  <2>1. Continue(n, "rescan", [job[n] EXCEPT !.i = 1])
    BY <1>6 DEF Scan
  <2>2. TypedJob([job[n] EXCEPT !.i = 1])
    BY <1>1 DEF TypedJob, NoJob
  <2>3. Idles(n)
    BY <2>1, <2>2, Gone DEF Idles, IdleSteps
  <2> QED
    BY <1>1, <1>2, <2>3, IdleStep
<1>7. CASE ~AtEnd(n) /\ address[Element(n)] # Packet(n).addr
  <2> PICK l : l = [job[n] EXCEPT !.i = @ + 1]
    OBVIOUS
  <2>1. Goes(n, "scan", l)
    BY <1>1, <1>7, Gone DEF Scan, NextElement
  <2>2. /\ TypedJob(l) /\ l.i = job[n].i + 1 /\ l.packet = job[n].packet
        /\ l.disturbed = job[n].disturbed
    BY <1>1, IndexFields
  <2>3. Look(n, "scan", l)
    <3>1. job[n].i <= Len(clientList)
      BY <1>4, <1>7, InRange DEF AtEnd
    <3>2. ASSUME ~job[n].disturbed, NEW k \in 1..(l.i - 1)
          PROVE  address[clientList[k]] # l.packet.addr
      <4>1. k \in 1..(job[n].i - 1) \/ k = job[n].i
        BY <1>4, <2>2
      <4> QED
        BY <1>3, <1>7, <2>2, <3>2, <4>1 DEF Look, Exact, Element, Packet
    <3>3. l.i <= Len(clientList) + 1
      BY <1>4, <2>2, <3>1, InRange
    <3> QED
      BY <2>2, <3>2, <3>3 DEF Look, Exact
  <2> QED
    BY <1>1, <1>2, <2>1, <2>2, <2>3, OwnStep
<1> QED
  BY <1>5, <1>6, <1>7

LEMMA RescanLooks ==
    ASSUME LookInv, NEW n \in Nodes, Rescan(n)
    PROVE  LookInv'
<1>1. OnlyMoves /\ pc[n] = "rescan" /\ TypedJob(job[n])
  BY DEF Rescan, LookInv, LocalsTyped
<1>2. Loop(n) \/ Answer(n, "SERVER_ERROR") \/ NextElement(n)
  BY DEF Rescan
<1>3. CASE NextElement(n)
  <2> PICK l : l = [job[n] EXCEPT !.i = @ + 1]
    OBVIOUS
  <2>1. Goes(n, "rescan", l) /\ TypedJob(l)
    BY <1>1, <1>3, Gone, IndexFields DEF NextElement
  <2>2. Idles(n)
    BY <2>1 DEF Idles, IdleSteps
  <2> QED
    BY <1>1, <2>2, IdleStep, SameGot DEF OnlyMoves, threadOthers, history
<1>4. CASE Loop(n) \/ Answer(n, "SERVER_ERROR")
  BY <1>1, <1>4, ResetIdles, IdleStep, SameGot DEF OnlyMoves, threadOthers, history
<1> QED
  BY <1>2, <1>3, <1>4

LEMMA NetworksLook ==
    ASSUME LookInv, NEW n \in Nodes, ReadNetworks(n)
    PROVE  LookInv'
<1>1. OnlyMoves /\ pc[n] = "nets" /\ TypedJob(job[n])
  BY DEF ReadNetworks, LookInv, LocalsTyped
<1>2. /\ UNCHANGED <<db, changes, main, clientList, user, address, was, raced>>
      /\ DOMAIN got' = Nodes /\ RelayStaysInSubnet'
  BY <1>1, SameGot DEF OnlyMoves, threadOthers, history
<1>3. CASE Found(db, user[n])
  <2> PICK v : v = Visible(db, user[n])
    OBVIOUS
  <2> PICK l : l = [job[n] EXCEPT !.ids = v]
    OBVIOUS
  <2>1. Goes(n, "check", l)
    BY <1>3, Gone DEF ReadNetworks
  <2>2. /\ TypedJob(l) /\ l.ids = v /\ l.packet = job[n].packet
        /\ l.disturbed = job[n].disturbed
    BY <1>1 DEF TypedJob, NoJob
  <2>3. Look(n, "nets", job[n])
    BY <1>1 DEF LookInv, LookOk
  <2>4. Look(n, "check", l)
    BY <1>3, <2>2, <2>3 DEF Look, Exact
  <2> QED
    BY <1>1, <1>2, <2>1, <2>2, <2>4, OwnStep
<1>4. CASE ~Found(db, user[n])
  BY <1>1, <1>2, <1>4, ResetIdles, IdleStep DEF ReadNetworks
<1> QED
  BY <1>3, <1>4

\* Two users that have the same subnet now.
LEMMA SameIsKnown ==
    ASSUME LookInv, NEW n \in Nodes, NEW m \in Nodes,
           Found(db, user[n]), Found(db, user[m]), SameSubnet(n, m)
    PROVE  Known(m, user[n])
<1>1. user[m] \in was[m]
  BY Nobody DEF LookInv, NodeOk, DbOk, Found
<1>2. /\ SubnetOf(db, user[m]) \in SubnetsEver(user[m])
      /\ SubnetOf(db, user[n]) \in SubnetsEver(user[n])
  BY DEF LookInv, DbOk, Found
<1> QED
  BY <1>1, <1>2 DEF Known, SameSubnet

LEMMA FindLooks ==
    ASSUME LookInv, NEW n \in Nodes, Find(n)
    PROVE  LookInv'
<1>1. OnlyMoves /\ pc[n] = "find" /\ TypedJob(job[n])
  BY DEF Find, LookInv, LocalsTyped
<1>2. /\ UNCHANGED <<db, changes, main, clientList, user, address, was, raced>>
      /\ DOMAIN got' = Nodes /\ RelayStaysInSubnet'
  BY <1>1, SameGot DEF OnlyMoves, threadOthers, history
<1>3. Look(n, "find", job[n])
  BY <1>1 DEF LookInv, LookOk
<1>4. job[n].i \in Nat \ {0} /\ Len(clientList) \in Nat
  BY <1>1, InRange DEF TypedJob
<1>5. CASE Loop(n) \/ Raise(n)
  BY <1>1, <1>2, <1>5, ResetIdles, IdleStep
<1>6. CASE Goto(n, "firewall") /\ UNCHANGED job /\ job[n].to # NoNode
  <2>1. Goes(n, "firewall", job[n])
    BY <1>6, Gone
  <2>2. Look(n, "firewall", job[n])
    BY <1>3, <1>6 DEF Look, Exact
  <2> QED
    BY <1>1, <1>2, <2>1, <2>2, OwnStep
\* The index moves, past an element that is not taken or is the one taken.
<1>7. ASSUME NEW l, Goes(n, "find", l), TypedJob(l), ~AtEnd(n),
             l.i = job[n].i + 1, l.packet = job[n].packet,
             l.disturbed = job[n].disturbed,
             \/ l.to = job[n].to
             \/ l.to = Element(n) /\ SameSubnet(n, Element(n))
                /\ Found(db, user[n]) /\ Found(db, user[Element(n)]),
             address[Element(n)] # Packet(n).dst =>
                l.to = job[n].to,
             address[Element(n)] = Packet(n).dst /\ l.to = NoNode =>
                ~SameSubnet(n, Element(n)),
             l.to = job[n].to \/ address[Element(n)] = Packet(n).dst
      PROVE  LookInv'
  <2>1. job[n].i \in 1..Len(clientList)
    BY <1>4, <1>7 DEF AtEnd
  <2>2. Element(n) \in Nodes /\ Element(n) \in Range(clientList)
    BY <2>1, InRange DEF Element
  <2>3. l.to # NoNode => Known(l.to, user[n])
    <3>1. CASE l.to = job[n].to
      BY <1>3, <3>1 DEF Look
    <3>2. CASE /\ l.to = Element(n) /\ SameSubnet(n, Element(n))
               /\ Found(db, user[n]) /\ Found(db, user[Element(n)])
      BY <2>2, <3>2, SameIsKnown
    <3> QED
      BY <1>7, <3>1, <3>2
  <2>4. ASSUME ~job[n].disturbed PROVE Exact(n, "find", l)
    <3>1. Exact(n, "find", job[n])
      BY <1>3, <2>4 DEF Look
    <3>2. l.i <= Len(clientList) + 1
      BY <1>4, <1>7, <2>1
    <3>3. ASSUME l.to = NoNode, NEW k \in 1..(l.i - 1)
          PROVE  ~Meets(n, clientList[k], l.packet.dst)
      <4>1. k \in 1..(job[n].i - 1) \/ k = job[n].i
        BY <1>4, <1>7
      <4>2. job[n].to = NoNode
        <5>1. NoNode # Element(n)
          BY <2>2, Nobody
        <5> QED
          BY <1>7, <3>3, <5>1
      <4>3. CASE k \in 1..(job[n].i - 1)
        BY <1>7, <3>1, <4>2, <4>3 DEF Exact
      <4>4. CASE k = job[n].i
        BY <1>7, <3>3, <4>4 DEF Meets, Element, Packet
      <4> QED
        BY <4>1, <4>3, <4>4
    <3>4. l.to # NoNode =>
             l.to \in Range(clientList) /\ Meets(n, l.to, l.packet.dst)
      <4>1. CASE l.to = job[n].to
        BY <1>7, <3>1, <4>1 DEF Exact
      <4>2. CASE l.to # job[n].to
        BY <1>7, <2>2, <4>2 DEF Meets, Packet
      <4> QED
        BY <4>1, <4>2
    <3> QED
      BY <3>2, <3>3, <3>4 DEF Exact
  <2>5. Look(n, "find", l)
    BY <1>7, <2>3, <2>4 DEF Look
  <2> QED
    BY <1>1, <1>2, <1>7, <2>5, OwnStep
<1>8. CASE ~AtEnd(n) /\ address[Element(n)] # Packet(n).dst /\ NextElement(n)
  <2> PICK l : l = [job[n] EXCEPT !.i = @ + 1]
    OBVIOUS
  <2>1. Goes(n, "find", l)
    BY <1>1, <1>8, Gone DEF NextElement
  <2>2. /\ TypedJob(l) /\ l.i = job[n].i + 1 /\ l.packet = job[n].packet
        /\ l.to = job[n].to /\ l.disturbed = job[n].disturbed
    BY <1>1, IndexFields
  <2> QED
    BY <1>7, <1>8, <2>1, <2>2
<1>9. CASE /\ ~AtEnd(n) /\ address[Element(n)] = Packet(n).dst
           /\ Found(db, user[n]) /\ Found(db, user[Element(n)])
           /\ Continue(n, "find", [job[n] EXCEPT
                     !.i = @ + 1,
                     !.to = IF @ = NoNode /\ SameSubnet(n, Element(n))
                            THEN Element(n) ELSE @])
  <2> PICK to : to = IF job[n].to = NoNode /\ SameSubnet(n, Element(n))
                     THEN Element(n) ELSE job[n].to
    OBVIOUS
  <2> PICK l : l = [job[n] EXCEPT !.i = @ + 1, !.to = to]
    OBVIOUS
  <2>1. Goes(n, "find", l)
    <3>1. Continue(n, "find", l)
      BY <1>9
    <3> QED
      BY <3>1, Gone
  <2>2. /\ TypedJob(l) /\ l.i = job[n].i + 1 /\ l.packet = job[n].packet
        /\ l.to = to /\ l.disturbed = job[n].disturbed
    BY <1>1, <1>4 DEF TypedJob, NoJob
  <2>3. to = NoNode => ~SameSubnet(n, Element(n))
    <3>1. Element(n) # NoNode
      BY <1>4, <1>9, InRange, Nobody DEF AtEnd, Element
    <3> QED
      BY <3>1
  <2> QED
    BY <1>7, <1>9, <2>1, <2>2, <2>3
<1> QED
  BY <1>5, <1>6, <1>8, <1>9 DEF Find

LEMMA FirewallLooks ==
    ASSUME LookInv, NEW n \in Nodes, Firewall(n)
    PROVE  LookInv'
<1>1. OnlyMoves /\ pc[n] = "firewall" /\ TypedJob(job[n])
  BY DEF Firewall, LookInv, LocalsTyped
<1>2. /\ UNCHANGED <<db, changes, main, clientList, user, address, was, raced>>
      /\ DOMAIN got' = Nodes /\ RelayStaysInSubnet'
  BY <1>1, SameGot DEF OnlyMoves, threadOthers, history
<1>3. CASE Raise(n) \/ Loop(n)
  BY <1>1, <1>2, <1>3, ResetIdles, IdleStep
<1>4. CASE /\ GetAction(FirewallOf(db, SubnetOf(db, user[n])),
                        Packet(n).src, Packet(n).dst) = "ALLOW"
           /\ Goto(n, "relay") /\ UNCHANGED job
  <2>1. Goes(n, "relay", job[n])
    BY <1>4, Gone
  <2>2. Look(n, "firewall", job[n])
    BY <1>1 DEF LookInv, LookOk
  <2>3. Look(n, "relay", job[n])
    BY <1>4, <2>2 DEF Look, Exact, Packet
  <2> QED
    BY <1>1, <1>2, <2>1, <2>3, OwnStep
<1> QED
  BY <1>3, <1>4 DEF Firewall

LEMMA RelayLooks ==
    ASSUME LookInv, NEW n \in Nodes, Relay(n)
    PROVE  LookInv'
<1> PICK m : m = job[n].to
  OBVIOUS
<1>1. /\ pc[n] = "relay" /\ Loop(n)
      /\ got' = [got EXCEPT ![m] = @ \cup {user[n]}]
      /\ UNCHANGED <<db, changes, main, clientList, user, address, was, raced>>
  BY DEF Relay, threadOthers
<1>2. Known(m, user[n])
  BY <1>1 DEF LookInv, LookOk, Look
<1>3. DOMAIN got' = Nodes
  BY <1>1 DEF LookInv, LocalsTyped
<1>4. ASSUME NEW r \in Nodes, NEW sender \in got'[r]
      PROVE  \E login \in was'[r] : SubnetsEver(login) \cap SubnetsEver(sender) # {}
  <2>1. CASE sender \in got[r]
    BY <1>1, <2>1 DEF LookInv, RelayStaysInSubnet
  <2>2. CASE r = m /\ sender = user[n]
    BY <1>1, <1>2, <2>2 DEF Known
  <2> QED
    BY <1>1, <1>4, <2>1, <2>2 DEF LookInv, LocalsTyped
<1>5. RelayStaysInSubnet'
  BY <1>4 DEF RelayStaysInSubnet, SubnetsEver
<1> QED
  BY <1>1, <1>3, <1>5, ResetIdles, IdleStep

LEMMA ReceiveLooks ==
    ASSUME LookInv, NEW n \in Nodes, Receive(n)
    PROVE  LookInv'
<1>1. /\ pc[n] = "recv"
      /\ UNCHANGED <<db, changes, main, clientList, user, address, was, raced, got>>
  BY DEF Receive, history
<1>2. PICK p, k : Dispatch(n, p, k)
  BY DEF Receive
<1>3. ASSUME NEW c, NEW step, Begin(n, p, c, step),
             step \in {"auth", "authreq", "scan", "find"}
      PROVE  LookInv'
  <2> PICK l : l = [NoJob EXCEPT !.packet = p, !.challenge = c]
    OBVIOUS
  <2>1. TypedJob(l) /\ l.i = 1 /\ l.to = NoNode
    BY DEF TypedJob, NoJob
  <2>2. Goes(n, step, l)
    BY <1>3, Gone DEF Begin
  <2>3. Look(n, step, l)
    BY <1>3, <2>1, InRange DEF Look, Exact
  <2> QED
    BY <1>1, <1>3, <2>1, <2>2, <2>3, SameGot, OwnStep
<1>4. \/ Raise(n) \/ Answer(n, "SERVER_ERROR")
      \/ Begin(n, p, k, "auth") \/ Begin(n, p, 0, "authreq")
      \/ Begin(n, p, 0, "scan") \/ Begin(n, p, 0, "find")
  BY <1>2 DEF Dispatch, Netconf, Data
<1>5. CASE Raise(n) \/ Answer(n, "SERVER_ERROR")
  BY <1>1, <1>5, ResetIdles, IdleStep, SameGot
<1> QED
  BY <1>3, <1>4, <1>5

-----------------------------------------------------------------------------
(* The steps that disturb the look-ups of others.                          *)

LEMMA Least ==
    ASSUME NEW T, T \subseteq Nat, T # {}
    PROVE  \E x \in T : \A y \in T : x <= y
<1>1. PICK x \in T : \A y \in T : ~(<<y, x>> \in OpToRel(<, Nat))
  BY NatLessThanWellFounded, WFMin
<1>2. ASSUME NEW y \in T PROVE x <= y
  <2>1. ASSUME y < x PROVE FALSE
    <3>1. <<y, x>> \in {ss \in Nat \X Nat : ss[1] < ss[2]}
      BY <2>1
    <3>2. <<y, x>> \in OpToRel(<, Nat)
      BY <3>1, Zenon DEF OpToRel
    <3> QED
      BY <3>2, <1>1
  <2> QED
    BY <2>1
<1> QED
  BY <1>2

LEMMA WithoutOne ==
    ASSUME NEW S, NEW s \in Seq(S), NEW v \in 1..Len(s)
    PROVE  /\ RemoveAt(s, v) \in Seq(S)
           /\ Range(RemoveAt(s, v)) \subseteq Range(s)
<1> DEFINE a == SubSeq(s, 1, v - 1)
           b == SubSeq(s, v + 1, Len(s))
<1>0. Len(s) \in Nat /\ v \in Nat \ {0} /\ \A i \in 1..Len(s) : s[i] \in S
  OBVIOUS
<1>a. /\ a \in Seq(S) /\ Len(a) = v - 1
      /\ \A i \in 1..(v - 1) : a[i] = s[i]
  <2>1. \A i \in 1..(v - 1) : s[i] \in S
    BY <1>0
  <2>2. 1 \in Int /\ v - 1 \in Int /\ (v - 1) - 1 + 1 = v - 1
    BY <1>0
  <2> QED
    BY <1>0, <2>1, <2>2, SubSeqProperties
<1>b. /\ b \in Seq(S) /\ Len(b) = Len(s) - v
      /\ \A i \in 1..(Len(s) - v) : b[i] = s[v + i]
  <2>1. \A i \in (v + 1)..Len(s) : s[i] \in S
    BY <1>0
  <2> PICK k : k = Len(s)
    OBVIOUS
  <2>2. /\ v + 1 \in Int /\ k \in Int /\ k - (v + 1) + 1 = k - v
        /\ ~(v + 1 <= k) => k - v = 0
    BY <1>0
  <2>3. /\ SubSeq(s, v + 1, k) \in Seq(S)
        /\ Len(SubSeq(s, v + 1, k)) = IF v + 1 <= k THEN k - (v + 1) + 1 ELSE 0
        /\ \A i \in 1..(k - (v + 1) + 1) :
              SubSeq(s, v + 1, k)[i] = s[(v + 1) + i - 1]
    <3>1. \A i \in (v + 1)..k : s[i] \in S
      BY <2>1
    <3> QED
      BY ONLY <2>2, <3>1, SubSeqProperties
  <2>4. \A i \in 1..(k - v) : (v + 1) + i - 1 = v + i
    BY <1>0
  <2>5. b = SubSeq(s, v + 1, k)
    OBVIOUS
  <2> HIDE DEF b
  <2> QED
    BY <2>2, <2>3, <2>4, <2>5
<1> HIDE DEF a, b
<1>1. RemoveAt(s, v) \in Seq(S) /\ RemoveAt(s, v) = a \o b
  BY <1>a, <1>b DEF RemoveAt, a, b
<1>2. Len(RemoveAt(s, v)) = Len(s) - 1
  <2>1. Len(a \o b) = Len(a) + Len(b)
    BY <1>a, <1>b, ConcatProperties
  <2> QED
    BY <1>0, <1>1, <1>a, <1>b, <2>1
<1>3. ASSUME NEW i \in 1..(Len(s) - 1)
      PROVE  RemoveAt(s, v)[i] = IF i < v THEN s[i] ELSE s[i + 1]
  <2>1. (a \o b)[i] = IF i <= Len(a) THEN a[i] ELSE b[i - Len(a)]
    BY <1>0, <1>a, <1>b, ConcatProperties
  <2>2. CASE i < v
    BY <1>0, <1>1, <1>a, <2>1, <2>2
  <2>3. CASE ~(i < v)
    <3>1. i - (v - 1) \in 1..(Len(s) - v) /\ v + (i - (v - 1)) = i + 1
      BY <1>0, <2>3
    <3> QED
      BY <1>0, <1>1, <1>a, <1>b, <2>1, <2>3, <3>1
  <2> QED
    BY <2>2, <2>3
<1>4. ASSUME NEW i \in 1..(Len(s) - 1)
      PROVE  \E l \in 1..Len(s) : RemoveAt(s, v)[i] = s[l]
  <2>1. i \in 1..Len(s) /\ i + 1 \in 1..Len(s)
    OBVIOUS
  <2> QED
    BY <1>3, <2>1
<1>5. DOMAIN RemoveAt(s, v) = 1..(Len(s) - 1) /\ DOMAIN s = 1..Len(s)
  BY <1>1, <1>2
<1> QED
  BY <1>1, <1>4, <1>5 DEF Range

\* A list without the first occurrence of e.
LEMMA Removed ==
    ASSUME NEW S, NEW s \in Seq(S), NEW e
    PROVE  /\ RemoveFirst(s, e) \in Seq(S)
           /\ Range(RemoveFirst(s, e)) \subseteq Range(s)
<1>1. CASE ~\E i \in 1..Len(s) : s[i] = e
  BY <1>1 DEF RemoveFirst
<1>2. CASE \E i \in 1..Len(s) : s[i] = e
  <2> DEFINE I == {i \in 1..Len(s) : s[i] = e}
  <2>1. PICK k \in I : \A i \in I : k <= i
    <3>1. I \subseteq Nat /\ I # {}
      BY <1>2
    <3> QED
      BY <3>1, Least
  <2>2. Min(I) \in I
    BY <2>1 DEF Min
  <2>3. RemoveFirst(s, e) = RemoveAt(s, Min(I))
    BY <1>2, <2>1 DEF RemoveFirst, SelectInSeq
  <2>4. PICK v : v = Min(I) /\ v \in 1..Len(s)
    BY <2>2
  <2>5. /\ RemoveAt(s, v) \in Seq(S)
        /\ Range(RemoveAt(s, v)) \subseteq Range(s)
    BY <2>4, WithoutOne
  <2> QED
    BY <2>3, <2>4, <2>5
<1> QED
  BY <1>1, <1>2

\* A thread that thread n disturbs, or that looks nothing up.
LEMMA Disturbed ==
    ASSUME LookInv, NEW n, NEW l, DisturbOthers(n, l),
           NEW m \in Nodes, m # n, pc'[m] = pc[m], user'[m] = user[m],
           \A r \in Nodes : was[r] \subseteq was'[r]
    PROVE  TypedJob(job'[m]) /\ LookOk(m)'
<1> PICK s : s = pc[m]
  OBVIOUS
<1> PICK k : k = job'[m]
  OBVIOUS
<1>1. Look(m, s, job[m]) /\ TypedJob(job[m])
  BY DEF LookInv, LookOk, LocalsTyped
<1>2. CASE m \in LookingUp
  <2>1. k = [job[m] EXCEPT !.disturbed = TRUE]
    BY <1>2 DEF DisturbOthers
  <2>2. TypedJob(k) /\ k.disturbed = TRUE /\ k.to = job[m].to
    BY <1>1, <2>1 DEF TypedJob, NoJob
  <2>3. s \in {"find", "firewall", "relay"} /\ k.to # NoNode =>
           k.to \in Nodes /\ \E login \in was'[k.to] :
               SubnetsEver(login) \cap SubnetsEver(user'[m]) # {}
    BY <1>1, <2>2 DEF Look, Known
  <2>4. s \in {"firewall", "relay"} => k.to # NoNode
    BY <1>1, <2>2 DEF Look
  <2>5. s \in {"find", "firewall", "relay"} /\ k.to # NoNode =>
           Known(k.to, user[m])'
    BY <2>3 DEF Known, SubnetsEver
  <2>6. Look(m, s, k)'
    BY <2>2, <2>4, <2>5 DEF Look
  <2> QED
    BY <2>2, <2>6 DEF LookOk
<1>3. CASE m \notin LookingUp
  <2>1. k = job[m]
    BY <1>3 DEF DisturbOthers
  <2>2. Look(m, s, k)'
    BY <1>3 DEF LookingUp, Look, Exact
  <2> QED
    BY <1>1, <2>1, <2>2 DEF LookOk
<1> QED
  BY <1>2, <1>3

\* A step of thread n that disturbs the others.
LEMMA DisturbingStep ==
    ASSUME LookInv, NEW n \in Nodes, NEW s, NEW l,
           pc[n] # "listed", pc' = [pc EXCEPT ![n] = s], DisturbOthers(n, l),
           TypedJob(l), s \in IdleSteps \cup {"done"},
           UNCHANGED <<db, changes, main, got>>,
           clientList' \in Seq(Nodes),
           \A m \in Nodes \ {n} :
               user'[m] = user[m] /\ address'[m] = address[m],
           DOMAIN user' = Nodes, DOMAIN address' = Nodes, DOMAIN was' = Nodes,
           \A r \in Nodes : was[r] \subseteq was'[r],
           user'[n] # NoLogin => user'[n] \in was'[n],
           DuplicateNeedsRace'
    PROVE  LookInv'
<1>1. pc'[n] = s /\ \A m \in Nodes \ {n} : pc'[m] = pc[m]
  BY DEF LookInv, LocalsTyped
<1>2. DOMAIN job' = Nodes /\ job'[n] = l
  BY DEF DisturbOthers
<1>3. \A m \in Nodes \ {n} : TypedJob(job'[m]) /\ LookOk(m)'
  BY <1>1, Disturbed
<1>4. LookOk(n)'
  <2>1. Look(n, s, l)'
    BY DEF Look, Exact, IdleSteps
  <2> QED
    BY <1>1, <1>2, <2>1 DEF LookOk
<1>5. LocalsTyped'
  BY <1>1, <1>2, <1>3 DEF LookInv, LocalsTyped, TypedJob
<1>6. DbOk'
  BY DEF LookInv, DbOk
<1>7. MainOk'
  BY <1>1 DEF LookInv, MainOk, Starting
<1>8. ASSUME NEW m \in Nodes PROVE NodeOk(m)'
  <2>1. CASE m = n
    BY <1>1, <2>1 DEF NodeOk, IdleSteps
  <2>2. CASE m # n
    BY <1>1, <2>2 DEF NodeOk, LookInv
  <2> QED
    BY <2>1, <2>2
<1>9. RelayStaysInSubnet'
  <2>1. ASSUME NEW m \in Nodes, NEW sender \in got'[m]
        PROVE  \E login \in was'[m] :
                   SubnetsEver(login) \cap SubnetsEver(sender) # {}
    BY <2>1 DEF LookInv, RelayStaysInSubnet
  <2> QED
    BY <2>1 DEF RelayStaysInSubnet, SubnetsEver
<1> QED
  BY <1>3, <1>4, <1>5, <1>6, <1>7, <1>8, <1>9 DEF LookInv

LEMMA FinishLooks ==
    ASSUME LookInv, NEW n \in Nodes, Finish(n)
    PROVE  LookInv'
<1>1. /\ pc[n] = "end" /\ pc' = [pc EXCEPT ![n] = "done"]
      /\ DisturbOthers(n, NoJob) /\ clientList' = RemoveFirst(clientList, n)
      /\ UNCHANGED <<db, changes, main, got, user, address, was, raced>>
  BY DEF Finish, Goto, history
<1>2. /\ clientList' \in Seq(Nodes)
      /\ Range(clientList)' \subseteq Range(clientList)
  BY <1>1, Removed DEF LookInv, LocalsTyped
<1>3. DuplicateNeedsRace'
  BY <1>1, <1>2 DEF LookInv, DuplicateNeedsRace
<1>4. /\ DOMAIN user' = Nodes /\ DOMAIN address' = Nodes /\ DOMAIN was' = Nodes
      /\ user'[n] # NoLogin => user'[n] \in was'[n]
  BY <1>1 DEF LookInv, LocalsTyped, NodeOk
<1> QED
  BY <1>1, <1>2, <1>3, <1>4, NoJobTyped, DisturbingStep

LEMMA ReplyLooks ==
    ASSUME LookInv, NEW n \in Nodes, Reply(n)
    PROVE  LookInv'
<1>1. /\ pc[n] = "reply"
      /\ UNCHANGED <<db, changes, main, clientList, got, address, raced>>
  BY DEF Reply, threadOthers, history
<1>2. CASE Loop(n) /\ UNCHANGED <<user, was>>
  BY <1>1, <1>2, ResetIdles, IdleStep, SameGot
<1>3. CASE /\ Goto(n, NextLoop) /\ DisturbOthers(n, NoJob)
           /\ user' = [user EXCEPT ![n] = job[n].login]
           /\ was' = [was EXCEPT ![n] = @ \cup {job[n].login}]
  <2>1. /\ pc' = [pc EXCEPT ![n] = NextLoop] /\ NextLoop \in IdleSteps
        /\ clientList' \in Seq(Nodes)
    BY <1>1, <1>3 DEF Goto, NextLoop, IdleSteps, LookInv, LocalsTyped
  <2>2. /\ DOMAIN user' = Nodes /\ DOMAIN address' = Nodes /\ DOMAIN was' = Nodes
        /\ \A m \in Nodes \ {n} : user'[m] = user[m] /\ address'[m] = address[m]
        /\ \A r \in Nodes : was[r] \subseteq was'[r]
        /\ user'[n] \in was'[n]
    BY <1>1, <1>3 DEF LookInv, LocalsTyped
  <2>3. DuplicateNeedsRace'
    BY <1>1 DEF LookInv, DuplicateNeedsRace
  <2> QED
    BY <1>1, <1>3, <2>1, <2>2, <2>3, NoJobTyped, DisturbingStep
<1> QED
  BY <1>2, <1>3 DEF Reply, history

LEMMA GrantLooks ==
    ASSUME LookInv, NEW n \in Nodes, Grant(n)
    PROVE  LookInv'
<1> PICK l : l = [NoJob EXCEPT !.reply = "SERVER_NETCONF"]
  OBVIOUS
<1> PICK a : a = Packet(n).addr
  OBVIOUS
<1>1. /\ pc[n] = "check" /\ pc' = [pc EXCEPT ![n] = "reply"]
      /\ DisturbOthers(n, l) /\ address' = [address EXCEPT ![n] = a]
      /\ raced' = IF job[n].disturbed THEN raced \cup {n} ELSE raced \ {n}
      /\ UNCHANGED <<db, changes, main, clientList, got, user, was>>
  BY DEF Grant, Goto, threadOthers
<1>2. TypedJob(l)
  BY DEF TypedJob, NoJob
<1>3. /\ DOMAIN user' = Nodes /\ DOMAIN address' = Nodes /\ DOMAIN was' = Nodes
      /\ user'[n] # NoLogin => user'[n] \in was'[n]
      /\ clientList' \in Seq(Nodes)
      /\ address'[n] = a
      /\ \A m \in Nodes \ {n} : address'[m] = address[m]
  BY <1>1 DEF LookInv, LocalsTyped, NodeOk
<1>4. DuplicateNeedsRace'
  <2>1. Range(clientList) \subseteq Nodes /\ Range(clientList)' = Range(clientList)
    BY <1>1, InRange
  <2>2. ~job[n].disturbed =>
           \A m \in Range(clientList) : address[m] # a \/ address[m] = NoAddress
    BY <1>1 DEF LookInv, LookOk, Look, Exact, Packet
  <2>3. ASSUME NEW x \in Range(clientList), NEW y \in Range(clientList), x # y,
               address'[x] = address'[y], address'[x] # NoAddress
        PROVE  x \in raced' \/ y \in raced'
    <3>1. CASE x # n /\ y # n
      <4>1. x \in raced \/ y \in raced
        BY <1>3, <2>1, <2>3, <3>1 DEF LookInv, DuplicateNeedsRace
      <4> QED
        BY <1>1, <3>1, <4>1
    <3>2. CASE job[n].disturbed /\ (x = n \/ y = n)
      BY <1>1, <3>2
    <3>3. CASE ~job[n].disturbed /\ (x = n \/ y = n)
      BY <1>3, <2>1, <2>2, <2>3, <3>3
    <3> QED
      BY <3>1, <3>2, <3>3
  <2> QED
    BY <2>1, <2>3 DEF DuplicateNeedsRace
<1>5. "reply" \in IdleSteps
  BY DEF IdleSteps
<1> QED
  BY <1>1, <1>2, <1>3, <1>4, <1>5, DisturbingStep

-----------------------------------------------------------------------------
(* The web interface changes the database.                                 *)

\* Whatever is deleted, the users that are left keep their rows.
LEMMA TablesKept ==
    ASSUME NEW d, DOMAIN d = DOMAIN EmptyDb, NEW ids, NEW r
    PROVE  /\ DOMAIN DropNetworks(d, ids) = DOMAIN EmptyDb
           /\ DropNetworks(d, ids).users = d.users
           /\ DOMAIN SaveFirewall(d, ids, r) = DOMAIN EmptyDb
           /\ SaveFirewall(d, ids, r).users = d.users
BY DEF DropNetworks, SaveFirewall, EmptyDb

LEMMA UserDeleted ==
    ASSUME NEW d, DOMAIN d = DOMAIN EmptyDb, NEW login
    PROVE  /\ DOMAIN DeleteUser(d, login) = DOMAIN EmptyDb
           /\ DeleteUser(d, login).users = Drop(d.users, {login})
<1> PICK u : u = Drop(d.users, {login})
  OBVIOUS
<1> PICK s : s = Drop(d.sessions, {x \in DOMAIN d.sessions : d.sessions[x] = login})
  OBVIOUS
<1> PICK m : m = {x \in d.members : x.login # login}
  OBVIOUS
<1> PICK left : left = [d EXCEPT !.users = u, !.sessions = s, !.members = m]
  OBVIOUS
<1>1. DOMAIN left = DOMAIN EmptyDb /\ left.users = u
  BY DEF EmptyDb
<1>2. \/ DeleteUser(d, login) = left
      \/ \E ids : DeleteUser(d, login) = DropNetworks(left, ids)
  BY DEF DeleteUser
<1>3. \A ids : /\ DOMAIN DropNetworks(left, ids) = DOMAIN EmptyDb
               /\ DropNetworks(left, ids).users = u
  BY <1>1, TablesKept, ZenonT(30)
<1> QED
  BY ONLY <1>1, <1>2, <1>3, u = Drop(d.users, {login})

LEMMA UserInserted ==
    ASSUME NEW d, DOMAIN d = DOMAIN EmptyDb, NEW login, NEW password, NEW subnet
    PROVE  LET e == InsertUser(d, login, password, subnet)
           IN  /\ DOMAIN e = DOMAIN EmptyDb
               /\ DOMAIN e.users = DOMAIN d.users \cup {login}
               /\ SubnetOf(e, login) = subnet
               /\ \A u \in DOMAIN d.users \ {login} : SubnetOf(e, u) = SubnetOf(d, u)
<1> PICK row : row = [password |-> password, subnet |-> subnet, perms |-> {"OWNER"}]
  OBVIOUS
<1>1. row.subnet = subnet
  OBVIOUS
<1> PICK u : u = Put(d.users, login, row)
  OBVIOUS
<1>2. /\ DOMAIN u = DOMAIN d.users \cup {login} /\ u[login] = row
      /\ \A x \in DOMAIN d.users \ {login} : u[x] = d.users[x]
  BY DEF Put
<1> PICK e : e = [d EXCEPT !.users = u]
  OBVIOUS
<1>3. DOMAIN e = DOMAIN EmptyDb /\ e.users = u
  BY DEF EmptyDb
<1>4. InsertUser(d, login, password, subnet) = e
  BY DEF InsertUser
<1> QED
  BY <1>1, <1>2, <1>3, <1>4, SMTT(30) DEF SubnetOf

LEMMA WebLooks ==
    ASSUME LookInv, WebChange
    PROVE  LookInv'
<1> PICK c : /\ c \in changes
             /\ db' = Apply(c) /\ changes' = changes \ {c}
             /\ DisturbOthers(NoNode, NoJob)
             /\ UNCHANGED <<main, clientList, pc, user, address, got, was, raced>>
  BY DEF WebChange, history
<1>1. DbOk'
  <2>1. c \in WebChanges /\ DOMAIN db = DOMAIN EmptyDb
    BY DEF LookInv, DbOk
  <2>2. /\ c.kind \in {"delete user", "sign up", "delete network", "new rule"}
        /\ c.kind = "sign up" => c.login \in Logins
    BY <2>1, NodesAssumption DEF NodesAssumption
  <2>3. CASE c.kind = "sign up"
    <3>1. db' = InsertUser(db, c.login, c.password, c.subnet)
      BY <2>3 DEF Apply
    <3>2. c.subnet \in SubnetsEver(c.login)
      BY <2>1, <2>3 DEF SubnetsEver
    <3>3. /\ DOMAIN db' = DOMAIN EmptyDb
          /\ DOMAIN db'.users = DOMAIN db.users \cup {c.login}
          /\ SubnetOf(db', c.login) = c.subnet
          /\ \A u \in DOMAIN db.users \ {c.login} : SubnetOf(db', u) = SubnetOf(db, u)
      BY <2>1, <3>1, UserInserted
    <3>4. \A u \in DOMAIN db'.users : SubnetOf(db', u) \in SubnetsEver(u)
      BY <3>2, <3>3 DEF LookInv, DbOk
    <3> QED
      BY <2>2, <2>3, <3>3, <3>4 DEF LookInv, DbOk, SubnetsEver
  <2>4. ASSUME DOMAIN db' = DOMAIN EmptyDb, DOMAIN db'.users \subseteq DOMAIN db.users,
               \A u \in DOMAIN db'.users : db'.users[u] = db.users[u]
        PROVE  DbOk'
    <3>1. \A u \in DOMAIN db'.users : SubnetOf(db', u) \in SubnetsEver(u)
      BY <2>4 DEF LookInv, DbOk, SubnetOf
    <3> QED
      BY <2>4, <3>1 DEF LookInv, DbOk, SubnetsEver
  <2>5. CASE c.kind = "delete user"
    <3>1. db' = DeleteUser(db, c.login)
      BY <2>5 DEF Apply
    <3>2. DOMAIN db' = DOMAIN EmptyDb /\ db'.users = Drop(db.users, {c.login})
      BY <2>1, <3>1, UserDeleted
    <3> QED
      BY <2>4, <3>2 DEF Drop
  <2>6. CASE c.kind = "delete network"
    <3>1. db' = DropNetworks(db, {c.id})
      BY <2>6 DEF Apply, DeleteNetwork
    <3>2. DOMAIN db' = DOMAIN EmptyDb /\ db'.users = db.users
      BY <2>1, <3>1, TablesKept
    <3> QED
      BY <2>4, <3>2
  <2>7. CASE c.kind = "new rule"
    <3>1. \E r : db' = SaveFirewall(db, c.subnet, r)
      BY <2>7 DEF Apply
    <3>2. DOMAIN db' = DOMAIN EmptyDb /\ db'.users = db.users
      BY <2>1, <3>1, TablesKept
    <3> QED
      BY <2>4, <3>2
  <2> QED
    BY <2>2, <2>3, <2>5, <2>6, <2>7
<1>2. \A m \in Nodes : TypedJob(job'[m]) /\ LookOk(m)'
  BY Disturbed, Nobody
<1>3. LocalsTyped' /\ MainOk'
  <2>1. DOMAIN job' = Nodes
    BY DEF DisturbOthers
  <2> QED
    BY <1>2, <2>1 DEF LookInv, LocalsTyped, TypedJob, MainOk, Starting
<1>4. (\A n \in Nodes : NodeOk(n)') /\ DuplicateNeedsRace'
  BY DEF LookInv, NodeOk, DuplicateNeedsRace
<1>5. RelayStaysInSubnet'
  BY SameGot
<1> QED
  BY <1>1, <1>2, <1>3, <1>4, <1>5 DEF LookInv

-----------------------------------------------------------------------------
(* The main thread and the clients.                                        *)

\* Steps that leave the threads and what they look up as they are.
LEMMA MainLooks ==
    ASSUME LookInv, MainOk',
           UNCHANGED <<db, changes, clientList, pc, job, user, address, got,
                       was, raced>>
    PROVE  LookInv'
<1>1. ASSUME NEW m \in Nodes PROVE LookOk(m)'
  <2> PICK s, k : s = pc[m] /\ k = job[m]
    OBVIOUS
  <2>1. Look(m, s, k)'
    <3>1. Look(m, s, k)
      BY DEF LookInv, LookOk
    <3> QED
      BY <3>1, LookSame
  <2> QED
    BY <2>1 DEF LookOk
<1>2. LocalsTyped' /\ DbOk' /\ DuplicateNeedsRace'
  BY DEF LookInv, LocalsTyped, TypedJob, DbOk, DuplicateNeedsRace, SubnetsEver
<1>3. RelayStaysInSubnet'
  BY SameGot
<1>4. \A m \in Nodes : NodeOk(m)'
  BY DEF LookInv, NodeOk
<1> QED
  BY <1>1, <1>2, <1>3, <1>4 DEF LookInv

LEMMA AcceptLooks ==
    ASSUME LookInv, NEW n \in Nodes, Accept(n)
    PROVE  LookInv'
<1>1. /\ main.at = "accept" /\ pc[n] = "new"
      /\ clientList' = Append(clientList, n)
      /\ pc' = [pc EXCEPT ![n] = "listed"]
      /\ main' = [main EXCEPT !.at = "start", !.node = n]
      /\ UNCHANGED <<db, changes, job, user, address, got, was, raced>>
  BY DEF Accept, mainOthers, history
<1>2. /\ clientList' \in Seq(Nodes) /\ Len(clientList') = Len(clientList) + 1
      /\ Len(clientList) \in Nat
      /\ \A k \in 1..Len(clientList) : clientList'[k] = clientList[k]
      /\ clientList'[Len(clientList) + 1] = n
  BY <1>1 DEF LookInv, LocalsTyped
<1>3. Range(clientList)' = Range(clientList) \cup {n}
  BY <1>2, SMTT(30) DEF Range, LookInv, LocalsTyped
<1>4. address[n] = NoAddress /\ pc'[n] = "listed"
      /\ \A m \in Nodes \ {n} : pc'[m] = pc[m]
  BY <1>1 DEF LookInv, LocalsTyped, NodeOk
<1>5. ASSUME NEW m \in Nodes PROVE LookOk(m)'
  <2>1. CASE m = n
    BY <1>4, <2>1 DEF LookOk, Look, Exact
  <2>2. CASE m # n
    <3> PICK s, k : s = pc[m] /\ k = job[m]
      OBVIOUS
    <3>1. Look(m, s, k) /\ k.i \in Nat \ {0}
      BY DEF LookInv, LookOk, LocalsTyped, TypedJob
    <3>2. ASSUME ~k.disturbed PROVE Exact(m, s, k)'
      <4>1. Exact(m, s, k)
        BY <3>1, <3>2 DEF Look
      <4>2. s \in {"scan", "find"} =>
               \A x \in 1..(k.i - 1) : clientList'[x] = clientList[x]
        BY <1>2, <3>1, <4>1 DEF Exact
      <4>3. s \in {"scan", "find"} => k.i <= Len(clientList') + 1
        BY <1>2, <3>1, <4>1 DEF Exact
      <4>4. /\ s = "scan" =>
                 \A x \in 1..(k.i - 1) : address[clientList'[x]] # k.packet.addr
            /\ s = "find" /\ k.to = NoNode =>
                 \A x \in 1..(k.i - 1) : ~Meets(m, clientList'[x], k.packet.dst)
        BY <4>1, <4>2 DEF Exact
      <4>5. /\ s \in {"nets", "check"} =>
                 \A x \in Range(clientList)' :
                    address[x] # k.packet.addr \/ address[x] = NoAddress
            /\ s \in {"find", "firewall", "relay"} /\ k.to # NoNode =>
                 k.to \in Range(clientList)' /\ Meets(m, k.to, k.packet.dst)
        BY <1>3, <1>4, <4>1 DEF Exact
      <4>6. \A x, d : Meets(m, x, d)' <=> Meets(m, x, d)
        BY <1>1 DEF Meets, SameSubnet
      <4>7. s = "check" => Found(db, user[m]) /\ k.ids = Visible(db, user[m])
        BY <4>1 DEF Exact
      <4>8. s = "relay" => GetAction(FirewallOf(db, SubnetOf(db, user[m])),
                                     k.packet.src, k.packet.dst) = "ALLOW"
        BY <4>1 DEF Exact
      <4>9. \A x : Meets(m, clientList[x], k.packet.dst)'
                   <=> Meets(m, clientList'[x], k.packet.dst)
        BY <1>1 DEF Meets, SameSubnet
      <4> QED
        BY <1>1, <4>3, <4>4, <4>5, <4>6, <4>7, <4>8, <4>9 DEF Exact
    <3>3. Look(m, s, k)'
      BY <1>1, <3>1, <3>2 DEF Look, Known
    <3> QED
      BY <1>1, <1>4, <2>2, <3>3 DEF LookOk
  <2> QED
    BY <2>1, <2>2
<1>6. LocalsTyped' /\ DbOk'
  BY <1>1, <1>2 DEF LookInv, LocalsTyped, TypedJob, DbOk, SubnetsEver
<1>7. MainOk'
  BY <1>1, <1>4 DEF LookInv, MainOk, Starting
<1>8. \A m \in Nodes : NodeOk(m)'
  BY <1>1, <1>4 DEF LookInv, NodeOk
<1>9. RelayStaysInSubnet'
  BY <1>1, SameGot
<1>10. DuplicateNeedsRace'
  BY <1>1, <1>3, <1>4 DEF LookInv, DuplicateNeedsRace
<1> QED
  BY <1>5, <1>6, <1>7, <1>8, <1>9, <1>10 DEF LookInv

LEMMA StartLooks ==
    ASSUME LookInv, Start
    PROVE  LookInv'
<1> PICK n : n = main.node
  OBVIOUS
<1> PICK s : s = IF running THEN "recv" ELSE "end"
  OBVIOUS
<1>1. /\ main.at = "start" /\ pc' = [pc EXCEPT ![n] = s]
      /\ main' = [main EXCEPT !.at = IF running THEN "accept" ELSE "over"]
      /\ UNCHANGED <<db, changes, clientList, job, user, address, got, was, raced>>
  BY DEF Start, mainOthers, history
<1>2. n \in Nodes /\ pc[n] = "listed"
  BY <1>1 DEF LookInv, MainOk, Starting
<1>3. pc'[n] = s /\ \A m \in Nodes \ {n} : pc'[m] = pc[m]
  BY <1>1, <1>2 DEF LookInv, LocalsTyped
<1>4. ASSUME NEW m \in Nodes PROVE LookOk(m)'
  <2>1. CASE m = n
    BY <1>3, <2>1 DEF LookOk, Look, Exact
  <2>2. CASE m # n
    <3> PICK q, k : q = pc[m] /\ k = job[m]
      OBVIOUS
    <3>1. Look(m, q, k)'
      <4>1. Look(m, q, k)
        BY DEF LookInv, LookOk
      <4> QED
        BY <1>1, <4>1, LookSame
    <3> QED
      BY <1>1, <1>3, <2>2, <3>1 DEF LookOk
  <2> QED
    BY <2>1, <2>2
<1>5. LocalsTyped' /\ DbOk' /\ DuplicateNeedsRace'
  BY <1>1 DEF LookInv, LocalsTyped, TypedJob, DbOk, DuplicateNeedsRace, SubnetsEver
<1>6. MainOk'
  BY <1>1 DEF LookInv, MainOk, Starting
<1>7. \A m \in Nodes : NodeOk(m)'
  BY <1>1, <1>2, <1>3 DEF LookInv, NodeOk
<1>8. RelayStaysInSubnet'
  BY <1>1, SameGot
<1> QED
  BY <1>4, <1>5, <1>6, <1>7, <1>8 DEF LookInv

LEMMA StopLooks ==
    ASSUME LookInv, Stop \/ Join \/ Joined \/ \E n \in Nodes : Client(n)
    PROVE  LookInv'
<1>1. UNCHANGED <<db, changes, clientList, pc, job, user, address, got, was, raced>>
  BY DEF Stop, Join, Joined, Client, ReadReply, Leave, mainOthers, threadVars, history
<1>2. CASE Stop
  <2>1. main' = [main EXCEPT !.at = "join", !.i = 1, !.from = main.at]
        /\ main.at \in {"accept", "start"}
    BY <1>2 DEF Stop
  <2>2. MainOk'
    BY <1>1, <2>1 DEF LookInv, MainOk, Starting
  <2> QED
    BY <1>1, <2>2, MainLooks
<1>3. CASE Join
  <2>1. \/ main' = [main EXCEPT !.at = main.from]
        \/ main' = [main EXCEPT !.at = "dead"]
        \/ \E m : main' = [main EXCEPT !.at = "wait", !.target = m]
    BY <1>3 DEF Join
  <2>2. main.at = "join"
    BY <1>3 DEF Join
  <2>3. MainOk'
    BY <1>1, <2>1, <2>2 DEF LookInv, MainOk, Starting
  <2> QED
    BY <1>1, <2>3, MainLooks
<1>4. CASE Joined
  <2>1. main' = [main EXCEPT !.at = "join", !.i = @ + 1] /\ main.at = "wait"
    BY <1>4 DEF Joined
  <2>2. MainOk'
    BY <1>1, <2>1 DEF LookInv, MainOk, Starting
  <2> QED
    BY <1>1, <2>2, MainLooks
<1>5. CASE \E n \in Nodes : Client(n)
  <2>1. UNCHANGED main
    BY <1>5 DEF Client, ReadReply, Leave
  <2>2. MainOk'
    BY <1>1, <2>1 DEF LookInv, MainOk, Starting
  <2> QED
    BY <1>1, <2>2, MainLooks
<1> QED
  BY <1>2, <1>3, <1>4, <1>5

LEMMA LookStep == ASSUME LookInv, [Next]_vars PROVE LookInv'
<1>1. CASE Main \/ WebChange \/ \E n \in Nodes : Client(n)
  BY <1>1, AcceptLooks, StartLooks, StopLooks, WebLooks DEF Main
<1>2. CASE \E n \in Nodes : Step(n)
  BY <1>2, ReceiveLooks, EndLooks, FinishLooks, ReplyLooks, AuthLooks, ScanLooks,
     RescanLooks, NetworksLook, GrantLooks, FindLooks, FirewallLooks, RelayLooks
     DEF Step
<1>3. CASE UNCHANGED vars
  <2>1. UNCHANGED <<db, changes, main, clientList, pc, job, user, address, got,
                    was, raced>>
    BY <1>3 DEF vars, threadVars, history
  <2>2. MainOk'
    BY <2>1 DEF LookInv, MainOk, Starting
  <2> QED
    BY <2>1, <2>2, MainLooks
<1> QED
  BY <1>1, <1>2, <1>3 DEF Next

LEMMA LookAlways == Spec => []LookInv
<1>1. Init => LookInv
  BY NodesAssumption, LookInit
<1>2. LookInv /\ [Next]_vars => LookInv'
  BY LookStep
<1> QED
  BY <1>1, <1>2, PTL DEF Spec

\* What a client is sent comes from a user of a subnet that one of its own
\* users was in, whoever connects, authenticates again, leaves or takes an
\* address between two steps of the look-up for it.
THEOREM SubnetsAreSeparate == Spec => []RelayStaysInSubnet
<1>1. LookInv => RelayStaysInSubnet
  BY DEF LookInv
<1> QED
  BY <1>1, LookAlways, PTL

\* Two connected clients have the same address only after a look-up that was
\* disturbed: check and assignment are apart, and nothing else is wrong.
THEOREM DuplicatesComeFromRaces == Spec => []DuplicateNeedsRace
<1>1. LookInv => DuplicateNeedsRace
  BY DEF LookInv
<1> QED
  BY <1>1, LookAlways, PTL

\* A look-up that nothing disturbed finds the receiver if there is one, and
\* relays to a connected client with the address, in the subnet of the sender,
\* by the rules as they are.
THEOREM LookupsAreExact == Spec => []UndisturbedLookupIsExact
<1>1. ASSUME LookInv PROVE UndisturbedLookupIsExact
  <2> SUFFICES ASSUME NEW n \in Nodes, ~job[n].disturbed
               PROVE  /\ pc[n] = "find" /\ AtEnd(n) /\ job[n].to = NoNode
                         => ~\E m \in Range(clientList) : Reachable(n, m)
                      /\ pc[n] = "relay"
                         => /\ job[n].to \in Range(clientList)
                            /\ Reachable(n, job[n].to)
                            /\ GetAction(FirewallOf(db, SubnetOf(db, user[n])),
                                         Packet(n).src, Packet(n).dst) = "ALLOW"
    BY DEF UndisturbedLookupIsExact
  <2>1. Exact(n, pc[n], job[n]) /\ Look(n, pc[n], job[n])
    BY <1>1 DEF LookInv, LookOk, Look
  <2>2. ASSUME pc[n] = "find", AtEnd(n), job[n].to = NoNode,
               NEW m \in Range(clientList), Reachable(n, m)
        PROVE  FALSE
    <3>1. PICK k \in 1..Len(clientList) : m = clientList[k]
      BY <1>1, InRange
    <3>2. k \in 1..(job[n].i - 1)
      BY <1>1, <2>2, InRange DEF AtEnd, LookInv, LocalsTyped, TypedJob
    <3> QED
      BY <2>1, <2>2, <3>1, <3>2 DEF Exact, Meets, Reachable, Packet
  <2>3. ASSUME pc[n] = "relay"
        PROVE  /\ job[n].to \in Range(clientList) /\ Reachable(n, job[n].to)
               /\ GetAction(FirewallOf(db, SubnetOf(db, user[n])),
                            Packet(n).src, Packet(n).dst) = "ALLOW"
    BY <2>1, <2>3 DEF Exact, Look, Meets, Reachable, Packet
  <2> QED
    BY <2>2, <2>3
<1> QED
  BY <1>1, LookAlways, PTL

\* An address is given only in a network that the client's user can use, unless
\* what was looked up has changed meanwhile.
THEOREM AddressesNeedNetworks == Spec => AddressNeedsNetwork
<1> DEFINE Granted ==
      \A n \in Nodes :
          address'[n] # address[n] /\ ~job[n].disturbed
          => /\ Found(db, user[n])
             /\ \E i \in Visible(db, user[n]) :
                   db.networks[i].prefix = Packet(n).prefix
<1>1. ASSUME LookInv, [Next]_vars PROVE [Granted]_vars
  <2> SUFFICES ASSUME NEW n \in Nodes, address'[n] # address[n],
                      ~job[n].disturbed
               PROVE  /\ Found(db, user[n])
                      /\ \E i \in Visible(db, user[n]) :
                            db.networks[i].prefix = Packet(n).prefix
    OBVIOUS
  <2>1. PICK m \in Nodes : Grant(m)
    BY <1>1, ZenonT(30) DEF Next, Main, Accept, Start, Stop, Join, Joined, mainOthers,
       WebChange, Client, ReadReply, Leave, threadVars, Step, Receive, ReceiveEnd,
       Finish, Reply, ReplyRaises, AuthUnknownUser, AuthFound, VerifyAuth,
       VerifyDeleted, AuthRequest, AuthRequestUnknownUser, authOthers, Scan,
       Rescan, ReadNetworks, Refuse, Find, Firewall, Relay, RelayLost,
       RelayRaises, OnlyMoves, vars
  <2>2. m = n
    BY <1>1, <2>1 DEF Grant, LookInv, LocalsTyped
  <2>3. pc[n] = "check" /\ Matching(n) # {}
    BY <2>1, <2>2 DEF Grant
  <2>4. Found(db, user[n]) /\ job[n].ids = Visible(db, user[n])
    BY <1>1, <2>3 DEF LookInv, LookOk, Look, Exact
  <2>5. PICK i \in Matching(n) : TRUE
    BY <2>3
  <2> QED
    BY <2>4, <2>5 DEF Matching
<1>2. Spec => [][Granted]_vars
  BY <1>1, LookAlways, PTL DEF Spec
<1> QED
  BY <1>2 DEF AddressNeedsNetwork

=============================================================================
