---------------------------- MODULE IcableProofs ----------------------------
(***************************************************************************)
(* Theorems about IcableWeb, for every set of logins, subnets, networks,    *)
(* sessions and browsers, and any number of requests and crashes: the rows  *)
(* of an account end with it, no network is left to nobody, users are shown *)
(* the networks of their subnet, and an edit of a firewall changes the      *)
(* verdicts as its list of rules says.                                     *)
(***************************************************************************)
EXTENDS IcableWeb, SequenceTheorems, FiniteSetTheorems, WellFoundedInduction,
        TLAPS

-----------------------------------------------------------------------------
(* Tables and databases.                                                   *)

IsDb(d) == DOMAIN d = {"users", "sessions", "networks", "members",
                       "firewall", "lastId"}

IsUserRow(row) == DOMAIN row = {"password", "subnet", "perms"}

\* The tables each method of the models writes, and that it leaves the others.
LEMMA InsertUserTables ==
    ASSUME NEW d, IsDb(d), NEW l, NEW p, NEW s
    PROVE  LET e == InsertUser(d, l, p, s)
           IN  /\ IsDb(e)
               /\ e.users = Put(d.users, l, [password |-> p, subnet |-> s, perms |-> {"OWNER"}])
               /\ e.sessions = d.sessions /\ e.networks = d.networks
               /\ e.members = d.members /\ e.lastId = d.lastId
BY DEF IsDb, InsertUser

LEMMA SetPermsTables ==
    ASSUME NEW d, IsDb(d), NEW l, NEW p
    PROVE  LET e == SetPerms(d, l, p)
           IN  /\ IsDb(e)
               /\ DOMAIN e.users = DOMAIN d.users
               /\ \A u \in DOMAIN d.users :
                     IsUserRow(d.users[u]) =>
                        /\ IsUserRow(e.users[u])
                        /\ e.users[u].subnet = d.users[u].subnet
               /\ e.sessions = d.sessions /\ e.networks = d.networks
               /\ e.members = d.members /\ e.lastId = d.lastId
BY DEF IsDb, IsUserRow, SetPerms

LEMMA SetPasswordTables ==
    ASSUME NEW d, IsDb(d), NEW l, NEW p
    PROVE  LET e == SetPassword(d, l, p)
           IN  /\ IsDb(e)
               /\ DOMAIN e.users = DOMAIN d.users
               /\ \A u \in DOMAIN d.users :
                     IsUserRow(d.users[u]) =>
                        /\ IsUserRow(e.users[u])
                        /\ e.users[u].subnet = d.users[u].subnet
               /\ e.sessions = d.sessions /\ e.networks = d.networks
               /\ e.members = d.members /\ e.lastId = d.lastId
BY DEF IsDb, IsUserRow, SetPassword

LEMMA InsertSessionTables ==
    ASSUME NEW d, IsDb(d), NEW s, NEW l
    PROVE  LET e == InsertSession(d, s, l)
           IN  /\ IsDb(e)
               /\ e.sessions = Put(d.sessions, s, l)
               /\ e.users = d.users /\ e.networks = d.networks
               /\ e.members = d.members /\ e.lastId = d.lastId
BY DEF IsDb, InsertSession

LEMMA DeleteSessionTables ==
    ASSUME NEW d, IsDb(d), NEW s
    PROVE  LET e == DeleteSession(d, s)
           IN  /\ IsDb(e)
               /\ e.sessions = Drop(d.sessions, {s})
               /\ e.users = d.users /\ e.networks = d.networks
               /\ e.members = d.members /\ e.lastId = d.lastId
BY DEF IsDb, DeleteSession

LEMMA InsertNetworkTables ==
    ASSUME NEW d, IsDb(d), NEW s, NEW p
    PROVE  LET e == InsertNetwork(d, s, p)
           IN  /\ IsDb(e)
               /\ e.networks = Put(d.networks, d.lastId + 1, [subnet |-> s, prefix |-> p])
               /\ e.lastId = d.lastId + 1
               /\ e.users = d.users /\ e.sessions = d.sessions
               /\ e.members = d.members
BY DEF IsDb, InsertNetwork

LEMMA InsertMemberTables ==
    ASSUME NEW d, IsDb(d), NEW i, NEW l, NEW o
    PROVE  LET e == InsertMember(d, i, l, o)
           IN  /\ IsDb(e)
               /\ e.members = d.members \cup {[net |-> i, login |-> l, owner |-> o]}
               /\ e.users = d.users /\ e.sessions = d.sessions
               /\ e.networks = d.networks /\ e.lastId = d.lastId
BY DEF IsDb, InsertMember

LEMMA SaveFirewallTables ==
    ASSUME NEW d, IsDb(d), NEW s, NEW r
    PROVE  LET e == SaveFirewall(d, s, r)
           IN  /\ IsDb(e)
               /\ e.users = d.users /\ e.sessions = d.sessions
               /\ e.networks = d.networks /\ e.members = d.members
               /\ e.lastId = d.lastId
BY DEF IsDb, SaveFirewall

LEMMA DropNetworksTables ==
    ASSUME NEW d, IsDb(d), NEW ids
    PROVE  LET e == DropNetworks(d, ids)
           IN  /\ IsDb(e)
               /\ e.networks = Drop(d.networks, ids)
               /\ e.members = {m \in d.members : m.net \notin ids}
               /\ e.users = d.users /\ e.sessions = d.sessions
               /\ e.lastId = d.lastId
<1> DEFINE N == Drop(d.networks, ids)
           M == {m \in d.members : m.net \notin ids}
           e == [d EXCEPT !.networks = N, !.members = M]
<1>1. DropNetworks(d, ids) = e
  BY DEF DropNetworks
<1>2. IsDb(e) /\ e.networks = N /\ e.members = M /\ e.users = d.users
      /\ e.sessions = d.sessions /\ e.lastId = d.lastId
  <2> HIDE DEF N, M
  <2> QED
    BY DEF IsDb
<1> QED
  BY <1>1, <1>2

\* The networks that go with the account l: those of a subnet that only l is in.
LeftEmpty(d, l) ==
    {i \in DOMAIN d.networks :
        /\ d.networks[i].subnet = SubnetOf(d, l)
        /\ \A u \in DOMAIN d.users \ {l} : SubnetOf(d, u) # SubnetOf(d, l)}

SessionsOf(d, l) == {s \in DOMAIN d.sessions : d.sessions[s] = l}

\* The memberships that stay when the account l goes.
MembersWithout(d, l) ==
    {m \in d.members : m.login # l /\ m.net \notin LeftEmpty(d, l)}

\* deleteUser removes the account, its sessions and memberships, and the
\* networks that nobody is left for.
WithoutUser(d, l, e) ==
    /\ IsDb(e)
    /\ e.users = Drop(d.users, {l})
    /\ e.sessions = Drop(d.sessions, SessionsOf(d, l))
    /\ DOMAIN e.networks = DOMAIN d.networks \ LeftEmpty(d, l)
    /\ \A i \in DOMAIN e.networks : e.networks[i] = d.networks[i]
    /\ e.members = MembersWithout(d, l)
    /\ e.lastId = d.lastId

LEMMA DeleteUserTables ==
    ASSUME NEW d, IsDb(d), NEW l
    PROVE  WithoutUser(d, l, DeleteUser(d, l))
<1> DEFINE U == Drop(d.users, {l})
           S == Drop(d.sessions, SessionsOf(d, l))
           M == {m \in d.members : m.login # l}
           left == [d EXCEPT !.users = U, !.sessions = S, !.members = M]
           ids == {i \in DOMAIN left.networks : left.networks[i].subnet = SubnetOf(d, l)}
           stay == \E u \in DOMAIN left.users : SubnetOf(left, u) = SubnetOf(d, l)
<1>1. DeleteUser(d, l) = IF stay THEN left ELSE DropNetworks(left, ids)
  BY DEF DeleteUser, SessionsOf
<1>2. /\ IsDb(left) /\ left.users = U /\ left.sessions = S /\ left.members = M
      /\ left.networks = d.networks /\ left.lastId = d.lastId
  <2> HIDE DEF U, S, M
  <2> QED
    BY DEF IsDb
<1>3. stay <=> \E u \in DOMAIN d.users \ {l} : SubnetOf(d, u) = SubnetOf(d, l)
  <2>1. /\ DOMAIN U = DOMAIN d.users \ {l}
        /\ \A u \in DOMAIN d.users \ {l} : U[u] = d.users[u]
    BY DEF Drop
  <2> HIDE DEF left, U
  <2>2. \A u \in DOMAIN d.users \ {l} : SubnetOf(left, u) = SubnetOf(d, u)
    BY <1>2, <2>1 DEF SubnetOf
  <2> QED
    BY <1>2, <2>1, <2>2
<1> HIDE DEF left, stay
<1>4. CASE stay
  <2>1. LeftEmpty(d, l) = {}
    BY <1>3, <1>4 DEF LeftEmpty
  <2>2. M = MembersWithout(d, l)
    BY <2>1 DEF MembersWithout
  <2> QED
    BY <1>1, <1>2, <1>4, <2>1, <2>2 DEF WithoutUser
<1>5. CASE ~stay
  <2>1. ids = LeftEmpty(d, l)
    BY <1>2, <1>3, <1>5 DEF LeftEmpty
  <2> DEFINE e == DropNetworks(left, ids)
  <2>2. /\ IsDb(e) /\ e.networks = Drop(left.networks, ids)
        /\ e.members = {m \in left.members : m.net \notin ids}
        /\ e.users = left.users /\ e.sessions = left.sessions
        /\ e.lastId = left.lastId
    BY <1>2, DropNetworksTables
  <2>3. /\ DOMAIN e.networks = DOMAIN d.networks \ LeftEmpty(d, l)
        /\ \A i \in DOMAIN e.networks : e.networks[i] = d.networks[i]
    <3>1. e.networks = Drop(d.networks, LeftEmpty(d, l))
      BY <1>2, <2>1, <2>2
    <3> HIDE DEF e
    <3> QED
      BY <3>1 DEF Drop
  <2>4. e.members = MembersWithout(d, l)
    BY <1>2, <2>1, <2>2 DEF MembersWithout
  <2>5. DeleteUser(d, l) = e
    BY <1>1, <1>5
  <2> HIDE DEF e
  <2> QED
    BY <1>2, <2>2, <2>3, <2>4, <2>5 DEF WithoutUser
<1> QED
  BY <1>4, <1>5

-----------------------------------------------------------------------------
(* The invariant.                                                          *)

\* The references between the tables hold: sessions and memberships name
\* accounts, memberships name networks, a network's subnet is somebody's, and
\* no id above lastId is in use.
Linked(d) ==
    /\ IsDb(d)
    /\ DOMAIN d.users \subseteq Logins
    /\ \A u \in DOMAIN d.users : IsUserRow(d.users[u])
    /\ d.lastId \in Nat
    /\ \A i \in DOMAIN d.networks : i \in Nat /\ i <= d.lastId
    /\ \A s \in DOMAIN d.sessions : d.sessions[s] \in DOMAIN d.users
    /\ \A m \in d.members : m.net \in DOMAIN d.networks /\ m.login \in DOMAIN d.users
    /\ \A i \in DOMAIN d.networks :
          \E u \in DOMAIN d.users : d.users[u].subnet = d.networks[i].subnet

\* What the history says of the rows.
Owned ==
    /\ accounts \in [Logins -> Nat]
    /\ DOMAIN db.sessions \subseteq DOMAIN openedBy
    /\ \A m \in db.members : m.net \in DOMAIN madeBy
    /\ RowsOfItsAccount

\* What a request has still to do is for an account that is there, and the
\* network it has to enter a membership of is that account's and the last one.
Unfinished ==
    /\ at.step = "session" => at.login \in DOMAIN db.users
    /\ at.step = "member" =>
          /\ at.login \in DOMAIN db.users
          /\ db.lastId \in DOMAIN db.networks \cap DOMAIN madeBy
          /\ madeBy[db.lastId] = Account(at.login)

Inv == Linked(db) /\ Owned /\ Unfinished

-----------------------------------------------------------------------------
(* The methods of the models keep the references.                          *)

LEMMA InsertUserLinked ==
    ASSUME NEW d, Linked(d), NEW l \in Logins, l \notin DOMAIN d.users, NEW p, NEW s
    PROVE  Linked(InsertUser(d, l, p, s))
<1> DEFINE row == [password |-> p, subnet |-> s, perms |-> {"OWNER"}]
           e == InsertUser(d, l, p, s)
<1>1. /\ IsDb(e) /\ e.users = Put(d.users, l, row)
      /\ e.sessions = d.sessions /\ e.networks = d.networks
      /\ e.members = d.members /\ e.lastId = d.lastId
  BY InsertUserTables DEF Linked
<1>2. IsUserRow(row)
  BY DEF IsUserRow
<1> HIDE DEF e, row
<1>3. /\ DOMAIN e.users = DOMAIN d.users \cup {l}
      /\ e.users[l] = row
      /\ \A u \in DOMAIN d.users : e.users[u] = d.users[u]
  BY <1>1 DEF Put
<1>4. \A i \in DOMAIN e.networks :
         \E u \in DOMAIN e.users : e.users[u].subnet = e.networks[i].subnet
  BY <1>1, <1>3 DEF Linked
<1>5. \A u \in DOMAIN e.users : IsUserRow(e.users[u])
  BY <1>2, <1>3 DEF Linked, SessionsOf
<1>6. Linked(e)
  BY <1>1, <1>3, <1>4, <1>5 DEF Linked
<1> QED
  BY <1>6 DEF e

LEMMA SetPermsLinked ==
    ASSUME NEW d, Linked(d), NEW l, NEW p
    PROVE  Linked(SetPerms(d, l, p))
<1> DEFINE e == SetPerms(d, l, p)
<1>1. /\ IsDb(e)
      /\ DOMAIN e.users = DOMAIN d.users
      /\ \A u \in DOMAIN d.users : /\ IsUserRow(e.users[u])
                                   /\ e.users[u].subnet = d.users[u].subnet
      /\ e.sessions = d.sessions /\ e.networks = d.networks
      /\ e.members = d.members /\ e.lastId = d.lastId
  BY SetPermsTables DEF Linked
<1> HIDE DEF e
<1>2. Linked(e)
  BY <1>1 DEF Linked
<1> QED
  BY <1>2 DEF e

LEMMA SetPasswordLinked ==
    ASSUME NEW d, Linked(d), NEW l, NEW p
    PROVE  Linked(SetPassword(d, l, p))
<1> DEFINE e == SetPassword(d, l, p)
<1>1. /\ IsDb(e)
      /\ DOMAIN e.users = DOMAIN d.users
      /\ \A u \in DOMAIN d.users : /\ IsUserRow(e.users[u])
                                   /\ e.users[u].subnet = d.users[u].subnet
      /\ e.sessions = d.sessions /\ e.networks = d.networks
      /\ e.members = d.members /\ e.lastId = d.lastId
  BY SetPasswordTables DEF Linked
<1> HIDE DEF e
<1>2. Linked(e)
  BY <1>1 DEF Linked
<1> QED
  BY <1>2 DEF e

LEMMA InsertSessionLinked ==
    ASSUME NEW d, Linked(d), NEW s, NEW l \in DOMAIN d.users
    PROVE  Linked(InsertSession(d, s, l))
<1> DEFINE e == InsertSession(d, s, l)
<1>1. /\ IsDb(e) /\ e.sessions = Put(d.sessions, s, l)
      /\ e.users = d.users /\ e.networks = d.networks
      /\ e.members = d.members /\ e.lastId = d.lastId
  BY InsertSessionTables DEF Linked
<1> HIDE DEF e
<1>2. \A x \in DOMAIN e.sessions : e.sessions[x] \in DOMAIN e.users
  BY <1>1 DEF Linked, Put
<1>3. Linked(e)
  BY <1>1, <1>2 DEF Linked, MembersWithout
<1> QED
  BY <1>3 DEF e

LEMMA DeleteSessionLinked ==
    ASSUME NEW d, Linked(d), NEW s
    PROVE  Linked(DeleteSession(d, s))
<1> DEFINE e == DeleteSession(d, s)
<1>1. /\ IsDb(e) /\ e.sessions = Drop(d.sessions, {s})
      /\ e.users = d.users /\ e.networks = d.networks
      /\ e.members = d.members /\ e.lastId = d.lastId
  BY DeleteSessionTables DEF Linked
<1> HIDE DEF e
<1>2. \A x \in DOMAIN e.sessions : e.sessions[x] \in DOMAIN e.users
  BY <1>1 DEF Linked, Drop
<1>3. Linked(e)
  BY <1>1, <1>2 DEF Linked, MembersWithout
<1> QED
  BY <1>3 DEF e

\* The subnet is a user's: createNetwork is called with the caller's.
LEMMA InsertNetworkLinked ==
    ASSUME NEW d, Linked(d), NEW l \in DOMAIN d.users, NEW p
    PROVE  Linked(InsertNetwork(d, SubnetOf(d, l), p))
<1> DEFINE row == [subnet |-> SubnetOf(d, l), prefix |-> p]
           e == InsertNetwork(d, SubnetOf(d, l), p)
<1>1. /\ IsDb(e) /\ e.networks = Put(d.networks, d.lastId + 1, row)
      /\ e.lastId = d.lastId + 1
      /\ e.users = d.users /\ e.sessions = d.sessions /\ e.members = d.members
  BY InsertNetworkTables DEF Linked
<1>2. row.subnet = d.users[l].subnet
  BY DEF SubnetOf
<1> HIDE DEF e, row
<1>3. /\ DOMAIN e.networks = DOMAIN d.networks \cup {d.lastId + 1}
      /\ e.networks[d.lastId + 1] = row
      /\ \A i \in DOMAIN d.networks : e.networks[i] = d.networks[i]
  BY <1>1 DEF Linked, Put
<1>4. Linked(e)
  BY <1>1, <1>2, <1>3 DEF Linked
<1> QED
  BY <1>4 DEF e

LEMMA InsertMemberLinked ==
    ASSUME NEW d, Linked(d), NEW i \in DOMAIN d.networks,
           NEW l \in DOMAIN d.users, NEW o
    PROVE  Linked(InsertMember(d, i, l, o))
BY InsertMemberTables DEF Linked

LEMMA SaveFirewallLinked ==
    ASSUME NEW d, Linked(d), NEW s, NEW r
    PROVE  Linked(SaveFirewall(d, s, r))
BY SaveFirewallTables DEF Linked

LEMMA DeleteNetworkLinked ==
    ASSUME NEW d, Linked(d), NEW i
    PROVE  Linked(DeleteNetwork(d, i))
<1> DEFINE e == DropNetworks(d, {i})
<1>1. /\ IsDb(e) /\ e.networks = Drop(d.networks, {i})
      /\ e.members = {m \in d.members : m.net \notin {i}}
      /\ e.users = d.users /\ e.sessions = d.sessions /\ e.lastId = d.lastId
  BY DropNetworksTables DEF Linked
<1> HIDE DEF e
<1>2. Linked(e)
  BY <1>1 DEF Linked, Drop
<1> QED
  BY <1>2 DEF e, DeleteNetwork

\* A network whose subnet the account alone was in goes with it, so each that
\* stays has another user.
LEMMA DeleteUserLinked ==
    ASSUME NEW d, Linked(d), NEW l
    PROVE  Linked(DeleteUser(d, l))
<1> DEFINE e == DeleteUser(d, l)
<1>0. WithoutUser(d, l, e)
  BY DeleteUserTables DEF Linked
<1> HIDE DEF e
<1>1. /\ IsDb(e)
      /\ e.users = Drop(d.users, {l}) /\ e.sessions = Drop(d.sessions, SessionsOf(d, l))
      /\ DOMAIN e.networks = DOMAIN d.networks \ LeftEmpty(d, l)
      /\ \A i \in DOMAIN e.networks : e.networks[i] = d.networks[i]
      /\ e.members = MembersWithout(d, l)
      /\ e.lastId = d.lastId
  BY <1>0 DEF WithoutUser
<1>2. /\ DOMAIN e.users = DOMAIN d.users \ {l}
      /\ \A u \in DOMAIN e.users : e.users[u] = d.users[u]
  BY <1>1 DEF Drop
<1>3. /\ DOMAIN e.sessions = DOMAIN d.sessions \ SessionsOf(d, l)
      /\ \A s \in DOMAIN e.sessions : e.sessions[s] = d.sessions[s]
  BY <1>1 DEF Drop
<1>4. \A i \in DOMAIN e.networks :
         \E u \in DOMAIN e.users : e.users[u].subnet = e.networks[i].subnet
  BY <1>1, <1>2, ZenonT(30) DEF Linked, LeftEmpty, SubnetOf
<1>5. \A m \in e.members : m.net \in DOMAIN e.networks /\ m.login \in DOMAIN e.users
  BY <1>1, <1>2 DEF Linked, MembersWithout
<1>6. \A s \in DOMAIN e.sessions : e.sessions[s] \in DOMAIN e.users
  BY <1>2, <1>3 DEF Linked, SessionsOf
<1>7. Linked(e)
  BY <1>1, <1>2, <1>4, <1>5, <1>6 DEF Linked
<1> QED
  BY <1>7 DEF e

-----------------------------------------------------------------------------
(* The actions keep the invariant.                                         *)

\* A step that adds no account, session or membership, and removes some.
LEMMA FewerRows ==
    ASSUME Owned, UNCHANGED <<accounts, openedBy, madeBy>>,
           DOMAIN db'.sessions \subseteq DOMAIN db.sessions,
           \A s \in DOMAIN db'.sessions : db'.sessions[s] = db.sessions[s],
           db'.members \subseteq db.members
    PROVE  Owned'
BY DEF Owned, RowsOfItsAccount, Account

\* Nothing is left to do.
LEMMA NothingLeft ==
    ASSUME at.step' \notin {"session", "member"}
    PROVE  Unfinished'
BY DEF Unfinished

LEMMA InitInv == Init => Inv
<1> SUFFICES ASSUME Init PROVE Inv
  OBVIOUS
<1>1. /\ IsDb(db) /\ DOMAIN db.users = {} /\ DOMAIN db.sessions = {}
      /\ DOMAIN db.networks = {} /\ db.members = {} /\ db.lastId = 0
  BY DEF Init, EmptyDb, IsDb
<1>2. Linked(db)
  BY <1>1 DEF Linked
<1>3. Owned
  BY <1>1 DEF Init, Owned, RowsOfItsAccount
<1>4. Unfinished
  BY DEF Init, Idle, Unfinished
<1> QED
  BY <1>2, <1>3, <1>4 DEF Inv

\* A new account has no rows yet, as its login was nobody's.
LEMMA NewAccountKeeps ==
    ASSUME Inv, NEW l \in Logins, l \notin DOMAIN db.users,
           NEW p, NEW s, NewAccount(l, p, s)
    PROVE  /\ Linked(db)' /\ Owned'
           /\ l \in DOMAIN db'.users
<1>1. Linked(db)'
  BY InsertUserLinked DEF Inv, NewAccount
<1>2. /\ db'.users = Put(db.users, l, [password |-> p, subnet |-> s, perms |-> {"OWNER"}])
      /\ db'.sessions = db.sessions /\ db'.members = db.members
  BY InsertUserTables DEF Inv, Linked, NewAccount
<1>3. /\ \A x \in DOMAIN db.sessions : db.sessions[x] # l
      /\ \A m \in db.members : m.login # l /\ m.login \in Logins
      /\ \A x \in DOMAIN db.sessions : db.sessions[x] \in Logins
  BY DEF Inv, Linked
<1>4. /\ accounts' \in [Logins -> Nat]
      /\ \A k \in Logins \ {l} : accounts'[k] = accounts[k]
      /\ UNCHANGED <<openedBy, madeBy>>
  BY DEF Inv, Owned, NewAccount
<1>5. Owned'
  BY <1>2, <1>3, <1>4 DEF Inv, Owned, RowsOfItsAccount, Account
<1>6. l \in DOMAIN db'.users
  BY <1>2 DEF Put
<1> QED
  BY <1>1, <1>5, <1>6

\* A session is opened for an account that is there, or refused.
LEMMA OpenSessionKeeps ==
    ASSUME Inv, NEW b, NEW l \in DOMAIN db.users, OpenSession(b, l)
    PROVE  Linked(db)' /\ Owned'
<1>1. CASE UNCHANGED <<db, cookie, history>>
  BY <1>1 DEF history, Inv, Owned, RowsOfItsAccount, Account
<1>2. CASE \E sid \in Sids :
             /\ ~SessionTaken(db, sid)
             /\ db' = InsertSession(db, sid, l)
             /\ openedBy' = Put(openedBy, sid, Account(l))
             /\ UNCHANGED <<accounts, madeBy>>
  <2> PICK sid \in Sids : /\ ~SessionTaken(db, sid)
                          /\ db' = InsertSession(db, sid, l)
                          /\ openedBy' = Put(openedBy, sid, Account(l))
                          /\ UNCHANGED <<accounts, madeBy>>
    BY <1>2
  <2>1. Linked(db)'
    BY InsertSessionLinked DEF Inv
  <2>2. /\ db'.sessions = Put(db.sessions, sid, l)
        /\ db'.members = db.members
    BY InsertSessionTables DEF Inv, Linked
  <2>3. /\ DOMAIN db'.sessions = DOMAIN db.sessions \cup {sid}
        /\ db'.sessions[sid] = l
        /\ \A x \in DOMAIN db.sessions : db'.sessions[x] = db.sessions[x]
    BY <2>2 DEF Put, SessionTaken
  <2>4. /\ DOMAIN openedBy' = DOMAIN openedBy \cup {sid}
        /\ openedBy'[sid] = Account(l)
        /\ \A x \in DOMAIN db.sessions : openedBy'[x] = openedBy[x]
    BY DEF Put, SessionTaken, Inv, Owned
  <2>5. Owned'
    <3>1. /\ accounts' \in [Logins -> Nat]
          /\ DOMAIN db'.sessions \subseteq DOMAIN openedBy'
          /\ \A m \in db'.members : m.net \in DOMAIN madeBy'
      BY <2>2, <2>3, <2>4 DEF Inv, Owned
    <3>2. \A x \in DOMAIN db'.sessions :
             openedBy'[x] = <<db'.sessions[x], accounts[db'.sessions[x]]>>
      BY <2>3, <2>4 DEF Inv, Owned, RowsOfItsAccount, Account
    <3>3. \A m \in db'.members : madeBy'[m.net] = <<m.login, accounts[m.login]>>
      BY <2>2 DEF Inv, Owned, RowsOfItsAccount, Account
    <3> QED
      BY <3>1, <3>2, <3>3 DEF Owned, RowsOfItsAccount, Account
  <2> QED
    BY <2>1, <2>5
<1> QED
  BY <1>1, <1>2 DEF OpenSession

LEMMA BootKeeps ==
    ASSUME WebAssumption, Inv, BootAdmin \/ BootPerms \/ BootAgain
    PROVE  Inv'
<1>1. CASE BootAdmin
  <2>1. /\ Admin \in Logins /\ Admin \notin DOMAIN db.users
        /\ \E s \in Subnets : NewAccount(Admin, AdminPassword, s)
    BY <1>1 DEF WebAssumption, BootAdmin
  <2>2. Linked(db)' /\ Owned'
    BY <2>1, NewAccountKeeps
  <2>3. Unfinished'
    BY <1>1, NothingLeft DEF BootAdmin, Idle
  <2> QED
    BY <2>2, <2>3 DEF Inv
<1>2. CASE BootPerms
  <2>1. Linked(db)'
    BY <1>2, SetPermsLinked DEF Inv, BootPerms
  <2>2. db'.sessions = db.sessions /\ db'.members = db.members
    BY <1>2, SetPermsTables DEF Inv, Linked, BootPerms
  <2>3. Owned'
    BY <1>2, <2>2, FewerRows DEF Inv, BootPerms, history
  <2>4. Unfinished'
    BY <1>2, NothingLeft DEF BootPerms, Idle
  <2> QED
    BY <2>1, <2>3, <2>4 DEF Inv
<1>3. CASE BootAgain
  <2>1. Unfinished'
    BY <1>3, NothingLeft DEF BootAgain, Idle
  <2>2. Linked(db)' /\ Owned'
    BY <1>3, FewerRows DEF Inv, BootAgain, history
  <2> QED
    BY <2>1, <2>2 DEF Inv
<1> QED
  BY <1>1, <1>2, <1>3

LEMMA LoginKeeps ==
    ASSUME Inv, NEW b, NEW l \in Logins, NEW p, PostLogin(b, l, p)
    PROVE  Inv'
<1>1. l \in DOMAIN db.users /\ OpenSession(b, l)
  BY DEF PostLogin, Found
<1>2. Linked(db)' /\ Owned'
  BY <1>1, OpenSessionKeeps
<1>3. Unfinished'
  BY NothingLeft DEF PostLogin, Request
<1> QED
  BY <1>2, <1>3 DEF Inv

LEMMA LogoutKeeps ==
    ASSUME Inv, NEW b, PostLogout(b)
    PROVE  Inv'
<1>1. Linked(db)'
  BY DeleteSessionLinked DEF Inv, PostLogout
<1>2. /\ db'.sessions = Drop(db.sessions, {cookie[b]})
      /\ db'.members = db.members
  BY DeleteSessionTables DEF Inv, Linked, PostLogout
<1>3. Owned'
  BY <1>2, FewerRows DEF Inv, PostLogout, history, Drop
<1>4. Unfinished'
  BY NothingLeft DEF PostLogout, Request
<1> QED
  BY <1>1, <1>3, <1>4 DEF Inv

LEMMA SignupKeeps ==
    ASSUME Inv, NEW b, NEW l \in Logins, NEW p, PostSignup(b, l, p)
    PROVE  Inv'
<1>1. /\ l \notin DOMAIN db.users
      /\ \E s \in Subnets : NewAccount(l, p, s)
  BY DEF PostSignup, Found
<1>2. Linked(db)' /\ Owned' /\ l \in DOMAIN db'.users
  BY <1>1, NewAccountKeeps
<1>3. Unfinished'
  BY <1>2 DEF PostSignup, Unfinished
<1> QED
  BY <1>2, <1>3 DEF Inv

LEMMA SignupSessionKeeps ==
    ASSUME Inv, SignupSession
    PROVE  Inv'
<1>1. at.login \in DOMAIN db.users /\ OpenSession(at.browser, at.login)
  BY DEF SignupSession, Inv, Unfinished
<1>2. Linked(db)' /\ Owned'
  BY <1>1, OpenSessionKeeps
<1>3. Unfinished'
  BY NothingLeft DEF SignupSession, Idle
<1> QED
  BY <1>2, <1>3 DEF Inv

\* The id of the new network was never given before, so no membership names it.
LEMMA NetworkNewKeeps ==
    ASSUME Inv, NEW b, NEW c, PostNetworkNew(b, c)
    PROVE  Inv'
<1> DEFINE l == UserOf(b)
<1>1. l \in DOMAIN db.users
  BY DEF PostNetworkNew, LoggedIn, SessionTaken, UserOf, Inv, Linked
<1>2. Linked(db)'
  BY <1>1, InsertNetworkLinked DEF Inv, PostNetworkNew
<1>3. /\ db'.networks = Put(db.networks, db.lastId + 1,
                            [subnet |-> SubnetOf(db, l), prefix |-> c])
      /\ db'.lastId = db.lastId + 1
      /\ db'.users = db.users
      /\ db'.sessions = db.sessions /\ db'.members = db.members
  BY InsertNetworkTables DEF Inv, Linked, PostNetworkNew
<1>4. /\ madeBy' = Put(madeBy, db.lastId + 1, Account(l))
      /\ UNCHANGED <<accounts, openedBy>>
      /\ at' = [step |-> "member", browser |-> b, login |-> l]
  BY DEF PostNetworkNew
<1>5. \A m \in db.members : m.net # db.lastId + 1
  BY DEF Inv, Linked
<1> HIDE DEF l
<1>6. Owned'
  BY <1>3, <1>4, <1>5 DEF Inv, Owned, RowsOfItsAccount, Account, Put
<1>7. Unfinished'
  BY <1>1, <1>3, <1>4 DEF Unfinished, Account, Put
<1> QED
  BY <1>2, <1>6, <1>7 DEF Inv

LEMMA NetworkMemberKeeps ==
    ASSUME Inv, NetworkMember
    PROVE  Inv'
<1>1. /\ at.login \in DOMAIN db.users
      /\ db.lastId \in DOMAIN db.networks \cap DOMAIN madeBy
      /\ madeBy[db.lastId] = Account(at.login)
  BY DEF NetworkMember, Inv, Unfinished
<1>2. Linked(db)'
  BY <1>1, InsertMemberLinked DEF Inv, NetworkMember
<1> DEFINE row == [net |-> db.lastId, login |-> at.login, owner |-> TRUE]
<1>3. db'.members = db.members \cup {row} /\ db'.sessions = db.sessions
  <2>1. IsDb(db) /\ db' = InsertMember(db, db.lastId, at.login, TRUE)
    BY DEF Inv, Linked, NetworkMember
  <2> QED
    BY <2>1 DEF IsDb, InsertMember
<1>4. Owned'
  <2>1. row.net = db.lastId /\ row.login = at.login
    OBVIOUS
  <2> HIDE DEF row
  <2> QED
    BY <1>1, <1>3, <2>1
       DEF Inv, NetworkMember, history, Owned, RowsOfItsAccount, Account
<1>5. Unfinished'
  BY NothingLeft DEF NetworkMember, Idle
<1> QED
  BY <1>2, <1>4, <1>5 DEF Inv

LEMMA NetworkDeleteKeeps ==
    ASSUME Inv, NEW i, PostNetworkDelete(i)
    PROVE  Inv'
<1>1. Linked(db)'
  BY DeleteNetworkLinked DEF Inv, PostNetworkDelete
<1>2. /\ db'.sessions = db.sessions
      /\ db'.members = {m \in db.members : m.net \notin {i}}
  BY DropNetworksTables DEF Inv, Linked, PostNetworkDelete, DeleteNetwork
<1>3. Owned'
  BY <1>2, FewerRows DEF Inv, PostNetworkDelete, history
<1>4. Unfinished'
  BY NothingLeft DEF PostNetworkDelete, Request
<1> QED
  BY <1>1, <1>3, <1>4 DEF Inv

LEMMA RulesKeep ==
    ASSUME Inv, NEW b, NEW rule, PostRuleNew(b, rule) \/ PostRuleDelete(b, rule)
    PROVE  Inv'
<1>1. PICK rules : SaveRules(b, rules)
  BY DEF PostRuleNew, PostRuleDelete
<1>2. Linked(db)'
  BY <1>1, SaveFirewallLinked DEF Inv, SaveRules
<1>3. db'.sessions = db.sessions /\ db'.members = db.members
  BY <1>1, SaveFirewallTables DEF Inv, Linked, SaveRules
<1>4. Owned'
  BY <1>1, <1>3, FewerRows DEF Inv, SaveRules, history
<1>5. Unfinished'
  BY <1>1, NothingLeft DEF PostRuleNew, PostRuleDelete, SaveRules, Request
<1> QED
  BY <1>2, <1>4, <1>5 DEF Inv

LEMMA PasswordKeeps ==
    ASSUME Inv, NEW b, NEW p, NEW q, PostPassword(b, p, q)
    PROVE  Inv'
<1>1. Linked(db)'
  BY SetPasswordLinked DEF Inv, PostPassword
<1>2. db'.sessions = db.sessions /\ db'.members = db.members
  BY SetPasswordTables DEF Inv, Linked, PostPassword
<1>3. Owned'
  BY <1>2, FewerRows DEF Inv, PostPassword, history
<1>4. Unfinished'
  BY NothingLeft DEF PostPassword, Request
<1> QED
  BY <1>1, <1>3, <1>4 DEF Inv

LEMMA UserDeleteKeeps ==
    ASSUME Inv, NEW b, PostUserDelete(b)
    PROVE  Inv'
<1>1. Linked(db)'
  BY DeleteUserLinked DEF Inv, PostUserDelete
<1>2. /\ db'.sessions = Drop(db.sessions, SessionsOf(db, UserOf(b)))
      /\ db'.members = MembersWithout(db, UserOf(b))
  <2>1. IsDb(db) /\ db' = DeleteUser(db, UserOf(b))
    BY DEF Inv, Linked, PostUserDelete
  <2>2. WithoutUser(db, UserOf(b), db')
    BY <2>1, DeleteUserTables
  <2> QED
    BY <2>2 DEF WithoutUser
<1>3. /\ DOMAIN db'.sessions \subseteq DOMAIN db.sessions
      /\ \A s \in DOMAIN db'.sessions : db'.sessions[s] = db.sessions[s]
      /\ db'.members \subseteq db.members
  BY <1>2 DEF Drop, MembersWithout
<1>4. Owned'
  BY <1>3, FewerRows DEF Inv, PostUserDelete
<1>5. Unfinished'
  BY NothingLeft DEF PostUserDelete, Request
<1> QED
  BY <1>1, <1>4, <1>5 DEF Inv

\* A crash loses what was left to do, and nothing that was committed.
LEMMA CrashKeeps ==
    ASSUME Inv, Crash
    PROVE  Inv'
<1>1. Unfinished'
  BY NothingLeft DEF Crash, Idle
<1>2. Linked(db)' /\ Owned'
  BY FewerRows DEF Inv, Crash
<1> QED
  BY <1>1, <1>2 DEF Inv

LEMMA StutterKeeps == ASSUME Inv, UNCHANGED vars PROVE Inv'
BY DEF Inv, vars, Linked, Owned, RowsOfItsAccount, Account, Unfinished

LEMMA StepInv == ASSUME WebAssumption, Inv, [Next]_vars PROVE Inv'
<1>1. CASE BootAdmin \/ BootPerms \/ BootAgain
  BY <1>1, BootKeeps
<1>2. CASE \E b \in Browsers, l \in Logins, p \in Passwords : PostLogin(b, l, p)
  BY <1>2, LoginKeeps
<1>3. CASE \E b \in Browsers, l \in Logins, p \in Passwords : PostSignup(b, l, p)
  BY <1>3, SignupKeeps
<1>4. CASE \E b \in Browsers : PostLogout(b)
  BY <1>4, LogoutKeeps
<1>5. CASE \E b \in Browsers : PostUserDelete(b)
  BY <1>5, UserDeleteKeeps
<1>6. CASE \E b \in Browsers, c \in Cidrs : PostNetworkNew(b, c)
  BY <1>6, NetworkNewKeeps
<1>7. CASE \E b \in Browsers, rule \in Rules :
              PostRuleNew(b, rule) \/ PostRuleDelete(b, rule)
  BY <1>7, RulesKeep
<1>8. CASE \E b \in Browsers, p, q \in Passwords : PostPassword(b, p, q)
  BY <1>8, PasswordKeeps
<1>9. CASE \E id \in DOMAIN db.networks : PostNetworkDelete(id)
  BY <1>9, NetworkDeleteKeeps
<1>10. CASE SignupSession
  BY <1>10, SignupSessionKeeps
<1>11. CASE NetworkMember
  BY <1>11, NetworkMemberKeeps
<1>12. CASE Crash
  BY <1>12, CrashKeeps
<1>13. CASE UNCHANGED vars
  BY <1>13, StutterKeeps
<1> QED
  BY <1>1, <1>2, <1>3, <1>4, <1>5, <1>6, <1>7, <1>8, <1>9, <1>10, <1>11,
     <1>12, <1>13 DEF Next

\* The invariant holds in every state of every run.
LEMMA Invariance == Spec => []Inv
<1>1. Init => Inv
  BY InitInv
<1>2. Inv /\ [Next]_vars => Inv'
  BY WebAssumption, StepInv
<1> QED
  BY <1>1, <1>2, PTL DEF Spec

-----------------------------------------------------------------------------
(* Whose networks a user is shown.                                         *)

\* A membership is of the subnet of its user; a network has one, but for the one
\* being made, unless a crash or a departure has taken it.
Listed ==
    /\ \A m \in db.members : db.networks[m.net].subnet = db.users[m.login].subnet
    /\ at.step = "member" =>
          db.networks[db.lastId].subnet = db.users[at.login].subnet
    /\ calm \in BOOLEAN
    /\ calm => \A i \in DOMAIN db.networks :
                  \/ at.step = "member" /\ i = db.lastId
                  \/ \E m \in db.members : m.net = i

LEMMA InitListed == Init => Listed
<1> SUFFICES ASSUME Init PROVE Listed
  OBVIOUS
<1>1. DOMAIN db.networks = {} /\ db.members = {}
  BY DEF Init, EmptyDb
<1>2. at.step = "boot" /\ calm = TRUE
  BY DEF Init, Idle
<1> QED
  BY <1>1, <1>2 DEF Listed

\* A step that is not about networks, and moves no user to another subnet.
LEMMA SameNetworks ==
    ASSUME Inv, Listed, at.step # "member", at.step' # "member",
           db'.networks = db.networks, db'.members = db.members, calm' = calm,
           \A u \in DOMAIN db.users : db'.users[u].subnet = db.users[u].subnet
    PROVE  Listed'
<1>1. \A m \in db.members : m.login \in DOMAIN db.users
  BY DEF Inv, Linked
<1> QED
  BY <1>1 DEF Listed

LEMMA NewAccountListed ==
    ASSUME Inv, Listed, at.step # "member", at.step' # "member",
           NEW l, l \notin DOMAIN db.users, NEW p, NEW s, NewAccount(l, p, s)
    PROVE  Listed'
<1> DEFINE row == [password |-> p, subnet |-> s, perms |-> {"OWNER"}]
<1>1. /\ db'.users = Put(db.users, l, row)
      /\ db'.networks = db.networks /\ db'.members = db.members
      /\ calm' = calm
  BY InsertUserTables DEF Inv, Linked, NewAccount
<1> HIDE DEF row
<1>2. \A u \in DOMAIN db.users : db'.users[u] = db.users[u]
  BY <1>1 DEF Put
<1> QED
  BY <1>1, <1>2, SameNetworks

LEMMA OpenSessionListed ==
    ASSUME Inv, Listed, at.step # "member", at.step' # "member",
           NEW b, NEW l, OpenSession(b, l)
    PROVE  Listed'
<1>1. CASE UNCHANGED <<db, cookie, history>>
  BY <1>1, SameNetworks DEF history
<1>2. CASE \E sid \in Sids :
             /\ db' = InsertSession(db, sid, l)
             /\ calm' = calm
  <2> PICK sid \in Sids : db' = InsertSession(db, sid, l) /\ calm' = calm
    BY <1>2
  <2>1. /\ db'.users = db.users
        /\ db'.networks = db.networks /\ db'.members = db.members
    BY InsertSessionTables DEF Inv, Linked
  <2> QED
    BY <2>1, SameNetworks
<1> QED
  BY <1>1, <1>2 DEF OpenSession

LEMMA BootListed ==
    ASSUME Inv, Listed, BootAdmin \/ BootPerms \/ BootAgain
    PROVE  Listed'
<1>0. at.step # "member" /\ at.step' # "member"
  BY DEF BootAdmin, BootPerms, BootAgain, Idle
<1>1. CASE BootAdmin
  <2>1. /\ Admin \notin DOMAIN db.users
        /\ \E s \in Subnets : NewAccount(Admin, AdminPassword, s)
    BY <1>1 DEF BootAdmin
  <2> QED
    BY <1>0, <2>1, NewAccountListed
<1>2. CASE BootPerms
  <2>1. /\ db'.networks = db.networks /\ db'.members = db.members
        /\ \A u \in DOMAIN db.users : db'.users[u].subnet = db.users[u].subnet
    BY <1>2, SetPermsTables DEF Inv, Linked, BootPerms
  <2> QED
    BY <1>0, <1>2, <2>1, SameNetworks DEF BootPerms, history
<1>3. CASE BootAgain
  BY <1>0, <1>3, SameNetworks DEF BootAgain, history
<1> QED
  BY <1>1, <1>2, <1>3

LEMMA NetworkNewListed ==
    ASSUME Inv, Listed, NEW b, NEW c, PostNetworkNew(b, c)
    PROVE  Listed'
<1> DEFINE l == UserOf(b)
           row == [subnet |-> SubnetOf(db, l), prefix |-> c]
           n == db.lastId + 1
<1>1. /\ db'.networks = Put(db.networks, n, row)
      /\ db'.lastId = n /\ db'.users = db.users /\ db'.members = db.members
  BY InsertNetworkTables DEF Inv, Linked, PostNetworkNew
<1>2. /\ at.step = "serve" /\ at'.step = "member" /\ at'.login = l
      /\ calm' = calm
  BY DEF PostNetworkNew, Request
<1>3. /\ n \notin DOMAIN db.networks
      /\ \A m \in db.members : m.net \in DOMAIN db.networks
  BY DEF Inv, Linked
<1>4. row.subnet = db.users[l].subnet
  BY DEF SubnetOf
<1> HIDE DEF l, row, n
<1>5. /\ DOMAIN db'.networks = DOMAIN db.networks \cup {n}
      /\ db'.networks[n] = row
      /\ \A i \in DOMAIN db.networks : db'.networks[i] = db.networks[i]
  BY <1>1, <1>3 DEF Put
<1>6. \A m \in db'.members : db'.networks[m.net].subnet = db'.users[m.login].subnet
  BY <1>1, <1>3, <1>5 DEF Listed
<1>7. at.step' = "member" =>
          db'.networks[db'.lastId].subnet = db'.users[at.login'].subnet
  BY <1>1, <1>2, <1>4, <1>5
<1>8. calm' \in BOOLEAN
  BY <1>2 DEF Listed
<1>9. calm' => \A i \in DOMAIN db'.networks :
                  \/ at'.step = "member" /\ i = db'.lastId
                  \/ \E m \in db'.members : m.net = i
  BY <1>1, <1>2, <1>5 DEF Listed
<1> QED
  BY <1>6, <1>7, <1>8, <1>9 DEF Listed

LEMMA NetworkMemberListed ==
    ASSUME Inv, Listed, NetworkMember
    PROVE  Listed'
<1> DEFINE row == [net |-> db.lastId, login |-> at.login, owner |-> TRUE]
<1>1. /\ db'.members = db.members \cup {row} /\ db'.users = db.users
      /\ db'.networks = db.networks
  <2>1. IsDb(db) /\ db' = InsertMember(db, db.lastId, at.login, TRUE)
    BY DEF Inv, Linked, NetworkMember
  <2> QED
    BY <2>1 DEF IsDb, InsertMember
<1>2. row.net = db.lastId /\ row.login = at.login
  OBVIOUS
<1>3. at.step = "member" /\ at'.step # "member" /\ calm' = calm
  BY DEF NetworkMember, Idle, history
<1> HIDE DEF row
<1>4. \A m \in db'.members : db'.networks[m.net].subnet = db'.users[m.login].subnet
  BY <1>1, <1>2, <1>3 DEF Listed
<1>5. calm' => \A i \in DOMAIN db'.networks : \E m \in db'.members : m.net = i
  BY <1>1, <1>2, <1>3 DEF Listed
<1> QED
  BY <1>3, <1>4, <1>5 DEF Listed

LEMMA NetworkDeleteListed ==
    ASSUME Inv, Listed, NEW i, PostNetworkDelete(i)
    PROVE  Listed'
<1>1. /\ db'.networks = Drop(db.networks, {i})
      /\ db'.members = {m \in db.members : m.net \notin {i}}
      /\ db'.users = db.users
  BY DropNetworksTables DEF Inv, Linked, PostNetworkDelete, DeleteNetwork
<1>2. at.step = "serve" /\ at' = at /\ calm' = calm
  BY DEF PostNetworkDelete, Request, history
<1>3. /\ DOMAIN db'.networks = DOMAIN db.networks \ {i}
      /\ \A j \in DOMAIN db'.networks : db'.networks[j] = db.networks[j]
  BY <1>1 DEF Drop
<1>4. \A m \in db.members : m.net \in DOMAIN db.networks
  BY DEF Inv, Linked
<1>5. \A m \in db'.members : db'.networks[m.net].subnet = db'.users[m.login].subnet
  BY <1>1, <1>3, <1>4 DEF Listed
<1>6. calm' => \A j \in DOMAIN db'.networks : \E m \in db'.members : m.net = j
  BY <1>1, <1>2, <1>3 DEF Listed
<1> QED
  BY <1>2, <1>5, <1>6 DEF Listed

\* The networks of the account that goes were its own subnet's: the memberships
\* that go with it were those of networks that go too, when nobody else is left
\* in the subnet.
LEMMA UserDeleteListed ==
    ASSUME Inv, Listed, NEW b, PostUserDelete(b)
    PROVE  Listed'
<1> DEFINE l == UserOf(b)
<1>1. /\ db'.users = Drop(db.users, {l})
      /\ DOMAIN db'.networks = DOMAIN db.networks \ LeftEmpty(db, l)
      /\ \A i \in DOMAIN db'.networks : db'.networks[i] = db.networks[i]
      /\ db'.members = MembersWithout(db, l)
  <2>1. IsDb(db) /\ db' = DeleteUser(db, l)
    BY DEF Inv, Linked, PostUserDelete
  <2> HIDE DEF l
  <2>2. WithoutUser(db, l, db')
    BY <2>1, DeleteUserTables
  <2> QED
    BY <2>2 DEF WithoutUser
<1>2. /\ at.step = "serve" /\ at' = at
      /\ calm' = (calm /\ \A u \in DOMAIN db.users \ {l} :
                              SubnetOf(db, u) # SubnetOf(db, l))
  BY DEF PostUserDelete, Request
<1>3. \A m \in db.members : m.net \in DOMAIN db.networks /\ m.login \in DOMAIN db.users
  BY DEF Inv, Linked
<1> HIDE DEF l
<1>4. \A u \in DOMAIN db.users \ {l} : db'.users[u] = db.users[u]
  BY <1>1 DEF Drop
<1>5. \A m \in db'.members : db'.networks[m.net].subnet = db'.users[m.login].subnet
  BY <1>1, <1>3, <1>4 DEF Listed, MembersWithout
<1>6. ASSUME calm', NEW i \in DOMAIN db'.networks
      PROVE  \E m \in db'.members : m.net = i
  <2>1. calm /\ \A u \in DOMAIN db.users \ {l} : SubnetOf(db, u) # SubnetOf(db, l)
    BY <1>2, <1>6
  <2>2. PICK m \in db.members : m.net = i
    BY <1>1, <1>2, <2>1 DEF Listed
  <2>3. i \in DOMAIN db.networks /\ i \notin LeftEmpty(db, l)
    BY <1>1
  <2>4. db.networks[i].subnet # SubnetOf(db, l)
    BY <2>1, <2>3 DEF LeftEmpty
  <2>5. m.login # l
    BY <2>2, <2>4 DEF Listed, SubnetOf
  <2> QED
    BY <1>1, <2>2, <2>3, <2>5 DEF MembersWithout
<1>7. calm' \in BOOLEAN
  BY <1>2
<1> QED
  BY <1>2, <1>5, <1>6, <1>7 DEF Listed

LEMMA CrashListed ==
    ASSUME Listed, Crash
    PROVE  Listed'
<1>1. db' = db /\ at'.step = "boot" /\ calm' = (calm /\ at.step # "member")
  BY DEF Crash, Idle
<1>2. calm' \in BOOLEAN
  BY <1>1
<1>3. calm' => calm /\ at.step # "member"
  BY <1>1
<1> QED
  BY <1>1, <1>2, <1>3 DEF Listed

LEMMA StepListed == ASSUME Inv, Listed, [Next]_vars PROVE Listed'
<1>1. CASE BootAdmin \/ BootPerms \/ BootAgain
  BY <1>1, BootListed
<1>2. ASSUME NEW b \in Browsers, NEW l \in Logins, NEW p \in Passwords,
             PostLogin(b, l, p)
      PROVE  Listed'
  BY <1>2, OpenSessionListed DEF PostLogin, Request
<1>3. ASSUME NEW b \in Browsers, NEW l \in Logins, NEW p \in Passwords,
             PostSignup(b, l, p)
      PROVE  Listed'
  BY <1>3, NewAccountListed DEF PostSignup, Request, Found
<1>4. ASSUME NEW b \in Browsers, PostLogout(b)
      PROVE  Listed'
  <2>1. /\ db'.users = db.users
        /\ db'.networks = db.networks /\ db'.members = db.members
    BY <1>4, DeleteSessionTables DEF Inv, Linked, PostLogout
  <2> QED
    BY <1>4, <2>1, SameNetworks DEF PostLogout, Request, history
<1>5. ASSUME NEW b \in Browsers, PostUserDelete(b)
      PROVE  Listed'
  BY <1>5, UserDeleteListed
<1>6. ASSUME NEW b \in Browsers, NEW c \in Cidrs, PostNetworkNew(b, c)
      PROVE  Listed'
  BY <1>6, NetworkNewListed
<1>7. ASSUME NEW b \in Browsers, NEW rules, SaveRules(b, rules), Request
      PROVE  Listed'
  <2>1. /\ db'.users = db.users
        /\ db'.networks = db.networks /\ db'.members = db.members
    BY <1>7, SaveFirewallTables DEF Inv, Linked, SaveRules
  <2> QED
    BY <1>7, <2>1, SameNetworks DEF SaveRules, Request, history
<1>8. ASSUME NEW b \in Browsers, NEW p, NEW q, PostPassword(b, p, q)
      PROVE  Listed'
  <2>1. /\ db'.networks = db.networks /\ db'.members = db.members
        /\ \A u \in DOMAIN db.users : db'.users[u].subnet = db.users[u].subnet
    BY <1>8, SetPasswordTables DEF Inv, Linked, PostPassword
  <2> QED
    BY <1>8, <2>1, SameNetworks DEF PostPassword, Request, history
<1>9. ASSUME NEW i, PostNetworkDelete(i)
      PROVE  Listed'
  BY <1>9, NetworkDeleteListed
<1>10. CASE SignupSession
  BY <1>10, OpenSessionListed DEF SignupSession, Idle
<1>11. CASE NetworkMember
  BY <1>11, NetworkMemberListed
<1>12. CASE Crash
  BY <1>12, CrashListed
<1>13. CASE UNCHANGED vars
  BY <1>13 DEF vars, Listed
<1> QED
  BY <1>1, <1>2, <1>3, <1>4, <1>5, <1>6, <1>7, <1>8, <1>9, <1>10, <1>11,
     <1>12, <1>13 DEF Next, PostRuleNew, PostRuleDelete

-----------------------------------------------------------------------------
(* The verdicts of a list of rules.                                        *)

LEMMA Least ==
    ASSUME NEW T, T \subseteq Nat, T # {}
    PROVE  \E x \in T : \A y \in T : x <= y
<1>1. PICK x \in T : \A y \in T : ~(<<y, x>> \in OpToRel(<, Nat))
  BY NatLessThanWellFounded, WFMin
<1>2. ASSUME NEW y \in T PROVE x <= y
  <2>1. ASSUME y < x PROVE FALSE
    <3>1. <<y, x>> \in {ss \in Nat \X Nat : ss[1] < ss[2]}
      BY <2>1
    <3>2. <<y, x>> \in OpToRel(<, Nat)
      BY <3>1, Zenon DEF OpToRel
    <3> QED
      BY <3>2, <1>1
  <2> QED
    BY <2>1
<1> QED
  BY <1>2

LEMMA Smallest ==
    ASSUME NEW T, T \subseteq Nat, T # {}
    PROVE  Min(T) \in T /\ \A y \in T : Min(T) <= y
BY Least DEF Min

\* The first rule that matches decides, and none means ALLOW.
FirstHit(rules, k, src, dst) ==
    /\ k \in 1..Len(rules) /\ Match(rules[k], src, dst)
    /\ \A j \in 1..Len(rules) : j < k => ~Match(rules[j], src, dst)

LEMMA FirstDecides ==
    ASSUME NEW R, NEW s \in Seq(R), NEW k, NEW src, NEW dst,
           FirstHit(s, k, src, dst)
    PROVE  GetAction(s, src, dst) = s[k].action
<1> DEFINE hits == {i \in DOMAIN s : Match(s[i], src, dst)}
<1>1. DOMAIN s = 1..Len(s) /\ Len(s) \in Nat
  OBVIOUS
<1>2. k \in hits /\ hits \subseteq Nat /\ \A j \in hits : ~(j < k)
  BY <1>1 DEF FirstHit
<1> HIDE DEF hits
<1>3. PICK m : m = Min(hits)
  OBVIOUS
<1>4. m \in hits /\ m <= k
  BY <1>2, <1>3, Smallest
<1>5. m = k
  <2>1. m \in Nat /\ k \in Nat /\ ~(m < k)
    BY <1>2, <1>4
  <2> QED
    BY ONLY <1>4, <2>1
<1> QED
  BY <1>2, <1>3, <1>5 DEF GetAction, hits

LEMMA NoneAllows ==
    ASSUME NEW s, NEW src, NEW dst, ~\E i \in DOMAIN s : Match(s[i], src, dst)
    PROVE  GetAction(s, src, dst) = "ALLOW"
BY DEF GetAction

LEMMA HasFirst ==
    ASSUME NEW R, NEW s \in Seq(R), NEW src, NEW dst,
           \E i \in DOMAIN s : Match(s[i], src, dst)
    PROVE  \E k : FirstHit(s, k, src, dst)
<1> DEFINE hits == {i \in DOMAIN s : Match(s[i], src, dst)}
<1>1. DOMAIN s = 1..Len(s) /\ Len(s) \in Nat
  OBVIOUS
<1>2. hits \subseteq Nat /\ hits # {}
  BY <1>1
<1>3. PICK k \in hits : \A j \in hits : k <= j
  BY <1>2, Least
<1>4. FirstHit(s, k, src, dst)
  BY <1>1, <1>3 DEF FirstHit
<1> QED
  BY <1>4

\* A rule put last decides only what no rule decided.
LEMMA AppendVerdict ==
    ASSUME NEW R, NEW s \in Seq(R), NEW r \in R, NEW src, NEW dst,
           GetAction(s, src, dst) # GetAction(AppendRule(s, r), src, dst)
    PROVE  /\ Len(AppendRule(s, r)) > Len(s)
           /\ ~\E i \in DOMAIN s : Match(s[i], src, dst)
<1> DEFINE t == AppendRule(s, r)
<1>1. /\ t \in Seq(R) /\ Len(t) = Len(s) + 1 /\ Len(s) \in Nat
      /\ \A i \in 1..Len(s) : t[i] = s[i]
  BY AppendProperties DEF AppendRule
<1>2. ASSUME \E i \in DOMAIN s : Match(s[i], src, dst) PROVE FALSE
  <2>1. PICK k : FirstHit(s, k, src, dst)
    BY <1>2, HasFirst
  <2> HIDE DEF t
  <2>2. FirstHit(t, k, src, dst) /\ t[k] = s[k]
    BY <1>1, <2>1 DEF FirstHit
  <2>3. GetAction(t, src, dst) = GetAction(s, src, dst)
    BY <1>1, <2>1, <2>2, FirstDecides
  <2> QED
    BY <2>3 DEF t
<1> QED
  BY <1>1, <1>2

\* The list t is s without its element v.
Without(s, v, t) ==
    /\ v \in 1..Len(s) /\ Len(t) = Len(s) - 1
    /\ \A i \in 1..(Len(s) - 1) : t[i] = IF i < v THEN s[i] ELSE s[i + 1]

LEMMA WithoutOne ==
    ASSUME NEW S, NEW s \in Seq(S), NEW v \in 1..Len(s)
    PROVE  /\ RemoveAt(s, v) \in Seq(S)
           /\ Without(s, v, RemoveAt(s, v))
<1> DEFINE a == SubSeq(s, 1, v - 1)
           b == SubSeq(s, v + 1, Len(s))
<1>0. Len(s) \in Nat /\ v \in Nat \ {0} /\ \A i \in 1..Len(s) : s[i] \in S
  OBVIOUS
<1>a. /\ a \in Seq(S) /\ Len(a) = v - 1
      /\ \A i \in 1..(v - 1) : a[i] = s[i]
  <2>1. \A i \in 1..(v - 1) : s[i] \in S
    BY <1>0
  <2>2. 1 \in Int /\ v - 1 \in Int /\ (v - 1) - 1 + 1 = v - 1
    BY <1>0
  <2> QED
    BY <1>0, <2>1, <2>2, SubSeqProperties
<1>b. /\ b \in Seq(S) /\ Len(b) = Len(s) - v
      /\ \A i \in 1..(Len(s) - v) : b[i] = s[v + i]
  <2>1. \A i \in (v + 1)..Len(s) : s[i] \in S
    BY <1>0
  <2> PICK k : k = Len(s)
    OBVIOUS
  <2>2. /\ v + 1 \in Int /\ k \in Int /\ k - (v + 1) + 1 = k - v
        /\ ~(v + 1 <= k) => k - v = 0
    BY <1>0
  <2>3. /\ SubSeq(s, v + 1, k) \in Seq(S)
        /\ Len(SubSeq(s, v + 1, k)) = IF v + 1 <= k THEN k - (v + 1) + 1 ELSE 0
        /\ \A i \in 1..(k - (v + 1) + 1) :
              SubSeq(s, v + 1, k)[i] = s[(v + 1) + i - 1]
    <3>1. \A i \in (v + 1)..k : s[i] \in S
      BY <2>1
    <3> QED
      BY ONLY <2>2, <3>1, SubSeqProperties
  <2>4. \A i \in 1..(k - v) : (v + 1) + i - 1 = v + i
    BY <1>0
  <2>5. b = SubSeq(s, v + 1, k)
    OBVIOUS
  <2> HIDE DEF b
  <2> QED
    BY <2>2, <2>3, <2>4, <2>5
<1> HIDE DEF a, b
<1>1. RemoveAt(s, v) \in Seq(S) /\ RemoveAt(s, v) = a \o b
  BY <1>a, <1>b DEF RemoveAt, a, b
<1>2. Len(RemoveAt(s, v)) = Len(s) - 1
  <2>1. Len(a \o b) = Len(a) + Len(b)
    BY <1>a, <1>b, ConcatProperties
  <2> QED
    BY <1>0, <1>1, <1>a, <1>b, <2>1
<1>3. ASSUME NEW i \in 1..(Len(s) - 1)
      PROVE  RemoveAt(s, v)[i] = IF i < v THEN s[i] ELSE s[i + 1]
  <2>1. (a \o b)[i] = IF i <= Len(a) THEN a[i] ELSE b[i - Len(a)]
    <3>1. i \in 1..(Len(a) + Len(b)) /\ a \in Seq(S) /\ b \in Seq(S)
      BY <1>0, <1>a, <1>b
    <3> QED
      BY ONLY <3>1, ConcatProperties
  <2>2. CASE i < v
    BY <1>0, <1>1, <1>a, <2>1, <2>2
  <2>3. CASE ~(i < v)
    <3>1. i - (v - 1) \in 1..(Len(s) - v) /\ v + (i - (v - 1)) = i + 1
      BY <1>0, <2>3
    <3> QED
      BY <1>0, <1>1, <1>a, <1>b, <2>1, <2>3, <3>1
  <2> QED
    BY <2>2, <2>3
<1> QED
  BY <1>1, <1>2, <1>3 DEF Without

\* A list without the first occurrence of e.
LEMMA Removed ==
    ASSUME NEW S, NEW s \in Seq(S), NEW e
    PROVE  /\ RemoveFirst(s, e) \in Seq(S)
           /\ \/ RemoveFirst(s, e) = s
              \/ \E v \in 1..Len(s) : s[v] = e /\ Without(s, v, RemoveFirst(s, e))
<1>1. CASE ~\E i \in 1..Len(s) : s[i] = e
  BY <1>1 DEF RemoveFirst
<1>2. CASE \E i \in 1..Len(s) : s[i] = e
  <2> DEFINE I == {i \in 1..Len(s) : s[i] = e}
  <2>1. I \subseteq Nat /\ I # {}
    BY <1>2
  <2>2. Min(I) \in I
    <3> HIDE DEF I
    <3> QED
      BY <2>1, Smallest
  <2>3. RemoveFirst(s, e) = RemoveAt(s, Min(I))
    BY <1>2, <2>1 DEF RemoveFirst, SelectInSeq
  <2>4. PICK v : v = Min(I) /\ v \in 1..Len(s) /\ s[v] = e
    BY <2>2
  <2>5. RemoveAt(s, v) \in Seq(S) /\ Without(s, v, RemoveAt(s, v))
    BY <2>4, WithoutOne
  <2> QED
    BY <2>3, <2>4, <2>5
<1> QED
  BY <1>1, <1>2

\* The list without the rule v has one rule like it fewer.
LEMMA OneFewer ==
    ASSUME NEW R, NEW s \in Seq(R), NEW t \in Seq(R), NEW v, Without(s, v, t)
    PROVE  Occurrences(t, s[v]) < Occurrences(s, s[v])
<1> DEFINE e == s[v]
           O == {i \in DOMAIN s : s[i] = e}
           N == {i \in DOMAIN t : t[i] = e}
           f == [i \in N |-> IF i < v THEN i ELSE i + 1]
<1>1. /\ Len(s) \in Nat /\ DOMAIN s = 1..Len(s) /\ v \in 1..Len(s)
      /\ DOMAIN t = 1..(Len(s) - 1)
      /\ \A i \in DOMAIN t : t[i] = IF i < v THEN s[i] ELSE s[i + 1]
  BY DEF Without
<1>2. IsFiniteSet(O) /\ v \in O
  <2>1. O \subseteq 1..Len(s)
    BY <1>1
  <2>2. IsFiniteSet(1..Len(s))
    BY <1>1, FS_Interval
  <2> HIDE DEF O
  <2>3. IsFiniteSet(O)
    BY <2>1, <2>2, FS_Subset
  <2> QED
    BY <1>1, <2>3 DEF O
<1>3. f \in [N -> O \ {v}]
  <2>1. ASSUME NEW i \in N PROVE (IF i < v THEN i ELSE i + 1) \in O \ {v}
    BY <1>1
  <2> HIDE DEF O, N
  <2> QED
    BY <2>1
<1>4. \A i, j \in N : f[i] = f[j] => i = j
  <2>1. N \subseteq Nat /\ v \in Nat
    BY <1>1
  <2> HIDE DEF N
  <2> QED
    BY <2>1
<1>5. f \in Injection(N, O \ {v})
  <2> HIDE DEF f, N, O
  <2> QED
    BY <1>3, <1>4 DEF Injection, IsInjective
<1> HIDE DEF f, N, O
<1>6. IsFiniteSet(O \ {v}) /\ Cardinality(O \ {v}) = Cardinality(O) - 1
  BY <1>2, FS_RemoveElement
<1>7. Cardinality(N) <= Cardinality(O \ {v}) /\ IsFiniteSet(N)
  BY <1>5, <1>6, FS_Injection
<1>8. Cardinality(O) \in Nat /\ Cardinality(N) \in Nat
  BY <1>2, <1>7, FS_CardinalityType
<1>9. Cardinality(N) < Cardinality(O)
  BY <1>6, <1>7, <1>8
<1> QED
  BY <1>9 DEF Occurrences, N, O, e

\* A rule that does not match can go without a trace.
LEMMA SilentRule ==
    ASSUME NEW R, NEW s \in Seq(R), NEW t \in Seq(R), NEW v, Without(s, v, t),
           NEW src, NEW dst, ~Match(s[v], src, dst)
    PROVE  GetAction(s, src, dst) = GetAction(t, src, dst)
<1>1. /\ Len(s) \in Nat /\ DOMAIN s = 1..Len(s) /\ v \in 1..Len(s)
      /\ DOMAIN t = 1..(Len(s) - 1) /\ Len(t) = Len(s) - 1
      /\ \A i \in 1..(Len(s) - 1) : t[i] = IF i < v THEN s[i] ELSE s[i + 1]
  BY DEF Without
<1>2. CASE \E i \in DOMAIN s : Match(s[i], src, dst)
  <2>1. PICK k : FirstHit(s, k, src, dst)
    BY <1>2, HasFirst
  <2>2. /\ k \in 1..Len(s) /\ k # v /\ Match(s[k], src, dst)
        /\ \A j \in 1..Len(s) : j < k => ~Match(s[j], src, dst)
    BY <2>1 DEF FirstHit
  <2>3. CASE k < v
    <3>1. k \in 1..(Len(s) - 1) /\ t[k] = s[k]
      BY <1>1, <2>2, <2>3
    <3>2. ASSUME NEW j \in 1..(Len(s) - 1), j < k PROVE ~Match(t[j], src, dst)
      <4>1. j \in 1..Len(s) /\ t[j] = s[j]
        BY <1>1, <2>2, <2>3, <3>2
      <4> QED
        BY <2>2, <3>2, <4>1
    <3>3. FirstHit(t, k, src, dst)
      BY <1>1, <2>2, <3>1, <3>2 DEF FirstHit
    <3> QED
      BY <2>1, <3>1, <3>3, FirstDecides
  <2>4. CASE ~(k < v)
    <3>1. PICK m : m = k - 1
      OBVIOUS
    <3>2. m \in 1..(Len(s) - 1) /\ t[m] = s[k]
      BY <1>1, <2>2, <2>4, <3>1
    <3>3. ASSUME NEW j \in 1..(Len(s) - 1), j < m PROVE ~Match(t[j], src, dst)
      <4>1. /\ j \in 1..Len(s) /\ j + 1 \in 1..Len(s)
            /\ j < k /\ j + 1 < k
        BY <1>1, <2>2, <3>1, <3>3
      <4>2. t[j] = s[j] \/ t[j] = s[j + 1]
        BY <1>1
      <4> QED
        BY <2>2, <4>1, <4>2
    <3>4. FirstHit(t, m, src, dst)
      BY <1>1, <2>2, <3>2, <3>3 DEF FirstHit
    <3> QED
      BY <2>1, <3>2, <3>4, FirstDecides
  <2> QED
    BY <2>3, <2>4
<1>3. CASE ~\E i \in DOMAIN s : Match(s[i], src, dst)
  <2>1. ASSUME NEW i \in DOMAIN t PROVE ~Match(t[i], src, dst)
    <3>1. i \in DOMAIN s /\ i + 1 \in DOMAIN s /\ (t[i] = s[i] \/ t[i] = s[i + 1])
      BY <1>1
    <3> QED
      BY <1>3, <3>1
  <2> QED
    BY <1>3, <2>1, NoneAllows
<1> QED
  BY <1>2, <1>3

\* Removing a rule changes only what a rule that is gone decided.
LEMMA RemoveVerdict ==
    ASSUME NEW R, NEW s \in Seq(R), NEW r, NEW src, NEW dst,
           GetAction(s, src, dst) # GetAction(RemoveRule(s, r), src, dst)
    PROVE  \E i \in DOMAIN s :
              /\ Len(RemoveRule(s, r)) = Len(s) - 1
              /\ Match(s[i], src, dst)
              /\ Occurrences(RemoveRule(s, r), s[i]) < Occurrences(s, s[i])
<1> DEFINE t == RemoveRule(s, r)
<1>1. /\ t \in Seq(R)
      /\ \/ t = s
         \/ \E v \in 1..Len(s) : s[v] = r /\ Without(s, v, t)
  BY Removed DEF RemoveRule
<1> HIDE DEF t
<1>2. t # s
  BY DEF t
<1>3. PICK v \in 1..Len(s) : Without(s, v, t)
  BY <1>1, <1>2
<1>4. Match(s[v], src, dst)
  BY <1>1, <1>3, SilentRule DEF t
<1>5. Occurrences(t, s[v]) < Occurrences(s, s[v])
  BY <1>1, <1>3, OneFewer
<1>6. Len(t) = Len(s) - 1
  BY <1>3 DEF Without
<1> QED
  BY <1>4, <1>5, <1>6 DEF t

-----------------------------------------------------------------------------
(* What the requests do to the firewalls.                                  *)

\* Only saving rules writes to the table of firewalls.
LEMMA SmallWritesLeaveFirewall ==
    ASSUME NEW d, IsDb(d), NEW l, NEW p, NEW s, NEW o
    PROVE  /\ InsertUser(d, l, p, s).firewall = d.firewall
           /\ SetPerms(d, l, p).firewall = d.firewall
           /\ SetPassword(d, l, p).firewall = d.firewall
           /\ InsertSession(d, s, l).firewall = d.firewall
           /\ DeleteSession(d, s).firewall = d.firewall
           /\ InsertNetwork(d, s, p).firewall = d.firewall
           /\ InsertMember(d, s, l, o).firewall = d.firewall
<1>1. /\ InsertUser(d, l, p, s).firewall = d.firewall
      /\ SetPerms(d, l, p).firewall = d.firewall
      /\ SetPassword(d, l, p).firewall = d.firewall
  BY DEF IsDb, InsertUser, SetPerms, SetPassword
<1>2. /\ InsertSession(d, s, l).firewall = d.firewall
      /\ DeleteSession(d, s).firewall = d.firewall
  BY DEF IsDb, InsertSession, DeleteSession
<1>3. /\ InsertNetwork(d, s, p).firewall = d.firewall
      /\ InsertMember(d, s, l, o).firewall = d.firewall
  BY DEF IsDb, InsertNetwork, InsertMember
<1> QED
  BY <1>1, <1>2, <1>3

LEMMA DropLeavesFirewall ==
    ASSUME NEW d, IsDb(d), NEW ids
    PROVE  DropNetworks(d, ids).firewall = d.firewall
<1> DEFINE N == Drop(d.networks, ids)
           M == {m \in d.members : m.net \notin ids}
<1>1. DropNetworks(d, ids) = [d EXCEPT !.networks = N, !.members = M]
  BY DEF DropNetworks
<1> HIDE DEF N, M
<1> QED
  BY <1>1 DEF IsDb

LEMMA DeleteLeavesFirewall ==
    ASSUME NEW d, IsDb(d), NEW l
    PROVE  DeleteUser(d, l).firewall = d.firewall
<1> DEFINE U == Drop(d.users, {l})
           S == Drop(d.sessions, {s \in DOMAIN d.sessions : d.sessions[s] = l})
           M == {m \in d.members : m.login # l}
           left == [d EXCEPT !.users = U, !.sessions = S, !.members = M]
           ids == {i \in DOMAIN left.networks : left.networks[i].subnet = SubnetOf(d, l)}
           stay == \E u \in DOMAIN left.users : SubnetOf(left, u) = SubnetOf(d, l)
<1>1. DeleteUser(d, l) = IF stay THEN left ELSE DropNetworks(left, ids)
  BY DEF DeleteUser
<1>2. IsDb(left) /\ left.firewall = d.firewall
  <2> HIDE DEF U, S, M
  <2> QED
    BY DEF IsDb
<1> HIDE DEF left, ids, stay
<1>3. DropNetworks(left, ids).firewall = d.firewall
  BY <1>2, DropLeavesFirewall
<1> QED
  BY <1>1, <1>2, <1>3

\* A saved firewall is read back, and the others are as they were.
LEMMA SavedFirewall ==
    ASSUME NEW d, IsDb(d), NEW s, NEW rules
    PROVE  /\ SaveFirewall(d, s, rules).firewall = Put(d.firewall, s, rules)
           /\ \A x : FirewallOf(SaveFirewall(d, s, rules), x) =
                        IF x = s THEN rules ELSE FirewallOf(d, x)
<1> DEFINE e == SaveFirewall(d, s, rules)
<1>1. e.firewall = Put(d.firewall, s, rules)
  BY DEF IsDb, SaveFirewall
<1> HIDE DEF e
<1>2. /\ DOMAIN e.firewall = DOMAIN d.firewall \cup {s}
      /\ \A x \in DOMAIN e.firewall :
            e.firewall[x] = IF x = s THEN rules ELSE d.firewall[x]
  BY <1>1 DEF Put
<1>3. \A x : FirewallOf(e, x) = IF x = s THEN rules ELSE FirewallOf(d, x)
  BY <1>2 DEF FirewallOf
<1> QED
  BY <1>1, <1>3 DEF e

\* The rules of a subnet are a list of rules that were asked for.
RulesOk == \A s \in DOMAIN db.firewall : db.firewall[s] \in Seq(Rules)

LEMMA RulesListed ==
    ASSUME RulesOk, NEW s
    PROVE  FirewallOf(db, s) \in Seq(Rules)
BY EmptySeq DEF RulesOk, FirewallOf

\* A request edits the firewall of one subnet, by one rule, or none.
Edited ==
    \/ db'.firewall = db.firewall
    \/ \E s : \E rule \in Rules :
        \E rules \in {AppendRule(FirewallOf(db, s), rule),
                      RemoveRule(FirewallOf(db, s), rule)} :
            db' = SaveFirewall(db, s, rules)

LEMMA StepEdits ==
    ASSUME IsDb(db), [Next]_vars
    PROVE  Edited
<1>1. CASE BootAdmin \/ BootPerms \/ BootAgain
  BY <1>1, SmallWritesLeaveFirewall
     DEF Edited, BootAdmin, BootPerms, BootAgain, NewAccount
<1>2. ASSUME NEW b \in Browsers, NEW l \in Logins, OpenSession(b, l)
      PROVE  Edited
  BY <1>2, SmallWritesLeaveFirewall DEF Edited, OpenSession
<1>3. ASSUME NEW b \in Browsers, NEW l \in Logins, NEW p \in Passwords,
             PostLogin(b, l, p) \/ PostSignup(b, l, p)
      PROVE  Edited
  BY <1>2, <1>3, SmallWritesLeaveFirewall
     DEF Edited, PostLogin, PostSignup, NewAccount
<1>4. ASSUME NEW b \in Browsers, PostLogout(b) \/ PostUserDelete(b)
      PROVE  Edited
  BY <1>4, SmallWritesLeaveFirewall, DeleteLeavesFirewall
     DEF Edited, PostLogout, PostUserDelete
<1>5. ASSUME NEW b \in Browsers, NEW c \in Cidrs, PostNetworkNew(b, c)
      PROVE  Edited
  BY <1>5, SmallWritesLeaveFirewall DEF Edited, PostNetworkNew
<1>6. ASSUME NEW b \in Browsers, NEW rule \in Rules,
             PostRuleNew(b, rule) \/ PostRuleDelete(b, rule)
      PROVE  Edited
  BY <1>6 DEF Edited, PostRuleNew, PostRuleDelete, SaveRules, RulesOf
<1>7. ASSUME NEW b \in Browsers, NEW p, NEW q, PostPassword(b, p, q)
      PROVE  Edited
  BY <1>7, SmallWritesLeaveFirewall DEF Edited, PostPassword
<1>8. ASSUME NEW i, PostNetworkDelete(i)
      PROVE  Edited
  BY <1>8, DropLeavesFirewall DEF Edited, PostNetworkDelete, DeleteNetwork
<1>9. CASE SignupSession
  <2>1. PICK sid \in Sids :
           IF SessionTaken(db, sid) THEN db' = db
           ELSE db' = InsertSession(db, sid, at.login)
    BY <1>9 DEF SignupSession, OpenSession
  <2> QED
    BY <2>1, SmallWritesLeaveFirewall DEF Edited
<1>10. CASE NetworkMember
  <2>1. db' = InsertMember(db, db.lastId, at.login, TRUE)
    BY <1>10 DEF NetworkMember
  <2>2. db'.firewall = db.firewall
    BY <2>1 DEF IsDb, InsertMember
  <2> QED
    BY <2>2 DEF Edited
<1>11. CASE Crash \/ UNCHANGED vars
  BY <1>11 DEF Edited, Crash, vars
<1> QED
  BY <1>1, <1>3, <1>4, <1>5, <1>6, <1>7, <1>8, <1>9, <1>10, <1>11 DEF Next

LEMMA EditedKeeps ==
    ASSUME IsDb(db), RulesOk, Edited
    PROVE  RulesOk'
<1>1. CASE db'.firewall = db.firewall
  BY <1>1 DEF RulesOk
<1>2. ASSUME NEW s, NEW rule \in Rules,
             NEW rules \in {AppendRule(FirewallOf(db, s), rule),
                            RemoveRule(FirewallOf(db, s), rule)},
             db' = SaveFirewall(db, s, rules)
      PROVE  RulesOk'
  <2>1. FirewallOf(db, s) \in Seq(Rules)
    BY RulesListed
  <2>2. rules \in Seq(Rules)
    BY <2>1, AppendProperties, Removed DEF AppendRule, RemoveRule
  <2>3. db'.firewall = Put(db.firewall, s, rules)
    BY <1>2, SavedFirewall
  <2> QED
    BY <2>2, <2>3 DEF RulesOk, Put
<1> QED
  BY <1>1, <1>2 DEF Edited

\* What VerdictsFollowRules says of a packet of one subnet.
Follows(old, new, src, dst) ==
    GetAction(old, src, dst) # GetAction(new, src, dst) =>
        \/ /\ Len(new) > Len(old)
           /\ ~\E i \in DOMAIN old : Match(old[i], src, dst)
        \/ \E i \in DOMAIN old :
             /\ Len(new) = Len(old) - 1
             /\ Match(old[i], src, dst)
             /\ Occurrences(new, old[i]) < Occurrences(old, old[i])

LEMMA EditedFollows ==
    ASSUME IsDb(db), RulesOk, Edited, NEW x, NEW src, NEW dst
    PROVE  Follows(FirewallOf(db, x), FirewallOf(db', x), src, dst)
<1>1. CASE FirewallOf(db', x) = FirewallOf(db, x)
  BY <1>1 DEF Follows
<1>2. CASE db'.firewall = db.firewall
  BY <1>1, <1>2 DEF FirewallOf
<1>3. ASSUME NEW s, NEW rule \in Rules,
             NEW rules \in {AppendRule(FirewallOf(db, s), rule),
                            RemoveRule(FirewallOf(db, s), rule)},
             db' = SaveFirewall(db, s, rules)
      PROVE  Follows(FirewallOf(db, x), FirewallOf(db', x), src, dst)
  <2>1. FirewallOf(db', x) = IF x = s THEN rules ELSE FirewallOf(db, x)
    BY <1>3, SavedFirewall
  <2>2. PICK old : old = FirewallOf(db, x)
    OBVIOUS
  <2>3. old \in Seq(Rules)
    BY <2>2, RulesListed
  <2>4. Follows(old, AppendRule(old, rule), src, dst)
    BY <2>3, AppendVerdict DEF Follows
  <2>5. Follows(old, RemoveRule(old, rule), src, dst)
    BY <2>3, RemoveVerdict DEF Follows
  <2> QED
    BY <1>1, <2>1, <2>2, <2>4, <2>5
<1> QED
  BY <1>2, <1>3 DEF Edited

-----------------------------------------------------------------------------
(* The theorems.                                                           *)

\* Sessions and memberships never outlive their account: whoever deletes an
\* account and whoever signs up under its name, no row of the old account
\* serves the new one.
THEOREM RowsEndWithAccount == Spec => []RowsOfItsAccount
<1>1. Inv => RowsOfItsAccount
  BY DEF Inv, Owned
<1> QED
  BY <1>1, Invariance, PTL

\* No request, and no crash between its commits, leaves a network in a subnet
\* without a user.
THEOREM NetworksHaveUsers == Spec => []NoOrphanNetwork
<1>1. Inv => NoOrphanNetwork
  BY DEF Inv, Linked, NoOrphanNetwork, SubnetOf
<1> QED
  BY <1>1, Invariance, PTL

\* A cookie that is accepted, and a membership, is of an account that exists,
\* so a request that is logged in finds its user.
THEOREM ReferencesHold == Spec => []Linked(db)
<1>1. Inv => Linked(db)
  BY DEF Inv
<1> QED
  BY <1>1, Invariance, PTL

\* A user is shown the networks of the user's own subnet and no others, and
\* misses one only after a crash or a departure has taken its membership.
THEOREM UsersSeeTheirSubnet == Spec => []ListsItsSubnet
<1>1. Init => Inv /\ Listed
  BY InitInv, InitListed
<1>2. Inv /\ Listed /\ [Next]_vars => (Inv /\ Listed)'
  BY WebAssumption, StepInv, StepListed
<1>3. Inv /\ Listed => ListsItsSubnet
  <2> SUFFICES ASSUME Inv, Listed, NEW u \in DOMAIN db.users
               PROVE  LET own == {i \in DOMAIN db.networks :
                                     db.networks[i].subnet = SubnetOf(db, u)}
                      IN  /\ Visible(db, u) \subseteq own
                          /\ calm /\ at.step # "member" => own \subseteq Visible(db, u)
    BY DEF ListsItsSubnet
  <2>1. ASSUME NEW i \in Visible(db, u)
        PROVE  i \in DOMAIN db.networks /\ db.networks[i].subnet = SubnetOf(db, u)
    BY DEF Visible, Listed, SubnetOf
  <2>2. ASSUME calm, at.step # "member", NEW i \in DOMAIN db.networks,
               db.networks[i].subnet = SubnetOf(db, u)
        PROVE  i \in Visible(db, u)
    BY <2>2 DEF Visible, Listed
  <2> QED
    BY <2>1, <2>2
<1> QED
  BY <1>1, <1>2, <1>3, PTL DEF Spec

\* No edit of a firewall changes a verdict but as the order of its rules
\* promises, and nothing else a request does changes one: not the account that
\* goes, nor the network.
THEOREM EditsFollowRules == Spec => VerdictsFollowRules
<1>1. Init => Inv /\ RulesOk
  <2>1. Init => RulesOk
    BY DEF Init, EmptyDb, RulesOk
  <2> QED
    BY <2>1, InitInv
<1>2. Inv /\ RulesOk /\ [Next]_vars => (Inv /\ RulesOk)'
  BY WebAssumption, StepInv, StepEdits, EditedKeeps DEF Inv, Linked
<1>3. Inv /\ RulesOk /\ [Next]_vars =>
         [\A s \in Subnets, src, dst \in Addresses :
             LET old == FirewallOf(db, s)
                 new == FirewallOf(db', s)
             IN  GetAction(old, src, dst) # GetAction(new, src, dst) =>
                   \/ /\ Len(new) > Len(old)
                      /\ ~\E i \in DOMAIN old : Match(old[i], src, dst)
                   \/ \E i \in DOMAIN old :
                        /\ Len(new) = Len(old) - 1
                        /\ Match(old[i], src, dst)
                        /\ Occurrences(new, old[i]) < Occurrences(old, old[i])]_vars
  BY StepEdits, EditedFollows DEF Inv, Linked, Follows
<1> QED
  BY <1>1, <1>2, <1>3, PTL DEF Spec, VerdictsFollowRules
=============================================================================
