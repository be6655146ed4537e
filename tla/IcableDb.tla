------------------------------ MODULE IcableDb ------------------------------
(***************************************************************************)
(* The database of the icable server: the tables of                         *)
(* src/icable_server/models/database.py and, for each method of the models  *)
(* (users, networks, web sessions, firewalls), the tables it leaves.        *)
(* A database is a record of partial functions, one per table, keyed as the *)
(* table is; every definition is an operator of that record, so that the    *)
(* web interface (IcableWeb) and the client threads (IcableNodes) share     *)
(* them.  What a method raises on is a predicate its caller tests.          *)
(***************************************************************************)
EXTENDS Integers, Sequences, FiniteSets, SequencesExt

CONSTANTS
    Logins,     \* user names
    Passwords,  \* what a stored hash can be the hash of
    Subnets,    \* the values random.getrandbits(32) can return for a subnet
    Cidrs,      \* IPv4 networks, address and mask together
    Sids        \* the values random.getrandbits(32) can return for a session

\* The permission bits of models/user.py.
Perms == {"OWNER", "FIREWALL"}

\* The table f with row k inserted or replaced by v, and without the rows K.
Put(f, k, v) == [x \in DOMAIN f \cup {k} |-> IF x = k THEN v ELSE f[x]]
Drop(f, K) == [x \in DOMAIN f \ K |-> f[x]]

EmptyDb == [users    |-> << >>,  \* login -> password, subnet, perms
            sessions |-> << >>,  \* sid -> login
            networks |-> << >>,  \* id -> subnet, prefix
            members  |-> {},     \* network id, login, owner or not
            firewall |-> << >>,  \* subnet -> rules, the first match decides
            lastId   |-> 0]      \* AUTOINCREMENT never gives an id again

-----------------------------------------------------------------------------
(* Users.                                                                  *)

Found(db, login) == login \in DOMAIN db.users

\* createUser, once it has found the login free and drawn the subnet.
InsertUser(db, login, password, subnet) ==
    [db EXCEPT !.users = Put(@, login, [password |-> password,
                                        subnet |-> subnet, perms |-> {"OWNER"}])]

SetPassword(db, login, password) ==
    [db EXCEPT !.users[login].password = password]

SetPerms(db, login, perms) == [db EXCEPT !.users[login].perms = perms]

\* User.verify: the hash of the stored salt and of what was given.
Verify(db, login, password) == db.users[login].password = password

\* The subnet of a user; None.__getitem__ raises when there is no row.
SubnetOf(db, login) == db.users[login].subnet

\* Removing networks removes their memberships (ON DELETE CASCADE).
DropNetworks(db, ids) ==
    [db EXCEPT !.networks = Drop(@, ids),
               !.members = {m \in @ : m.net \notin ids}]

\* Mutant: foreign keys left off, so sessions and memberships stay.
DeleteUserNoCascade(db, login) ==
    [db EXCEPT !.users = Drop(@, {login})]

\* Mutant: neither the trigger nor the code removes the subnet's networks.
DeleteUserKeepsNetworks(db, login) ==
    [db EXCEPT !.users = Drop(@, {login}),
               !.sessions = Drop(@, {s \in DOMAIN @ : @[s] = login}),
               !.members = {m \in @ : m.login # login}]

\* deleteUser: the row; by ON DELETE CASCADE its sessions and memberships; by
\* the trigger, and once more by the code, the networks of a subnet that has
\* no user left.  The firewall of the subnet stays.
DeleteUser(db, login) ==
    LET subnet == SubnetOf(db, login)
        left   == [db EXCEPT
                     !.users = Drop(@, {login}),
                     !.sessions = Drop(@, {s \in DOMAIN @ : @[s] = login}),
                     !.members = {m \in @ : m.login # login}]
    IN  IF \E u \in DOMAIN left.users : SubnetOf(left, u) = subnet
        THEN left
        ELSE DropNetworks(left, {i \in DOMAIN left.networks :
                                     left.networks[i].subnet = subnet})

-----------------------------------------------------------------------------
(* Networks.                                                               *)

\* UNIQUE (subnetid, network, nmask)
NetworkTaken(db, subnet, prefix) ==
    \E i \in DOMAIN db.networks :
        db.networks[i] = [subnet |-> subnet, prefix |-> prefix]

\* createNetwork, committed on its own; the id is lastId of the result.
InsertNetwork(db, subnet, prefix) ==
    LET id == db.lastId + 1
    IN  [db EXCEPT !.networks = Put(@, id, [subnet |-> subnet, prefix |-> prefix]),
                   !.lastId = id]

\* addNetwork
InsertMember(db, id, login, owner) ==
    [db EXCEPT !.members = @ \cup {[net |-> id, login |-> login, owner |-> owner]}]

DeleteNetwork(db, id) == DropNetworks(db, {id})

\* Mutant: only the networks the user is a member of.
VisibleToMembers(db, login) == {m.net : m \in {x \in db.members : x.login = login}}

\* User.networks.  The inner query is over networkUsers, which has no column
\* subnetid: the name means the one of the outer networks row.  A network is
\* listed when it has a membership row, and the row is the user's or the
\* network is in the user's subnet.
Visible(db, login) ==
    {i \in DOMAIN db.networks :
        \E m \in db.members :
            /\ m.net = i
            /\ \/ m.login = login
               \/ db.networks[i].subnet = SubnetOf(db, login)}

-----------------------------------------------------------------------------
(* Web sessions.                                                           *)

\* sid INTEGER PRIMARY KEY: a second row with the same sid is refused.
SessionTaken(db, sid) == sid \in DOMAIN db.sessions

InsertSession(db, sid, login) == [db EXCEPT !.sessions = Put(@, sid, login)]

DeleteSession(db, sid) == [db EXCEPT !.sessions = Drop(@, {sid})]

-----------------------------------------------------------------------------
(* Firewalls.  A rule is [src, dst, action]: src and dst are the sets of    *)
(* addresses of its two networks.                                          *)

\* The firewall of a subnet without a row is a new one: no rules, ALLOW.
FirewallOf(db, subnet) ==
    IF subnet \in DOMAIN db.firewall THEN db.firewall[subnet] ELSE << >>

SaveFirewall(db, subnet, rules) ==
    [db EXCEPT !.firewall = Put(@, subnet, rules)]

Match(rule, src, dst) == src \in rule.src /\ dst \in rule.dst

\* getAction: the first rule that matches decides.
GetAction(rules, src, dst) ==
    LET hits == {i \in DOMAIN rules : Match(rules[i], src, dst)}
    IN  IF hits = {} THEN "ALLOW" ELSE rules[Min(hits)].action

\* Mutant: the rule is put first.
AppendRuleFirst(rules, rule) == << rule >> \o rules

AppendRule(rules, rule) == Append(rules, rule)

\* The first rule equal to the one named, if there is one.
RemoveRule(rules, rule) == RemoveFirst(rules, rule)
=============================================================================
