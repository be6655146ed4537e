----------------------------- MODULE IcableWeb -----------------------------
(***************************************************************************)
(* The web interface of src/icable_server/icableServer.py and the start of  *)
(* the server.  HTTPServer handles one request after the other, and only    *)
(* the web interface writes to the database, so a request is a sequence of  *)
(* committed changes of db that nothing but a crash comes between.  An      *)
(* action is a request, or the part of it up to its first commit; at says   *)
(* what is left to do.  Pages that only read (GET) change nothing.          *)
(* A browser keeps the cookie it was given, whatever becomes of the server. *)
(***************************************************************************)
EXTENDS IcableDb

CONSTANTS
    Browsers,     \* clients of the web interface
    NoSid,        \* no cookie
    Admin,        \* the login initUsers makes
    AdminPassword,
    Rules,        \* the firewall rules that may be asked for
    Addresses,    \* the addresses the verdicts are compared on
    MaxRequests,  \* bound: requests that may change something
    MaxCrashes    \* bound: crashes of the server

ASSUME WebAssumption ==
    /\ NoSid \notin Sids
    /\ Admin \in Logins /\ AdminPassword \in Passwords
    /\ MaxRequests \in Nat /\ MaxCrashes \in Nat

VARIABLES
    db,        \* the database: what is committed
    at,        \* what the server does next: [step, browser, login]
    cookie,    \* the sid each browser sends, or NoSid
    requests, crashes,
    \* History.
    accounts,  \* how many accounts each login has named
    openedBy,  \* the account each sid was given to, as <<login, n>>
    madeBy,    \* the account that made each network
    calm       \* no membership was lost to a crash or a departure

history == <<accounts, openedBy, madeBy, calm>>
vars == <<db, at, cookie, requests, crashes, accounts, openedBy, madeBy, calm>>

Idle(step) == [step |-> step, browser |-> "none", login |-> Admin]

Account(login) == <<login, accounts[login]>>

Init ==
    /\ db = EmptyDb
    /\ at = Idle("boot")
    /\ cookie = [b \in Browsers |-> NoSid]
    /\ requests = 0 /\ crashes = 0
    /\ accounts = [l \in Logins |-> 0]
    /\ openedBy = << >>
    /\ madeBy = << >>
    /\ calm = TRUE

-----------------------------------------------------------------------------
(* The start: Users.initUsers.                                             *)

\* A user row is made, and with it one more account of that login.
NewAccount(login, password, subnet) ==
    /\ db' = InsertUser(db, login, password, subnet)
    /\ accounts' = [accounts EXCEPT ![login] = @ + 1]
    /\ UNCHANGED <<openedBy, madeBy, calm>>

\* Without any user the account 'admin' is made ...
BootAdmin ==
    /\ at.step = "boot" /\ DOMAIN db.users = {}
    /\ \E subnet \in Subnets : NewAccount(Admin, AdminPassword, subnet)
    /\ at' = Idle("perms")
    /\ UNCHANGED <<cookie, requests, crashes>>

\* ... and, by a second commit, given its permissions.
BootPerms ==
    /\ at.step = "perms"
    /\ db' = SetPerms(db, Admin, {"OWNER", "FIREWALL"})
    /\ at' = Idle("serve")
    /\ UNCHANGED <<cookie, requests, crashes, history>>

BootAgain ==
    /\ at.step = "boot" /\ DOMAIN db.users # {}
    /\ at' = Idle("serve")
    /\ UNCHANGED <<db, cookie, requests, crashes, history>>

-----------------------------------------------------------------------------
(* One request.                                                            *)

Request ==
    /\ at.step = "serve"
    /\ requests < MaxRequests
    /\ requests' = requests + 1
    /\ UNCHANGED crashes

\* checkLoggedIn: the cookie names a session, and self.user is its user.  A
\* request that is not logged in is answered 401 and then handled all the
\* same; a handler that needs self.user raises before it changes anything.
LoggedIn(b) == SessionTaken(db, cookie[b])
UserOf(b) == db.sessions[cookie[b]]

\* createSession: an sid in use raises, and the browser gets no cookie.
OpenSession(b, login) ==
    \E sid \in Sids :
        IF SessionTaken(db, sid)
        THEN UNCHANGED <<db, cookie, history>>
        ELSE /\ db' = InsertSession(db, sid, login)
             /\ cookie' = [cookie EXCEPT ![b] = sid]
             /\ openedBy' = Put(openedBy, sid, Account(login))
             /\ UNCHANGED <<accounts, madeBy, calm>>

PostLogin(b, login, password) ==
    /\ Request
    /\ Found(db, login) /\ Verify(db, login, password)
    /\ OpenSession(b, login)
    /\ UNCHANGED at

\* The row goes, and the browser is told to forget the cookie.
PostLogout(b) ==
    /\ Request
    /\ cookie[b] # NoSid
    /\ db' = DeleteSession(db, cookie[b])
    /\ cookie' = [cookie EXCEPT ![b] = NoSid]
    /\ UNCHANGED <<at, history>>

\* The account is committed before the session is opened.
PostSignup(b, login, password) ==
    /\ Request
    /\ ~Found(db, login)
    /\ \E subnet \in Subnets : NewAccount(login, password, subnet)
    /\ at' = [step |-> "session", browser |-> b, login |-> login]
    /\ UNCHANGED cookie

SignupSession ==
    /\ at.step = "session"
    /\ OpenSession(at.browser, at.login)
    /\ at' = Idle("serve")
    /\ UNCHANGED <<requests, crashes>>

\* The network is committed before its membership.
PostNetworkNew(b, prefix) ==
    /\ Request
    /\ LoggedIn(b)
    /\ ~NetworkTaken(db, SubnetOf(db, UserOf(b)), prefix)
    /\ db' = InsertNetwork(db, SubnetOf(db, UserOf(b)), prefix)
    /\ madeBy' = Put(madeBy, db.lastId + 1, Account(UserOf(b)))
    /\ at' = [step |-> "member", browser |-> b, login |-> UserOf(b)]
    /\ UNCHANGED <<cookie, accounts, openedBy, calm>>

NetworkMember ==
    /\ at.step = "member"
    /\ db' = InsertMember(db, db.lastId, at.login, TRUE)
    /\ at' = Idle("serve")
    /\ UNCHANGED <<cookie, requests, crashes, history>>

\* Whoever asks: neither the session nor the permission is looked at.
PostNetworkDelete(id) ==
    /\ Request
    /\ id \in DOMAIN db.networks
    /\ db' = DeleteNetwork(db, id)
    /\ UNCHANGED <<at, cookie, history>>

\* Load the rules of the user's subnet, edit them, save them.
RulesOf(b) == FirewallOf(db, SubnetOf(db, UserOf(b)))

SaveRules(b, rules) ==
    /\ db' = SaveFirewall(db, SubnetOf(db, UserOf(b)), rules)
    /\ UNCHANGED <<at, cookie, history>>

PostRuleNew(b, rule) ==
    /\ Request
    /\ LoggedIn(b)
    /\ SaveRules(b, AppendRule(RulesOf(b), rule))

PostRuleDelete(b, rule) ==
    /\ Request
    /\ LoggedIn(b)
    /\ SaveRules(b, RemoveRule(RulesOf(b), rule))

PostPassword(b, password, newPassword) ==
    /\ Request
    /\ LoggedIn(b) /\ Verify(db, UserOf(b), password)
    /\ db' = SetPassword(db, UserOf(b), newPassword)
    /\ UNCHANGED <<at, cookie, history>>

\* The account goes; post_logout is named but not called, so the browser
\* keeps its cookie.
PostUserDelete(b) ==
    /\ Request
    /\ LoggedIn(b)
    /\ db' = DeleteUser(db, UserOf(b))
    /\ calm' = (calm /\ \A u \in DOMAIN db.users \ {UserOf(b)} :
                            SubnetOf(db, u) # SubnetOf(db, UserOf(b)))
    /\ UNCHANGED <<at, cookie, accounts, openedBy, madeBy>>

\* The server stops anywhere and starts again; what was committed stays.
Crash ==
    /\ crashes < MaxCrashes
    /\ crashes' = crashes + 1
    /\ at' = Idle("boot")
    /\ calm' = (calm /\ at.step # "member")
    /\ UNCHANGED <<db, cookie, requests, accounts, openedBy, madeBy>>

Next ==
    \/ BootAdmin \/ BootPerms \/ BootAgain
    \/ \E b \in Browsers :
        \/ \E l \in Logins, p \in Passwords :
            PostLogin(b, l, p) \/ PostSignup(b, l, p)
        \/ PostLogout(b) \/ PostUserDelete(b)
        \/ \E c \in Cidrs : PostNetworkNew(b, c)
        \/ \E rule \in Rules : PostRuleNew(b, rule) \/ PostRuleDelete(b, rule)
        \/ \E p, q \in Passwords : PostPassword(b, p, q)
    \/ \E id \in DOMAIN db.networks : PostNetworkDelete(id)
    \/ SignupSession \/ NetworkMember
    \/ Crash

Spec == Init /\ [][Next]_vars

-----------------------------------------------------------------------------
(* Properties.                                                             *)

\* The rows of an account end with it: a session row, and a membership row,
\* belongs to the account that is now behind the login it names, never to an
\* earlier account of the same name.  Deleting an account and signing up again
\* under the name takes requests of two browsers.
RowsOfItsAccount ==
    /\ \A s \in DOMAIN db.sessions : openedBy[s] = Account(db.sessions[s])
    /\ \A m \in db.members : madeBy[m.net] = Account(m.login)

\* No network is kept for a subnet that nobody is in any more, in any state a
\* request or a crash can leave: nobody could list it or remove it.
NoOrphanNetwork ==
    \A i \in DOMAIN db.networks :
        \E u \in DOMAIN db.users : SubnetOf(db, u) = db.networks[i].subnet

\* A user is shown networks of the user's own subnet only, and all of them,
\* as long as no crash has cut the making of a network in two and nobody has
\* left a subnet others stay in.
ListsItsSubnet ==
    \A u \in DOMAIN db.users :
        LET own == {i \in DOMAIN db.networks :
                        db.networks[i].subnet = SubnetOf(db, u)}
        IN  /\ Visible(db, u) \subseteq own
            /\ calm /\ at.step # "member" => own \subseteq Visible(db, u)

Occurrences(rules, rule) == Cardinality({i \in DOMAIN rules : rules[i] = rule})

\* Editing a firewall changes the verdict on a packet only as the order of the
\* rules promises: a new rule decides only what no rule decided before, and
\* removing one, and no more than one, changes only what that rule decided.
VerdictsFollowRules ==
    [][\A s \in Subnets, src, dst \in Addresses :
          LET old == FirewallOf(db, s)
              new == FirewallOf(db', s)
          IN  GetAction(old, src, dst) # GetAction(new, src, dst) =>
                \/ /\ Len(new) > Len(old)
                   /\ ~\E i \in DOMAIN old : Match(old[i], src, dst)
                \/ \E i \in DOMAIN old :
                     /\ Len(new) = Len(old) - 1
                     /\ Match(old[i], src, dst)
                     /\ Occurrences(new, old[i]) < Occurrences(old, old[i])]_vars
=============================================================================
