--------------------------- MODULE MCIcableNodes ---------------------------
(* The instances of IcableNodes that TLC explores. *)
EXTENDS IcableNodes, TLC

CONSTANTS
    ann, bob, eve, p1, s1, s2, s3, c1, c2,
    a1, a2, n1, n2, n3

MCUser(subnet) == [password |-> p1, subnet |-> subnet, perms |-> {"OWNER"}]

\* ann and bob share a subnet with the network c1, eve has one with c2.
MCDb ==
    InsertMember(InsertNetwork(InsertMember(InsertNetwork(
        InsertUser(InsertUser(InsertUser(EmptyDb,
            ann, p1, s1), bob, p1, s1), eve, p1, s2),
        s1, c1), 1, ann, TRUE), s2, c2), 2, eve, TRUE)

MCAuth(login, secure) ==
    [kind |-> "CLIENT_AUTH", login |-> login, password |-> p1, secure |-> secure]
MCChallenge(login) == [kind |-> "CLIENT_AUTH_REQUEST", login |-> login]
MCConf(conf, addr, prefix) ==
    [kind |-> "CLIENT_NETCONF", conf |-> conf, addr |-> addr, prefix |-> prefix]
MCData(src, dst) == [kind |-> "CLIENT_DATA", src |-> src, dst |-> dst]
MCOther == [kind |-> "CLIENT_OTHER"]
MCMalformed == [kind |-> "MALFORMED"]

\* The first client takes an address and sends, the second receives, or asks
\* for the first one's address, and the third comes and leaves.
MCRequests ==
    (n1 :> << {MCAuth(ann, FALSE)}, {MCConf("MANUAL", a1, c1)}, {MCData(a1, a2)} >>) @@
    (n2 :> << {MCAuth(bob, FALSE)}, {MCConf("MANUAL", a1, c1), MCConf("MANUAL", a2, c1)} >>) @@
    (n3 :> << >>)

\* No packet may go from a1 to a2 in the first subnet any more.
MCWebChanges ==
    {[kind |-> "new rule", subnet |-> s1,
      rule |-> [src |-> {a1}, dst |-> {a2}, action |-> "DROP"]]}

-----------------------------------------------------------------------------
\* The second instance: one client sends to the other, or asks for what is
\* refused or raises; the other authenticates with challenges as a user of the
\* same subnet or of another, replays the answers, asks for an address in a
\* network it may use or may not, and leaves; the network and one account go,
\* and the login may be signed up again, with a subnet of its own.
MCLiveRequests ==
    (n1 :> << {MCAuth(ann, FALSE)},
              {MCConf("MANUAL", a1, c1), MCConf("AUTO", a1, c1), MCMalformed,
               MCConf("NONE", a1, c1), MCOther},
              {MCData(a1, a2)} >>) @@
    (n2 :> << {MCChallenge(bob), MCChallenge(eve)},
              {MCAuth(bob, TRUE), MCAuth(eve, TRUE)},
              {MCAuth(bob, TRUE), MCConf("MANUAL", a2, c1), MCConf("MANUAL", a2, c2)} >>)

MCLiveWebChanges == {[kind |-> "delete user", login |-> bob],
                     [kind |-> "sign up", login |-> bob, password |-> p1, subnet |-> s3],
                     [kind |-> "delete network", id |-> 1]}
==============================================================================
