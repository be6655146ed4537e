---------------------------- MODULE MCIcableWire ----------------------------
(* The instance of IcableWire that TLC explores. *)
EXTENDS IcableWire

CONSTANTS a1, a2

MCFrame(kind, len, body) == [kind |-> kind, len |-> len, body |-> body]

\* A datagram of four bytes of payload, the form the network library sends.
MCPlain == [ihl |-> 5, tos |-> 0, len |-> 24, id |-> 7, frag |-> 0, ttl |-> 64,
            protocol |-> 17, sum |-> 1, src |-> a1, dst |-> a2,
            rest |-> <<"a", "b", "c", "d">>]

\* Plain; with an ECN mark; with the largest dscp that is taken and the next;
\* don't-fragment; a middle fragment; with an option; with padding; checksum 0;
\* longer than its frame.
MCDatagrams ==
    {MCPlain,
     [MCPlain EXCEPT !.tos = 3],
     [MCPlain EXCEPT !.tos = 15 * 4],
     [MCPlain EXCEPT !.tos = 16 * 4],
     [MCPlain EXCEPT !.frag = 2^14],
     [MCPlain EXCEPT !.frag = 2^13 + 185],
     [MCPlain EXCEPT !.ihl = 6, !.len = 28,
                     !.rest = <<"o", "o", "o", "o">> \o @],
     [MCPlain EXCEPT !.len = 22],
     [MCPlain EXCEPT !.sum = 0],
     [MCPlain EXCEPT !.len = 26]}

\* Names and address requests as clients send them, and those on which the
\* decoding or the handler raises: cut short, empty, not UTF-8, an unknown
\* login, a mask above 32, AUTO_IPv4.
MCAuth(name, password, text) == [name |-> name, password |-> password, text |-> text]
MCName(text, known) == [name |-> 2, text |-> text, known |-> known]
MCConf(conf, mask) == [conf |-> conf, mask |-> mask]

MCFrames ==
    {MCFrame("CLIENT_DATA", IpHeaderBytes + Len(d.rest), d) : d \in MCDatagrams}
    \cup {MCFrame("CLIENT_DATA", 19, MCPlain),
          MCFrame("CLIENT_AUTH", 4, MCAuth(1, 1, TRUE)),
          MCFrame("CLIENT_AUTH", 4, MCAuth(1, 2, TRUE)),
          MCFrame("CLIENT_AUTH", 4, MCAuth(1, 1, FALSE)),
          MCFrame("CLIENT_AUTH", 0, MCAuth(0, 0, TRUE)),
          MCFrame("CLIENT_AUTH_REQUEST", 3, MCName(TRUE, TRUE)),
          MCFrame("CLIENT_AUTH_REQUEST", 3, MCName(TRUE, FALSE)),
          MCFrame("CLIENT_NETCONF", 6, MCConf(1, 24)),
          MCFrame("CLIENT_NETCONF", 6, MCConf(1, 33)),
          MCFrame("CLIENT_NETCONF", 3, MCConf(1, 24)),
          MCFrame("CLIENT_NETCONF", 1, MCConf(2, 0)),
          MCFrame("CLIENT_DISCONNECT", 0, << >>)}
=============================================================================
