---------------------------- MODULE MCIcableWeb ----------------------------
(* The instance of IcableWeb that TLC explores. *)
EXTENDS IcableWeb, TLC

CONSTANTS ann, a1, a2

MCRule(src, dst, action) == [src |-> src, dst |-> dst, action |-> action]

\* Two rules that disagree on packets from a1 to a2.
MCRules == {MCRule({a1}, {a1, a2}, "ALLOW"), MCRule({a1, a2}, {a2}, "DROP")}

MCSymmetry == Permutations(Sids) \cup Permutations(Subnets)
                  \cup Permutations(Browsers)
==============================================================================
