------------------------------- MODULE MCBank -------------------------------
(* The instances of Bank that TLC explores. *)
EXTENDS Bank, TLC

CONSTANTS a1, a2, a3, a4, c1, c2

MCInitialDisk == (a1 :> [st |-> "ok", solde |-> 2]) @@
                 (a2 :> [st |-> "ok", solde |-> 0]) @@
                 (a3 :> [st |-> "none", solde |-> 0]) @@
                 (a4 :> [st |-> "bad", solde |-> 0])

Op(cmd, acc, dst, amount, card) ==
    [cmd |-> cmd, acc |-> acc, dst |-> dst, amount |-> amount, card |-> card]

Get(a)         == Op("GET_CREDIT", a, a, 0, "valid")
Pay(a, b, n)   == Op("MAKE_TRANSACTION", a, b, n, "valid")
Create         == Op("NEW_ACCOUNT", a1, a1, 0, "valid")
NewCard(a)     == Op("NEW_CB", a, a, 0, "valid")
Adjust(a, n)   == Op("EDIT", a, a, n, "valid")

\* The operations that move money, on accounts that exist.
Money == {Get(a1), Pay(a1, a2, 2), Pay(a2, a1, 1), Adjust(a1, -1), Adjust(a2, 1)}

\* A transaction with a negative amount, which takes a2 below zero.
Negative == Pay(a2, a1, -2)

\* Every way a request is refused, and the commands that move nothing.
Refused == {Get(a3), Get(a4), Pay(a1, a3, 1), Pay(a4, a1, 1), Create,
            NewCard(a1), NewCard(a3), Op("EDIT", a1, a1, 1, "invalid"),
            Op("GET_CREDIT", a1, a1, 0, "absent")}

\* Both clients move money.
MCMoney == c1 :> Money \cup {Negative} @@ c2 :> Money
MCTwice == c1 :> 2 @@ c2 :> 2

\* A client that moves money, to itself too, beside one that is mostly
\* refused; the first also creates accounts.
MCAll == c1 :> Money \cup {Pay(a1, a1, 1), Create}
         @@ c2 :> Refused \cup {Pay(a1, a2, 1), Negative}
MCTwiceOnce == c1 :> 2 @@ c2 :> 1
==============================================================================
