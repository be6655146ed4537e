----------------------------- MODULE BankLedger -----------------------------
(***************************************************************************)
(* What the programs that call bank_api rely on while the server runs: the *)
(* bank is one ledger, each request takes effect at once and at most once, *)
(* and what a call returns is the outcome of that very call.               *)
(***************************************************************************)
EXTENDS Integers

CONSTANTS Account, Client,
          Absent,     \* the "balance" of an account that cannot be used, no number
          NoOutcome   \* told to a client whose call has no answer (yet)

VARIABLES balance,  \* balance[a]: the credit of account a, or Absent
          newest,   \* newest[c]: the number of c's calls so far
          asked,    \* the requests not carried out yet
          executed, \* the outcomes of the ones that were
          told      \* told[c]: what c's newest call has returned

vars == <<balance, newest, asked, executed, told>>

Init ==
    /\ balance \in [Account -> Nat \cup {Absent}]
    /\ newest = [c \in Client |-> 0]
    /\ asked = {}
    /\ executed = {}
    /\ told = [c \in Client |-> NoOutcome]

\* A call; its request may be lost at once.
Ask(c) ==
    /\ newest' = [newest EXCEPT ![c] = @ + 1]
    /\ told' = [told EXCEPT ![c] = NoOutcome]
    /\ \/ \E r \in asked' \ asked : /\ r.id = <<c, newest'[c]>>
                                    /\ asked' = asked \cup {r}
       \/ asked' = asked
    /\ UNCHANGED <<balance, executed>>

Forget ==
    /\ asked' \subseteq asked
    /\ UNCHANGED <<balance, newest, executed, told>>

\* The request r is carried out and leaves the outcome o.
Finish(r, status, solde) ==
    /\ r \in asked
    /\ asked' = asked \ {r}
    /\ executed' = executed \cup
                       {[id |-> r.id, status |-> status, solde |-> solde]}
    /\ UNCHANGED <<newest, told>>

Refuse(r, status) ==
    /\ status # 0
    /\ Finish(r, status, 0)
    /\ UNCHANGED balance

Read(r) ==
    /\ r.cmd = "GET_CREDIT"
    /\ balance[r.acc] # Absent
    /\ Finish(r, 0, balance[r.acc])
    /\ UNCHANGED balance

MakeCard(r) ==
    /\ r.cmd = "NEW_CB"
    /\ balance[r.acc] # Absent
    /\ Finish(r, 0, 0)
    /\ UNCHANGED balance

Open(r, a) ==
    /\ r.cmd = "NEW_ACCOUNT"
    /\ balance[a] = Absent
    /\ balance' = [balance EXCEPT ![a] = 0]
    /\ Finish(r, 0, 0)

\* A withdrawal is covered; a deposit needs no cover.
Edit(r) ==
    /\ r.cmd = "EDIT"
    /\ balance[r.acc] # Absent
    /\ r.amount >= 0 \/ balance[r.acc] + r.amount >= 0
    /\ balance' = [balance EXCEPT ![r.acc] = @ + r.amount]
    /\ Finish(r, 0, 0)

\* The amount is covered, and its magnitude is paid: the two differ when the
\* amount is negative, which nobody refuses.
Move(r) ==
    LET paid == IF r.amount < 0 THEN -r.amount ELSE r.amount
    IN /\ r.cmd = "MAKE_TRANSACTION"
       /\ Absent \notin {balance[r.acc], balance[r.dst]}
       /\ balance[r.acc] >= r.amount
       /\ balance' = [[balance EXCEPT ![r.acc] = @ - paid]
                           EXCEPT ![r.dst] = @ + paid]
       /\ Finish(r, 0, 0)

\* The newest call of c returns the outcome of its own request.
Tell(c) ==
    /\ told[c] = NoOutcome
    /\ \E o \in executed : /\ o.id = <<c, newest[c]>>
                           /\ told' = [told EXCEPT ![c] = o]
    /\ UNCHANGED <<balance, newest, asked, executed>>

Next ==
    \/ \E c \in Client : Ask(c) \/ Tell(c)
    \/ Forget
    \/ \E r \in asked :
          \/ \E status \in 1..5 : Refuse(r, status)
          \/ Read(r) \/ MakeCard(r) \/ Edit(r) \/ Move(r)
          \/ \E a \in Account : Open(r, a)

Spec == Init /\ [][Next]_vars
==============================================================================
