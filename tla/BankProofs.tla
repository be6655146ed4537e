----------------------------- MODULE BankProofs -----------------------------
(***************************************************************************)
(* Theorems about Bank, for every set of accounts, clients and operations: *)
(* its type invariant, that every debit is covered unless a transaction is *)
(* negative, that OK means written, whatever crashes, disk    *)
(* errors and losses happen, that a server no crash or disk error cuts     *)
(* short implements BankLedger, that its transactions conserve the money,  *)
(* and that a server that is cut short never creates any.                  *)
(***************************************************************************)
EXTENDS Bank, SequenceTheorems, FiniteSetTheorems, WellFoundedInduction, TLAPS

LEMMA StatusNumbers == Statuses = {-1, 0, 1, 2, 3, 4, 5}
BY DEF Statuses, OK, NO_ACCOUNT, ERROR_ACCOUNT, ERROR_CB, ERROR_AMOUNT, DENIED,
       ERROR_RECEIVING_ACCOUNT, TIMEOUT

\* What the verdict and the balance of a request can be.
LEMMA VerdictType ==
    ASSUME NEW r \in Request
    PROVE  Verdict(r) \in Statuses \ {TIMEOUT}
BY StatusNumbers DEF Verdict, AccountStatus, OK, NO_ACCOUNT, ERROR_ACCOUNT,
       ERROR_CB, ERROR_AMOUNT, DENIED, ERROR_RECEIVING_ACCOUNT, TIMEOUT

LEMMA EditsType ==
    ASSUME NEW r \in Request, NEW new \in Account
    PROVE  /\ Edits(r, new) \in Seq(Edit)
           /\ Len(Edits(r, new)) <= 2
<1>1. CASE r.cmd = "MAKE_TRANSACTION"
  <2>1. /\ [acc |-> r.acc, amount |-> -Abs(r.amount)] \in Edit
        /\ [acc |-> r.dst, amount |-> Abs(r.amount)] \in Edit
    BY DEF Request, Edit, Abs
  <2> QED
    BY <1>1, <2>1 DEF Edits
<1>2. CASE r.cmd = "EDIT"
  <2>1. [acc |-> r.acc, amount |-> r.amount] \in Edit
    BY DEF Request, Edit
  <2> QED
    BY <1>2, <2>1 DEF Edits
<1>3. CASE r.cmd = "NEW_ACCOUNT"
  <2>1. [acc |-> new, amount |-> 0] \in Edit
    BY DEF Edit
  <2> QED
    BY <1>3, <2>1 DEF Edits
<1>4. CASE r.cmd \notin {"MAKE_TRANSACTION", "EDIT", "NEW_ACCOUNT"}
  BY <1>4 DEF Edits
<1> QED
  BY <1>1, <1>2, <1>3, <1>4

LEMMA OutcomeType ==
    ASSUME NEW r \in Request, disk \in [Account -> File]
    PROVE  OutcomeOf(r) \in Outcome
BY VerdictType DEF OutcomeOf, Outcome, Request, File

LEMMA CurrentType ==
    ASSUME disk \in [Account -> File], NEW a \in Account
    PROVE  Current(a) \in Int
BY DEF Current, File

------------------------------------------------------------------------------
(* The type invariant *)

\* A file is open for the first of the edits that remain.
OpenForEdit == (job # NoJob /\ job.open) => job.edits # <<>>

LEMMA OpenForEditStep == TypeOK /\ OpenForEdit /\ [Next]_vars => OpenForEdit'
<1> SUFFICES ASSUME TypeOK, OpenForEdit, [Next]_vars
             PROVE  OpenForEdit'
    OBVIOUS
<1>1. ASSUME NEW c \in Client,
             (\E op \in Operations[c] : Call(c, op))
               \/ Answered(c) \/ GivesUp(c) \/ LoseReply(c)
      PROVE  OpenForEdit'
  BY <1>1 DEF OpenForEdit, Call, Answered, GivesUp, LoseReply
<1>2. ASSUME NEW new \in Account, Handle(new)
      PROVE  OpenForEdit'
  <2>1. job'.open = FALSE
    BY <1>2 DEF Handle
  <2> QED
    BY <2>1 DEF OpenForEdit
<1>3. ASSUME OpenFile
      PROVE  OpenForEdit'
  <2>1. job \in Job /\ job.edits # <<>>
    BY <1>3 DEF OpenFile, TypeOK
  <2>2. job'.edits = job.edits
    BY <1>3, <2>1 DEF OpenFile, Job
  <2> QED
    BY <2>1, <2>2 DEF OpenForEdit
<1>4. ASSUME WriteFile
      PROVE  OpenForEdit'
  <2>1. job \in Job
    BY <1>4 DEF WriteFile, TypeOK
  <2>2. job'.open = FALSE
    BY <1>4, <2>1 DEF WriteFile, Job
  <2> QED
    BY <2>2 DEF OpenForEdit
<1>5. ASSUME DiskFails \/ Answer \/ Stop \/ Crash
      PROVE  OpenForEdit'
  BY <1>5 DEF OpenForEdit, DiskFails, Answer, Stop, Crash
<1>6. ASSUME HandleRaises \/ LoseRequest \/ Start
      PROVE  OpenForEdit'
  BY <1>6 DEF OpenForEdit, HandleRaises, LoseRequest, Start
<1>7. CASE UNCHANGED vars
  BY <1>7 DEF OpenForEdit, vars
<1> QED
  BY <1>1, <1>2, <1>3, <1>4, <1>5, <1>6, <1>7 DEF Next

\* Every step keeps every variable in its type.
LEMMA TypeStep == TypeOK /\ OpenForEdit /\ [Next]_vars => TypeOK'
<1> SUFFICES ASSUME TypeOK, OpenForEdit, [Next]_vars
             PROVE  TypeOK'
    OBVIOUS
<1> USE ConstantsOK DEF TypeOK
<1>1. ASSUME NEW c \in Client, NEW op \in Operations[c], Call(c, op)
      PROVE  TypeOK'
  <2> DEFINE n == call[c].n + 1
             req == [id |-> <<c, n>>, cmd |-> op.cmd, acc |-> op.acc,
                     dst |-> op.dst, amount |-> op.amount, card |-> op.card]
  <2>1. req \in Request
    BY DEF Request, Operation
  <2>2. inbox' \in Seq(Request)
    BY <1>1, <2>1 DEF Call
  <2>3. call' \in [Client -> [n : Nat, waiting : BOOLEAN, status : Statuses,
                              solde : Int]]
    BY <1>1, StatusNumbers DEF Call, TIMEOUT
  <2> QED
    BY <1>1, <2>2, <2>3 DEF Call
<1>2. ASSUME NEW c \in Client, Answered(c)
      PROVE  TypeOK'
  <2>1. /\ reply[c].status \in Statuses
        /\ reply[c].solde \in Int
    BY <1>2 DEF Answered, Outcome
  <2>4. /\ call' = [call EXCEPT ![c] = call'[c]]
        /\ call'[c] \in [n : Nat, waiting : BOOLEAN, status : Statuses, solde : Int]
    BY <1>2, <2>1 DEF Answered
  <2>2. call' \in [Client -> [n : Nat, waiting : BOOLEAN, status : Statuses,
                              solde : Int]]
    BY <2>4
  <2>3. reply' \in [Client -> Outcome \cup {NoReply}]
    BY <1>2 DEF Answered
  <2> QED
    BY <1>2, <2>2, <2>3 DEF Answered
<1>3. ASSUME NEW c \in Client, GivesUp(c) \/ LoseReply(c)
      PROVE  TypeOK'
  <2>1. CASE GivesUp(c)
    <3>1. call' \in [Client -> [n : Nat, waiting : BOOLEAN, status : Statuses,
                                solde : Int]]
      BY <2>1 DEF GivesUp
    <3>2. reply' \in [Client -> Outcome \cup {NoReply}]
      BY <2>1 DEF GivesUp
    <3> QED
      BY <2>1, <3>1, <3>2 DEF GivesUp
  <2>2. CASE LoseReply(c)
    BY <2>2 DEF LoseReply
  <2> QED
    BY <1>3, <2>1, <2>2
<1>4. ASSUME NEW new \in Account, Handle(new)
      PROVE  TypeOK'
  <2> DEFINE r == Head(inbox)
             edits == IF Verdict(r) = OK THEN Edits(r, new) ELSE <<>>
  <2>1. /\ r \in Request
        /\ inbox' \in Seq(Request)
    BY <1>4, HeadTailProperties DEF Handle
  <2>2. OutcomeOf(r) \in Outcome
    BY <2>1, OutcomeType
  <2>3. edits \in Seq(Edit)
    BY <2>1, EditsType
  <2>4. job' \in Job
    BY <1>4, <2>1, <2>2, <2>3 DEF Handle, Job
  <2> QED
    BY <1>4, <2>1, <2>2, <2>4 DEF Handle
<1>5. ASSUME HandleRaises \/ LoseRequest
      PROVE  TypeOK'
  <2>1. CASE HandleRaises
    <3>1. inbox' \in Seq(Request)
      BY <2>1, HeadTailProperties DEF HandleRaises
    <3> QED
      BY <2>1, <3>1 DEF HandleRaises
  <2>2. CASE LoseRequest
    <3>1. inbox' \in Seq(Request)
      BY <2>2, HeadTailProperties DEF LoseRequest
    <3> QED
      BY <2>2, <3>1 DEF LoseRequest
  <2> QED
    BY <1>5, <2>1, <2>2
<1>6. ASSUME OpenFile
      PROVE  TypeOK'
  <2>1. /\ job \in Job
        /\ Head(job.edits) \in Edit
    BY <1>6, HeadTailProperties DEF OpenFile, Job
  <2>2. Current(Head(job.edits).acc) \in Int
    BY <2>1, CurrentType DEF Edit
  <2>3. Current(Head(job.edits).acc) + Head(job.edits).amount \in Int
    BY <2>1, <2>2 DEF Edit
  <2>5. job' = [job EXCEPT !.open = TRUE,
                   !.value = Current(Head(job.edits).acc) + Head(job.edits).amount]
    BY <1>6 DEF OpenFile
  <2>6. job' \in Job
    BY <2>1, <2>3, <2>5 DEF Job
  <2>4. disk' \in [Account -> File]
    BY <1>6, <2>1, ZenonT(30) DEF OpenFile, Edit, File
  <2> QED
    BY <1>6, <2>6, <2>4 DEF OpenFile
<1>7. ASSUME WriteFile
      PROVE  TypeOK'
  <2>1. /\ job \in Job
        /\ Head(job.edits) \in Edit
        /\ Tail(job.edits) \in Seq(Edit)
    BY <1>7, HeadTailProperties DEF WriteFile, Job, OpenForEdit
  <2> QED
    BY <1>7, <2>1 DEF WriteFile, Job, Edit, File
<1>8. ASSUME DiskFails
      PROVE  TypeOK'
  BY <1>8 DEF DiskFails
<1>9. ASSUME Stop \/ Crash
      PROVE  TypeOK'
  <2>1. inbox' \in Seq(Request)
    BY <1>9, EmptySeq, ZenonT(30) DEF Stop, Crash
  <2>2. CASE Stop
    BY <2>1, <2>2 DEF Stop
  <2>3. CASE Crash
    BY <2>1, <2>3 DEF Crash
  <2> QED
    BY <1>9, <2>2, <2>3
<1>10. ASSUME Start
      PROVE  TypeOK'
  <2>1. up' \in BOOLEAN
    BY <1>10 DEF Start
  <2> QED
    BY <1>10, <2>1 DEF Start
<1>11. ASSUME Answer
       PROVE  TypeOK'
  BY <1>11 DEF Answer, Job, Outcome
<1>12. CASE UNCHANGED vars
  BY <1>12 DEF vars
<1> QED
  BY <1>1, <1>2, <1>3, <1>4, <1>5, <1>6, <1>7, <1>8, <1>9, <1>10, <1>11, <1>12
     DEF Next

\* The bank keeps its types: no status but the documented ones is ever sent,
\* ERROR_UNKNOWN included.
THEOREM TypeCorrect == Spec => []TypeOK
<1>1. Init => TypeOK /\ OpenForEdit
  BY ConstantsOK, StatusNumbers, EmptySeq DEF Init, TypeOK, OpenForEdit, OK
<1> QED
  BY <1>1, TypeStep, OpenForEditStep, PTL DEF Spec

------------------------------------------------------------------------------
(* Debits are covered *)

\* The next edit leaves a balance of at least 0, is a credit or belongs to a
\* negative transaction, and the one after it is the credit of a transaction.
IsCovered(e, r) == \/ Current(e.acc) + e.amount >= 0
                   \/ e.amount >= 0
                   \/ IsNegative(r)

EditsOK ==
    job # NoJob =>
        /\ Len(job.edits) <= 2
        /\ Len(job.edits) = 2 => job.edits[2].amount >= 0
        /\ (job.edits # <<>> /\ ~job.open) => IsCovered(job.edits[1], job.req)

Solvent == TypeOK /\ OpenForEdit /\ EditsOK

\* A request that is granted leads to such edits.
LEMMA GrantedEdits ==
    ASSUME NEW r \in Request, NEW new \in Account,
           disk \in [Account -> File], Verdict(r) = OK
    PROVE  /\ Len(Edits(r, new)) = 2 => Edits(r, new)[2].amount >= 0
           /\ Edits(r, new) # <<>> => IsCovered(Edits(r, new)[1], r)
<1>1. CASE r.cmd = "MAKE_TRANSACTION"
  <2>1. disk[r.acc].st = "ok" /\ ~Short(r)
    BY <1>1 DEF Verdict, AccountStatus, OK, NO_ACCOUNT, ERROR_ACCOUNT, ERROR_CB,
                ERROR_AMOUNT, DENIED, ERROR_RECEIVING_ACCOUNT
  <2>2. /\ r.amount < 0 \/ Current(r.acc) + -Abs(r.amount) >= 0
        /\ Abs(r.amount) >= 0
    BY <1>1, <2>1 DEF Short, Current, Abs, Request, File
  <2> QED
    BY <1>1, <2>2 DEF Edits, IsCovered, IsNegative
<1>2. CASE r.cmd = "EDIT"
  <2>1. disk[r.acc].st = "ok" /\ ~Short(r)
    BY <1>2 DEF Verdict, AccountStatus, OK, NO_ACCOUNT, ERROR_ACCOUNT, ERROR_CB,
                ERROR_AMOUNT, DENIED, ERROR_RECEIVING_ACCOUNT
  <2>2. r.amount >= 0 \/ Current(r.acc) + r.amount >= 0
    BY <1>2, <2>1 DEF Short, Current, Abs, Request, File
  <2> QED
    BY <1>2, <2>2 DEF Edits, IsCovered
<1>3. CASE r.cmd = "NEW_ACCOUNT"
  BY <1>3 DEF Edits, IsCovered
<1>4. CASE r.cmd \notin {"MAKE_TRANSACTION", "EDIT", "NEW_ACCOUNT"}
  BY <1>4 DEF Edits
<1> QED
  BY <1>1, <1>2, <1>3, <1>4

LEMMA TailOfPair ==
    ASSUME NEW S, NEW s \in Seq(S), s # <<>>, Tail(s) # <<>>, Len(s) <= 2
    PROVE  Len(s) = 2 /\ Len(Tail(s)) = 1 /\ Tail(s)[1] = s[2]
<1>1. /\ Tail(s) \in Seq(S)
      /\ Len(Tail(s)) = Len(s) - 1
      /\ \A i \in 1..Len(Tail(s)) : Tail(s)[i] = s[i + 1]
  BY HeadTailProperties
<1>2. Len(s) \in Nat /\ Len(Tail(s)) \in Nat \ {0}
  BY <1>1, EmptySeq
<1> QED
  BY <1>1, <1>2

\* Every step keeps the bank solvent.
LEMMA SolventStep == Solvent /\ [Next]_vars => Solvent'
<1> SUFFICES ASSUME Solvent, [Next]_vars
             PROVE  Solvent'
    OBVIOUS
<1>0. TypeOK /\ OpenForEdit /\ EditsOK /\ TypeOK' /\ OpenForEdit'
  BY TypeStep, OpenForEditStep DEF Solvent
<1> SUFFICES EditsOK'
  BY <1>0 DEF Solvent
<1>a. ASSUME job' = job, disk' = disk PROVE EditsOK'
  BY <1>0, <1>a DEF EditsOK, IsCovered, IsNegative, Current
<1>1. ASSUME NEW c \in Client,
             (\E op \in Operations[c] : Call(c, op))
               \/ Answered(c) \/ GivesUp(c) \/ LoseReply(c)
      PROVE  EditsOK'
  <2>1. job' = job /\ disk' = disk
    BY <1>1 DEF Call, Answered, GivesUp, LoseReply
  <2> QED
    BY <1>a, <2>1
<1>2. ASSUME HandleRaises \/ LoseRequest \/ Start \/ UNCHANGED vars
      PROVE  EditsOK'
  <2>1. job' = job /\ disk' = disk
    BY <1>2 DEF HandleRaises, LoseRequest, Start, vars
  <2> QED
    BY <1>a, <2>1
<1>3. ASSUME NEW new \in Account, Handle(new)
      PROVE  EditsOK'
  <2>r. PICK r : r = Head(inbox)
    OBVIOUS
  <2>1. r \in Request /\ disk' = disk
    BY <1>0, <1>3, <2>r, HeadTailProperties DEF Handle, TypeOK
  <2>2. /\ job'.edits = (IF Verdict(r) = OK THEN Edits(r, new) ELSE <<>>)
        /\ job'.req = r
    BY <1>3, <2>r DEF Handle
  <2>3. CASE Verdict(r) = OK
    <3>1. /\ Len(Edits(r, new)) <= 2
          /\ Len(Edits(r, new)) = 2 => Edits(r, new)[2].amount >= 0
          /\ Edits(r, new) # <<>> => IsCovered(Edits(r, new)[1], r)
      BY <1>0, <2>1, <2>3, EditsType, GrantedEdits DEF TypeOK
    <3> QED
      BY <2>1, <2>2, <2>3, <3>1 DEF EditsOK, IsCovered, IsNegative, Current
  <2>4. CASE Verdict(r) # OK
    BY <2>2, <2>4, EmptySeq DEF EditsOK
  <2> QED
    BY <2>3, <2>4
<1>4. ASSUME OpenFile
      PROVE  EditsOK'
  <2>1. job \in Job /\ job # NoJob
    BY <1>0, <1>4 DEF OpenFile, TypeOK
  <2>2. job'.edits = job.edits /\ job'.open
    BY <1>4, <2>1 DEF OpenFile, Job
  <2> QED
    BY <1>0, <2>1, <2>2 DEF EditsOK
<1>5. ASSUME WriteFile
      PROVE  EditsOK'
  <2>1. job \in Job /\ job # NoJob /\ job.edits # <<>> /\ job.edits \in Seq(Edit)
    BY <1>0, <1>5 DEF WriteFile, TypeOK, OpenForEdit, Job
  <2>2. job'.edits = Tail(job.edits)
    BY <1>5, <2>1 DEF WriteFile, Job
  <2>3. CASE Tail(job.edits) = <<>>
    <3>1. job'.edits = <<>> /\ Len(job'.edits) = 0
      BY <2>2, <2>3, EmptySeq
    <3> QED
      BY <3>1 DEF EditsOK
  <2>4. CASE Tail(job.edits) # <<>>
    <3>1. Len(job.edits) = 2 /\ Len(Tail(job.edits)) = 1
          /\ Tail(job.edits)[1] = job.edits[2]
      BY <1>0, <2>1, <2>4, TailOfPair DEF EditsOK
    <3>2. job.edits[2].amount >= 0
      BY <1>0, <2>1, <3>1 DEF EditsOK
    <3>3. Len(job'.edits) = 1 /\ job'.edits[1].amount >= 0
      BY <2>2, <3>1, <3>2
    <3>4. IsCovered(job.edits[1], job.req)'
      BY <3>3 DEF IsCovered
    <3> QED
      BY <3>3, <3>4 DEF EditsOK
  <2> QED
    BY <2>3, <2>4
<1>6. ASSUME DiskFails \/ Answer \/ Stop \/ Crash
      PROVE  EditsOK'
  BY <1>6 DEF DiskFails, Answer, Stop, Crash, EditsOK
<1> QED
  BY <1>1, <1>2, <1>3, <1>4, <1>5, <1>6 DEF Next

\* A file is opened where its edit is covered.
LEMMA OpenedCovered ==
    ASSUME Solvent, [Next]_vars, job' # NoJob, job'.open, job # NoJob => ~job.open
    PROVE  \/ job'.value >= 0
           \/ job'.value >= Current(Head(job'.edits).acc)
           \/ IsNegative(job'.req)
<1>0. TypeOK /\ OpenForEdit /\ EditsOK
  BY DEF Solvent
<1>1. OpenFile
  <2>1. job' # job
    OBVIOUS
  <2>2. ASSUME NEW new \in Account, Handle(new) PROVE FALSE
    <3>1. ~job'.open
      BY <2>2 DEF Handle
    <3> QED
      BY <3>1
  <2>3. ASSUME WriteFile PROVE FALSE
    BY <2>3 DEF WriteFile
  <2>4. ASSUME DiskFails \/ Answer \/ Stop \/ Crash PROVE FALSE
    BY <2>4 DEF DiskFails, Answer, Stop, Crash
  <2>5. ASSUME HandleRaises \/ LoseRequest \/ Start \/ UNCHANGED vars PROVE FALSE
    BY <2>1, <2>5 DEF HandleRaises, LoseRequest, Start, vars
  <2>6. ASSUME NEW c \in Client,
               (\E op \in Operations[c] : Call(c, op))
                 \/ Answered(c) \/ GivesUp(c) \/ LoseReply(c)
        PROVE  FALSE
    BY <2>1, <2>6 DEF Call, Answered, GivesUp, LoseReply
  <2> QED
    BY <2>2, <2>3, <2>4, <2>5, <2>6 DEF Next
<1> DEFINE e == job.edits[1]
<1>2. job \in Job /\ job # NoJob /\ job.edits # <<>> /\ ~job.open
  BY <1>0, <1>1 DEF OpenFile, TypeOK
<1>3. Head(job.edits) = e /\ e \in Edit
  BY <1>2, HeadTailProperties DEF Job
<1>4. Current(e.acc) \in Int /\ e.amount \in Int
  BY <1>0, <1>3, CurrentType DEF TypeOK, Edit
<1>5. job' = [job EXCEPT !.open = TRUE, !.value = Current(e.acc) + e.amount]
  BY <1>1, <1>3 DEF OpenFile
<1>6. /\ job'.edits = job.edits /\ job'.req = job.req
      /\ job'.value = Current(e.acc) + e.amount
  <2> HIDE DEF e
  <2> QED
    BY <1>2, <1>5 DEF Job
<1>7. IsCovered(e, job.req)
  BY <1>0, <1>2 DEF EditsOK
<1> HIDE DEF e
<1>8. Current(e.acc) + e.amount >= 0 \/ Current(e.acc) + e.amount >= Current(e.acc)
      \/ IsNegative(job.req)
  BY <1>4, <1>7 DEF IsCovered
<1> QED
  BY <1>3, <1>6, <1>8

LEMMA SolventInit == Init => Solvent
<1> SUFFICES ASSUME Init PROVE Solvent
  OBVIOUS
<1>1. TypeOK /\ OpenForEdit
  BY ConstantsOK, StatusNumbers, EmptySeq DEF Init, TypeOK, OpenForEdit, OK
<1>2. EditsOK
  BY DEF Init, EditsOK
<1> QED
  BY <1>1, <1>2 DEF Solvent

\* Only a credit and a negative transaction ever open a file for a balance below
\* zero, whatever amounts the clients ask for and whatever crashes, disk errors
\* and losses happen.
THEOREM DebitsCovered == Spec => DebitsAreCovered
<1>1. Solvent /\ [Next]_vars =>
        [LET opened == job' # NoJob /\ job'.open /\ (job # NoJob => ~job.open)
         IN opened => \/ job'.value >= 0
                      \/ job'.value >= Current(Head(job'.edits).acc)
                      \/ IsNegative(job'.req)]_vars
  BY OpenedCovered
<1> QED
  BY <1>1, SolventInit, SolventStep, PTL DEF Spec, DebitsAreCovered

------------------------------------------------------------------------------
(* OK means written *)

\* The request being handled is the one its outcome names, and once none of
\* its edits remains a granted one counts as written.
JobIsDurable ==
    job # NoJob =>
        /\ job.outcome.id = job.req.id
        /\ (job.outcome.status = OK /\ job.edits = <<>>) => job.req \in written

\* The change of the newest call of c is on the disk.
Done(c) == \E r \in written : r.id = <<c, call[c].n>>

\* Only the newest call of a client is answered, and with OK only when done.
ReplyIsDurable ==
    \A c \in Client :
        reply[c] # NoReply =>
            call[c].waiting /\ (reply[c].status = OK => Done(c))

NoStatusYet == \A c \in Client : call[c].waiting => call[c].status = TIMEOUT

Durable == /\ TypeOK /\ OpenForEdit
           /\ JobIsDurable /\ ReplyIsDurable /\ NoStatusYet /\ OkIsDurable

\* Nothing the clients know changes while the calls and answers stand still
\* and no change is undone.
LEMMA ClientsStandStill ==
    ASSUME ReplyIsDurable, NoStatusYet, OkIsDurable,
           call' = call, reply' = reply, written \subseteq written'
    PROVE  ReplyIsDurable' /\ NoStatusYet' /\ OkIsDurable'
BY DEF ReplyIsDurable, NoStatusYet, OkIsDurable, Done

LEMMA TailOfSingleton ==
    ASSUME NEW S, NEW s \in Seq(S), s # <<>>, Tail(s) = <<>>
    PROVE  Len(s) = 1
<1>1. Len(Tail(s)) = Len(s) - 1 /\ Len(s) \in Nat
  BY HeadTailProperties, LenProperties
<1>2. Len(Tail(s)) = 0
  BY EmptySeq
<1> QED
  BY <1>1, <1>2

LEMMA DurableStep == Durable /\ [Next]_vars => Durable'
<1> SUFFICES ASSUME Durable, [Next]_vars
             PROVE  Durable'
    OBVIOUS
<1>0. /\ TypeOK /\ OpenForEdit /\ TypeOK' /\ OpenForEdit'
      /\ JobIsDurable /\ ReplyIsDurable /\ NoStatusYet /\ OkIsDurable
  BY TypeStep, OpenForEditStep DEF Durable
<1> DEFINE Goal == JobIsDurable' /\ ReplyIsDurable' /\ NoStatusYet' /\ OkIsDurable'
<1> SUFFICES Goal
  BY <1>0 DEF Durable
<1>1. ASSUME NEW c \in Client, NEW op \in Operations[c], Call(c, op)
      PROVE  Goal
  <2>1. call' = [call EXCEPT ![c] = [n |-> call[c].n + 1, waiting |-> TRUE,
                                     status |-> TIMEOUT, solde |-> 0]]
        /\ ~call[c].waiting /\ job' = job /\ reply' = reply /\ written' = written
    BY <1>1 DEF Call
  <2>2. reply[c] = NoReply
    BY <1>0, <2>1 DEF ReplyIsDurable
  <2>3. call'[c].waiting /\ call'[c].status = TIMEOUT
        /\ \A d \in Client \ {c} : call'[d] = call[d]
    BY <1>0, <2>1 DEF TypeOK
  <2>4. JobIsDurable'
    BY <1>0, <2>1 DEF JobIsDurable
  <2>5. ReplyIsDurable'
    BY <1>0, <2>1, <2>2, <2>3 DEF ReplyIsDurable, Done
  <2>6. NoStatusYet' /\ OkIsDurable'
    BY <1>0, <2>1, <2>3, ZenonT(30) DEF NoStatusYet, OkIsDurable
  <2> QED
    BY <2>4, <2>5, <2>6
<1>2. ASSUME NEW c \in Client, Answered(c)
      PROVE  Goal
  <2>1. /\ \A d \in Client \ {c} : call'[d] = call[d] /\ reply'[d] = reply[d]
        /\ call'[c].n = call[c].n /\ ~call'[c].waiting
        /\ call'[c].status = reply[c].status
        /\ reply'[c] = NoReply /\ reply[c] # NoReply
        /\ job' = job /\ written' = written
    BY <1>0, <1>2 DEF Answered, TypeOK
  <2>2. reply[c].status = OK => Done(c)
    BY <1>0, <2>1 DEF ReplyIsDurable
  <2>3. JobIsDurable' /\ ReplyIsDurable' /\ NoStatusYet'
    BY <1>0, <2>1, ZenonT(30) DEF JobIsDurable, ReplyIsDurable, NoStatusYet, Done
  <2>4. OkIsDurable'
    BY <1>0, <2>1, <2>2 DEF OkIsDurable, Done
  <2> QED
    BY <2>3, <2>4
<1>3. ASSUME NEW c \in Client, GivesUp(c)
      PROVE  Goal
  <2>1. /\ \A d \in Client \ {c} : call'[d] = call[d] /\ reply'[d] = reply[d]
        /\ call'[c].n = call[c].n /\ ~call'[c].waiting
        /\ call'[c].status = call[c].status /\ call[c].waiting
        /\ reply'[c] = NoReply
        /\ job' = job /\ written' = written
    BY <1>0, <1>3 DEF GivesUp, TypeOK
  <2>2. call'[c].status # OK
    BY <1>0, <2>1 DEF NoStatusYet, TIMEOUT, OK
  <2>3. JobIsDurable' /\ ReplyIsDurable'
    BY <1>0, <2>1 DEF JobIsDurable, ReplyIsDurable, Done
  <2>4. NoStatusYet' /\ OkIsDurable'
    BY <1>0, <2>1, <2>2 DEF NoStatusYet, OkIsDurable
  <2> QED
    BY <2>3, <2>4
<1>4. ASSUME NEW c \in Client, LoseReply(c)
      PROVE  Goal
  <2>1. /\ \A d \in Client : reply'[d] = reply[d] \/ reply'[d] = NoReply
        /\ call' = call /\ job' = job /\ written' = written
    BY <1>0, <1>4 DEF LoseReply, TypeOK
  <2> QED
    BY <1>0, <2>1
       DEF JobIsDurable, ReplyIsDurable, NoStatusYet, OkIsDurable, Done
<1>5. ASSUME NEW new \in Account, Handle(new)
      PROVE  Goal
  <2> DEFINE r == Head(inbox)
             granted == Verdict(r) = OK
             edits == IF granted THEN Edits(r, new) ELSE <<>>
  <2>1. /\ job' = [req |-> r, outcome |-> OutcomeOf(r), edits |-> edits,
                   open |-> FALSE, value |-> 0]
        /\ written' = IF granted /\ Edits(r, new) = <<>>
                      THEN written \cup {r} ELSE written
        /\ call' = call /\ reply' = reply
    BY <1>5 DEF Handle
  <2>2. OutcomeOf(r).id = r.id /\ (OutcomeOf(r).status = OK => granted)
    BY DEF OutcomeOf
  <2>3. JobIsDurable'
    BY <2>1, <2>2 DEF JobIsDurable
  <2>4. written \subseteq written'
    BY <2>1
  <2> QED
    BY <1>0, <2>1, <2>3, <2>4, ClientsStandStill
<1>6. ASSUME OpenFile
      PROVE  Goal
  <2>1. job \in Job /\ job # NoJob /\ job.edits # <<>>
    BY <1>0, <1>6 DEF OpenFile, TypeOK
  <2>2. job'.edits # <<>> /\ job'.outcome = job.outcome /\ job'.req = job.req
    BY <1>6, <2>1 DEF OpenFile, Job
  <2>3. JobIsDurable'
    BY <1>0, <2>1, <2>2 DEF JobIsDurable
  <2>4. call' = call /\ reply' = reply /\ written' = written
    BY <1>6 DEF OpenFile
  <2> QED
    BY <1>0, <2>3, <2>4, ClientsStandStill
<1>7. ASSUME WriteFile
      PROVE  Goal
  <2>1. job \in Job /\ job # NoJob /\ job.edits # <<>>
    BY <1>0, <1>7 DEF WriteFile, TypeOK, OpenForEdit
  <2>2. /\ job'.edits = Tail(job.edits)
        /\ job'.outcome = job.outcome /\ job'.req = job.req
    BY <1>7, <2>1 DEF WriteFile, Job
  <2>3. Tail(job.edits) = <<>> => Len(job.edits) = 1
    BY <2>1, TailOfSingleton DEF Job
  <2>4. written' = IF Len(job.edits) = 1 THEN written \cup {job.req} ELSE written
    BY <1>7 DEF WriteFile
  <2>5. JobIsDurable'
    BY <1>0, <2>1, <2>2, <2>3, <2>4 DEF JobIsDurable
  <2>6. call' = call /\ reply' = reply /\ written \subseteq written'
    BY <1>7, <2>4 DEF WriteFile
  <2> QED
    BY <1>0, <2>5, <2>6, ClientsStandStill
<1>8. ASSUME Answer
      PROVE  Goal
  <2> DEFINE c == job.req.id[1]
  <2>1. /\ job \in Job /\ job # NoJob /\ job.edits = <<>>
        /\ job' = NoJob /\ call' = call /\ written' = written
        /\ reply' = IF WaitsFor(c, job.req.id)
                    THEN [reply EXCEPT ![c] = job.outcome] ELSE reply
    BY <1>0, <1>8 DEF Answer, TypeOK
  <2>2. c \in Client
    BY <2>1 DEF Job, Request
  <2>3. CASE WaitsFor(c, job.req.id)
    <3>1. call[c].waiting /\ (job.outcome.status = OK => Done(c))
      BY <1>0, <2>1, <2>2, <2>3 DEF WaitsFor, JobIsDurable, Done
    <3>2. /\ reply'[c] = job.outcome
          /\ \A d \in Client \ {c} : reply'[d] = reply[d]
      BY <1>0, <2>1, <2>2, <2>3 DEF TypeOK
    <3>3. ReplyIsDurable'
      BY <1>0, <2>1, <3>1, <3>2 DEF ReplyIsDurable, Done
    <3> QED
      <4>1. JobIsDurable'
        BY <2>1 DEF JobIsDurable
      <4>2. NoStatusYet' /\ OkIsDurable'
        BY <1>0, <2>1 DEF NoStatusYet, OkIsDurable
      <4> QED
        BY <3>3, <4>1, <4>2
  <2>4. CASE ~WaitsFor(c, job.req.id)
    BY <1>0, <2>1, <2>4, ClientsStandStill DEF JobIsDurable
  <2> QED
    BY <2>3, <2>4
<1>9. ASSUME DiskFails \/ Stop \/ Crash
      PROVE  Goal
  <2>1. job' = NoJob /\ call' = call /\ reply' = reply /\ written' = written
    BY <1>9 DEF DiskFails, Stop, Crash
  <2> QED
    BY <1>0, <2>1, ClientsStandStill DEF JobIsDurable
<1>10. ASSUME HandleRaises \/ LoseRequest \/ Start \/ UNCHANGED vars
       PROVE  Goal
  <2>1. job' = job /\ call' = call /\ reply' = reply /\ written' = written
    BY <1>10 DEF HandleRaises, LoseRequest, Start, vars
  <2> QED
    BY <1>0, <2>1, ClientsStandStill DEF JobIsDurable
<1> QED
  BY <1>1, <1>2, <1>3, <1>4, <1>5, <1>6, <1>7, <1>8, <1>9, <1>10 DEF Next

\* A client that is told OK can rely on it: the change it asked for is on the
\* disk, after any crash, disk error, loss or time-out.
THEOREM OkMeansWritten == Spec => []OkIsDurable
<1>1. Init => Durable
  <2> SUFFICES ASSUME Init PROVE Durable
    OBVIOUS
  <2>1. TypeOK /\ OpenForEdit
    BY ConstantsOK, StatusNumbers, EmptySeq DEF Init, TypeOK, OpenForEdit, OK
  <2>2. JobIsDurable /\ ReplyIsDurable /\ NoStatusYet /\ OkIsDurable
    BY DEF Init, JobIsDurable, ReplyIsDurable, NoStatusYet, OkIsDurable
  <2> QED
    BY <2>1, <2>2 DEF Durable
<1>2. Durable => OkIsDurable
  BY DEF Durable
<1> QED
  BY <1>1, <1>2, DurableStep, PTL DEF Spec

------------------------------------------------------------------------------
(* The bank implements the ledger *)

\* No crash and no disk error cuts a request in two.
Undisturbed == ~MayCrash /\ ~DiskMayFail

\* No two requests on their way are of the same call, and none is of a call
\* still to come.
QueueOK ==
    /\ \A i \in 1..Len(inbox) : inbox[i].id[2] <= call[inbox[i].id[1]].n
    /\ \A i, j \in 1..Len(inbox) : inbox[i].id = inbox[j].id => i = j

\* What is answered is an outcome of the log, and of the newest call.
FaithfulOK ==
    /\ \A o \in log : o.status # TIMEOUT
    /\ job # NoJob => job.outcome \in log /\ job.outcome.id = job.req.id
    /\ \A c \in Client : reply[c] # NoReply =>
          /\ call[c].waiting
          /\ reply[c] \in log
          /\ reply[c].id = <<c, call[c].n>>
    /\ \A c \in Client : call[c].waiting => call[c].n # 0
    /\ NoStatusYet

Orderly == Solvent /\ QueueOK /\ FaithfulOK

LEMMA QueueType ==
    ASSUME TypeOK, NEW i \in 1..Len(inbox)
    PROVE  /\ inbox[i] \in Request
           /\ inbox[i].id[1] \in Client
           /\ inbox[i].id[2] \in Nat
<1>1. inbox \in Seq(Request) /\ inbox[i] \in Request
  BY DEF TypeOK
<1>2. inbox[i].id \in Client \X Nat
  BY <1>1 DEF Request
<1> QED
  BY <1>1, <1>2

LEMMA QueueShrinks ==
    ASSUME TypeOK, QueueOK, inbox # <<>>, inbox' = Tail(inbox), call' = call
    PROVE  QueueOK'
<1>1. /\ inbox \in Seq(Request)
      /\ Tail(inbox) \in Seq(Request)
      /\ Len(Tail(inbox)) = Len(inbox) - 1
      /\ \A i \in 1..Len(Tail(inbox)) : Tail(inbox)[i] = inbox[i + 1]
  BY HeadTailProperties DEF TypeOK
<1>2. Len(inbox) \in Nat
  BY <1>1
<1>3. \A i \in 1..Len(inbox') : i + 1 \in 1..Len(inbox) /\ inbox'[i] = inbox[i + 1]
  BY <1>1, <1>2
<1>4. \A i, j \in 1..Len(inbox') : i + 1 = j + 1 => i = j
  OBVIOUS
<1> QED
  BY <1>3, <1>4 DEF QueueOK

LEMMA QueueStep == TypeOK /\ QueueOK /\ [Next]_vars => QueueOK'
<1> SUFFICES ASSUME TypeOK, QueueOK, [Next]_vars PROVE QueueOK'
  OBVIOUS
<1>1. ASSUME NEW c \in Client, NEW op \in Operations[c], Call(c, op)
      PROVE  QueueOK'
  <2> DEFINE req == [id |-> <<c, call[c].n + 1>>, cmd |-> op.cmd, acc |-> op.acc,
                     dst |-> op.dst, amount |-> op.amount, card |-> op.card]
  <2>1. /\ \A d \in Client \ {c} : call'[d] = call[d]
        /\ call'[c].n = call[c].n + 1
        /\ \A d \in Client : call[d].n \in Nat
    BY <1>1 DEF Call, TypeOK
  <2>2. \A d \in Client : /\ call[d].n \in Nat /\ call'[d].n \in Nat
                            /\ call[d].n <= call'[d].n
    BY <2>1
  <2>3. inbox \in Seq(Request) /\ Len(inbox) \in Nat
    BY DEF TypeOK
  <2>4. \A i \in 1..Len(inbox) : inbox[i].id[1] \in Client /\ inbox[i].id[2] \in Nat
    BY QueueType
  <2>5. ASSUME NEW i \in 1..Len(inbox)
        PROVE  inbox[i].id[2] <= call'[inbox[i].id[1]].n
    <3>1. inbox[i].id[2] <= call[inbox[i].id[1]].n
      BY DEF QueueOK
    <3>2. call[inbox[i].id[1]].n <= call'[inbox[i].id[1]].n
      BY <2>2, <2>4
    <3> QED
      BY ONLY <2>2, <2>4, <3>1, <3>2, i \in 1..Len(inbox)
  <2>6. CASE inbox' = inbox
    BY <2>5, <2>6 DEF QueueOK
  <2>7. CASE inbox' = Append(inbox, req)
    <3>1. /\ Len(inbox') = Len(inbox) + 1
          /\ \A i \in 1..Len(inbox) : inbox'[i] = inbox[i]
          /\ inbox'[Len(inbox) + 1] = req
      BY <2>3, <2>7
    <3>2. req.id = <<c, call[c].n + 1>> /\ req.id[1] = c /\ req.id[2] = call[c].n + 1
      OBVIOUS
    <3>3. \A i \in 1..Len(inbox) : inbox[i].id # req.id
      <4> TAKE i \in 1..Len(inbox)
      <4>1. inbox[i].id[2] <= call[inbox[i].id[1]].n
        BY DEF QueueOK
      <4>2. call[c].n \in Nat /\ inbox[i].id[2] \in Nat
        BY <2>2, <2>4
      <4> HIDE DEF req
      <4>3. CASE inbox[i].id[1] = c
        <5>1. inbox[i].id[2] # call[c].n + 1
          BY ONLY <4>1, <4>2, <4>3
        <5> QED
          BY <3>2, <5>1
      <4>4. CASE inbox[i].id[1] # c
        BY <3>2, <4>4
      <4> QED
        BY <4>3, <4>4
    <3> HIDE DEF req
    <3>4. \A i \in 1..Len(inbox') : i \in 1..Len(inbox) \/ i = Len(inbox) + 1
      BY <2>3, <3>1
    <3>5. \A i \in 1..Len(inbox') : inbox'[i].id[2] <= call'[inbox'[i].id[1]].n
      BY <2>1, <2>5, <3>1, <3>2, <3>4
    <3>6. \A i, j \in 1..Len(inbox') : inbox'[i].id = inbox'[j].id => i = j
      BY <3>1, <3>3, <3>4 DEF QueueOK
    <3> QED
      BY <3>5, <3>6 DEF QueueOK
  <2> QED
    BY <1>1, <2>6, <2>7 DEF Call
<1>2. ASSUME NEW c \in Client, Answered(c) \/ GivesUp(c) \/ LoseReply(c)
      PROVE  QueueOK'
  <2>1. inbox' = inbox /\ \A d \in Client : call'[d].n = call[d].n
    <3>1. CASE Answered(c)
      BY <3>1 DEF Answered, TypeOK
    <3>2. CASE GivesUp(c)
      BY <3>2 DEF GivesUp, TypeOK
    <3>3. CASE LoseReply(c)
      BY <3>3 DEF LoseReply
    <3> QED
      BY <1>2, <3>1, <3>2, <3>3
  <2>2. \A i \in 1..Len(inbox) : inbox[i].id[1] \in Client
    BY QueueType
  <2> QED
    BY <2>1, <2>2 DEF QueueOK
<1>3. ASSUME (\E new \in Account : Handle(new)) \/ HandleRaises \/ LoseRequest
      PROVE  QueueOK'
  <2>1. inbox # <<>> /\ inbox' = Tail(inbox) /\ call' = call
    BY <1>3 DEF Handle, HandleRaises, LoseRequest
  <2> QED
    BY <2>1, QueueShrinks
<1>4. ASSUME OpenFile \/ WriteFile \/ DiskFails \/ Answer \/ Start \/ UNCHANGED vars
      PROVE  QueueOK'
  <2>1. inbox' = inbox /\ call' = call
    BY <1>4 DEF OpenFile, WriteFile, DiskFails, Answer, Start, vars
  <2> QED
    BY <2>1 DEF QueueOK
<1>5. ASSUME Stop \/ Crash
      PROVE  QueueOK'
  <2>1. Len(inbox') = 0
    BY <1>5 DEF Stop, Crash
  <2> QED
    BY <2>1 DEF QueueOK
<1> QED
  BY <1>1, <1>2, <1>3, <1>4, <1>5 DEF Next

LEMMA FaithfulStep == TypeOK /\ OpenForEdit /\ FaithfulOK /\ [Next]_vars => FaithfulOK'
<1> SUFFICES ASSUME TypeOK, OpenForEdit, FaithfulOK, [Next]_vars PROVE FaithfulOK'
  OBVIOUS
<1>0. TypeOK'
  BY TypeStep
<1>1. ASSUME NEW c \in Client, NEW op \in Operations[c], Call(c, op)
      PROVE  FaithfulOK'
  <2>1. /\ job' = job /\ reply' = reply /\ log' = log
        /\ ~call[c].waiting
        /\ call'[c].waiting /\ call'[c].status = TIMEOUT /\ call'[c].n # 0
        /\ \A d \in Client \ {c} : call'[d] = call[d]
    BY <1>1 DEF Call, TypeOK
  <2>2. reply[c] = NoReply
    BY <2>1 DEF FaithfulOK
  <2> QED
    BY <2>1, <2>2 DEF FaithfulOK, NoStatusYet
<1>2. ASSUME NEW c \in Client, Answered(c) \/ GivesUp(c)
      PROVE  FaithfulOK'
  <2>1. /\ job' = job /\ log' = log
        /\ ~call'[c].waiting /\ reply'[c] = NoReply
        /\ \A d \in Client \ {c} : call'[d] = call[d] /\ reply'[d] = reply[d]
    <3>1. CASE Answered(c)
      BY <3>1 DEF Answered, TypeOK
    <3>2. CASE GivesUp(c)
      BY <3>2 DEF GivesUp, TypeOK
    <3> QED
      BY <1>2, <3>1, <3>2
  <2> QED
    BY <2>1 DEF FaithfulOK, NoStatusYet
<1>3. ASSUME NEW c \in Client, LoseReply(c)
      PROVE  FaithfulOK'
  <2>1. /\ job' = job /\ log' = log /\ call' = call
        /\ \A d \in Client : reply'[d] = NoReply \/ reply'[d] = reply[d]
    BY <1>3 DEF LoseReply, TypeOK
  <2> QED
    BY <2>1 DEF FaithfulOK, NoStatusYet
<1>4. ASSUME NEW new \in Account, Handle(new)
      PROVE  FaithfulOK'
  <2> DEFINE r == Head(inbox)
             o == OutcomeOf(r)
  <2>1. r \in Request
    BY <1>4, HeadTailProperties DEF Handle, TypeOK
  <2>2. /\ o.id = r.id /\ o.status = Verdict(r)
        /\ job'.outcome = o /\ job'.req = r
        /\ log' = log \cup {o} /\ reply' = reply /\ call' = call
    BY <1>4 DEF Handle, OutcomeOf
  <2>3. o.status # TIMEOUT
    BY <2>1, <2>2, VerdictType
  <2> HIDE DEF o, r
  <2> QED
    BY <2>2, <2>3 DEF FaithfulOK, NoStatusYet
<1>5. ASSUME OpenFile \/ WriteFile
      PROVE  FaithfulOK'
  <2>1. /\ job # NoJob /\ job'.outcome = job.outcome /\ job'.req = job.req
        /\ log' = log /\ reply' = reply /\ call' = call
    <3>1. CASE OpenFile
      BY <3>1 DEF OpenFile, TypeOK, Job
    <3>2. CASE WriteFile
      BY <3>2 DEF WriteFile, TypeOK, Job
    <3> QED
      BY <1>5, <3>1, <3>2
  <2> QED
    BY <2>1 DEF FaithfulOK, NoStatusYet
<1>6. ASSUME Answer
      PROVE  FaithfulOK'
  <2> DEFINE c == job.req.id[1]
  <2>1. /\ job \in Job /\ job # NoJob
        /\ job' = NoJob /\ call' = call /\ log' = log
        /\ reply' = IF WaitsFor(c, job.req.id)
                    THEN [reply EXCEPT ![c] = job.outcome] ELSE reply
    BY <1>6 DEF Answer, TypeOK
  <2>2. job.outcome \in log /\ job.outcome.id = job.req.id
    BY <2>1 DEF FaithfulOK
  <2>3. ASSUME NEW d \in Client, reply'[d] # NoReply
        PROVE  /\ call[d].waiting
               /\ reply'[d] \in log
               /\ reply'[d].id = <<d, call[d].n>>
    <3>1. CASE reply'[d] = reply[d]
      BY <2>3, <3>1 DEF FaithfulOK
    <3>2. CASE reply'[d] # reply[d]
      <4>1. WaitsFor(c, job.req.id) /\ d = c /\ reply'[d] = job.outcome
        BY <2>1, <3>2 DEF TypeOK
      <4> QED
        BY <2>2, <4>1 DEF WaitsFor
    <3> QED
      BY <3>1, <3>2
  <2> QED
    BY <2>1, <2>3 DEF FaithfulOK, NoStatusYet
<1>7. ASSUME DiskFails \/ Stop \/ Crash
      PROVE  FaithfulOK'
  <2>1. job' = NoJob /\ call' = call /\ reply' = reply /\ log' = log
    BY <1>7 DEF DiskFails, Stop, Crash
  <2> QED
    BY <2>1 DEF FaithfulOK, NoStatusYet
<1>8. ASSUME HandleRaises \/ LoseRequest \/ Start \/ UNCHANGED vars
      PROVE  FaithfulOK'
  <2>1. job' = job /\ call' = call /\ reply' = reply /\ log' = log
    BY <1>8 DEF HandleRaises, LoseRequest, Start, vars
  <2> QED
    BY <2>1 DEF FaithfulOK, NoStatusYet
<1> QED
  BY <1>1, <1>2, <1>3, <1>4, <1>5, <1>6, <1>7, <1>8 DEF Next

LEMMA OrderlyStep == Orderly /\ [Next]_vars => Orderly'
<1> SUFFICES ASSUME Orderly, [Next]_vars PROVE Orderly'
  OBVIOUS
<1>1. Solvent /\ QueueOK /\ FaithfulOK /\ TypeOK /\ OpenForEdit
  BY DEF Orderly, Solvent
<1> QED
  BY <1>1, SolventStep, QueueStep, FaithfulStep DEF Orderly

\* The state of the ledger, and its steps.
Bal == [a \in Account |-> Balance(a)]
Newest == [c \in Client |-> call[c].n]
Asked == {inbox[i] : i \in 1..Len(inbox)}
Tells == [c \in Client |-> Told(c)]
LedgerStep == [Ledger!Next]_(Ledger!vars)

LEMMA LedgerStutters ==
    ASSUME UNCHANGED <<Bal, Newest, Asked, log, Tells>>
    PROVE  LedgerStep
BY DEF LedgerStep, Ledger!vars, Bal, Newest, Asked, Tells

LEMMA LedgerForgets ==
    ASSUME UNCHANGED <<Bal, Newest, log, Tells>>, Asked' \subseteq Asked
    PROVE  LedgerStep
BY DEF LedgerStep, Ledger!Next, Ledger!Forget, Bal, Newest, Asked, Tells

LEMMA LedgerTells ==
    ASSUME UNCHANGED <<Bal, Newest, log, Asked>>,
           NEW c \in Client, Tells[c] = NoReply,
           NEW o \in log, o.id = <<c, Newest[c]>>, Tells' = [Tells EXCEPT ![c] = o]
    PROVE  LedgerStep
<1>1. Ledger!Tell(c)
  BY DEF Ledger!Tell, Bal, Newest, Asked, Tells
<1> QED
  BY <1>1 DEF LedgerStep, Ledger!Next

LEMMA LedgerCarriesOut ==
    ASSUME NEW r \in Asked,
           \/ \E status \in 1..5 : Ledger!Refuse(r, status)
           \/ Ledger!Read(r) \/ Ledger!MakeCard(r) \/ Ledger!Edit(r) \/ Ledger!Move(r)
           \/ \E a \in Account : Ledger!Open(r, a)
    PROVE  LedgerStep
<1>1. r \in {inbox[i] : i \in 1..Len(inbox)}
  BY DEF Asked
<1> QED
  BY <1>1, Zenon DEF LedgerStep, Ledger!Next

\* What a step leaves of the balances when it touches no file and no edit.
LEMMA BalanceStands ==
    ASSUME disk' = disk, job' = job
    PROVE  Bal' = Bal
BY DEF Bal, Balance, Unwritten, Touched, Due, BeingWritten, Current

LEMMA BalanceDone ==
    ASSUME TypeOK, OpenForEdit, disk' = disk, job' = NoJob,
           job # NoJob => job.edits = <<>>
    PROVE  Bal' = Bal
<1>1. Unwritten = <<>> /\ Unwritten' = <<>>
  BY DEF Unwritten, OpenForEdit
<1>2. \A a \in Account : ~BeingWritten(a) /\ ~BeingWritten(a)'
  BY DEF BeingWritten, OpenForEdit
<1>3. \A a \in Account : Current(a)' = Current(a)
  BY DEF Current
<1> QED
  BY <1>1, <1>2, <1>3 DEF Bal, Balance, Touched, Due

\* The edits that remain when the first is about to be written.
LEMMA Remaining ==
    ASSUME TypeOK, OpenForEdit, job # NoJob, job.edits # <<>>, Len(job.edits) <= 2
    PROVE  /\ job \in Job /\ job.edits \in Seq(Edit)
           /\ Head(job.edits) = job.edits[1] /\ job.edits[1] \in Edit
           /\ Len(job.edits) \in {1, 2}
           /\ Tail(job.edits) \in Seq(Edit)
           /\ Len(Tail(job.edits)) = Len(job.edits) - 1
           /\ Len(job.edits) = 2 => /\ Tail(job.edits)[1] = job.edits[2]
                                    /\ job.edits[2] \in Edit
<1>1. job \in Job /\ job.edits \in Seq(Edit)
  BY DEF TypeOK, Job
<1>2. /\ Head(job.edits) = job.edits[1]
      /\ Tail(job.edits) \in Seq(Edit)
      /\ Len(Tail(job.edits)) = Len(job.edits) - 1
      /\ \A i \in 1..Len(Tail(job.edits)) : Tail(job.edits)[i] = job.edits[i + 1]
  BY <1>1, HeadTailProperties
<1>3. Len(job.edits) \in Nat /\ Len(job.edits) # 0
  BY <1>1, EmptySeq
<1>4. Len(job.edits) \in {1, 2}
  <2> DEFINE n == Len(job.edits)
  <2>1. n \in Nat /\ n # 0 /\ n <= 2
    BY <1>3
  <2> HIDE DEF n
  <2>2. n \in {1, 2}
    BY <2>1
  <2> QED
    BY <2>2 DEF n
<1>5. Len(job.edits) = 2 => /\ Tail(job.edits)[1] = job.edits[2]
                            /\ job.edits[2] \in Edit
  BY <1>1, <1>2
<1>6. job.edits[1] \in Edit
  BY <1>1, <1>4
<1> QED
  BY <1>1, <1>2, <1>4, <1>5, <1>6

\* Opening a file for an edit takes the edit from the list into the value.
LEMMA BalanceOpens ==
    ASSUME TypeOK, OpenForEdit, OpenFile, Len(job.edits) <= 2
    PROVE  Bal' = Bal
<1> DEFINE E == job.edits
           R == Tail(E)
<1>1. job # NoJob /\ E # <<>> /\ ~job.open
  BY DEF OpenFile
<1>2. /\ job \in Job /\ Head(E) = E[1] /\ E[1] \in Edit
      /\ Len(E) \in {1, 2} /\ Len(R) = Len(E) - 1
      /\ Len(E) = 2 => R[1] = E[2] /\ E[2] \in Edit
  BY <1>1, Remaining
<1>3. job' = [job EXCEPT !.open = TRUE, !.value = Current(E[1].acc) + E[1].amount]
  BY <1>2 DEF OpenFile
<1>4. /\ job' # NoJob /\ job'.open /\ job'.edits = E
      /\ job'.value = Current(E[1].acc) + E[1].amount
  <2>1. job' \in Job
    <3>1. Current(E[1].acc) + E[1].amount \in Int
      BY <1>2, CurrentType DEF TypeOK, Edit
    <3> QED
      BY <1>2, <1>3, <3>1 DEF Job
  <2> QED
    BY <1>2, <1>3, <2>1, ConstantsOK DEF Job
<1>5. Unwritten = E /\ Unwritten' = R
  BY <1>1, <1>4 DEF Unwritten
<1>6. /\ disk' = [disk EXCEPT ![E[1].acc].st = "torn"]
      /\ disk \in [Account -> File]
  BY <1>2 DEF OpenFile, TypeOK
<1> HIDE DEF E, R
<1>7. ASSUME NEW a \in Account
      PROVE  Balance(a)' = Balance(a)
  <2>1. /\ Touched(a, 1) <=> E[1].acc = a
        /\ Touched(a, 2) <=> Len(E) = 2 /\ E[2].acc = a
        /\ Touched(a, 1)' <=> Len(E) = 2 /\ E[2].acc = a
        /\ ~Touched(a, 2)'
    BY <1>2, <1>5 DEF Touched
  <2>2. /\ ~BeingWritten(a)
        /\ BeingWritten(a)' <=> E[1].acc = a
    BY <1>1, <1>2, <1>4 DEF BeingWritten
  <2> DEFINE d == IF Len(E) = 2 /\ E[2].acc = a THEN E[2].amount ELSE 0
  <2>3. /\ Due(a, 1) = IF E[1].acc = a THEN E[1].amount ELSE 0
        /\ Due(a, 2) = d /\ Due(a, 1)' = d /\ Due(a, 2)' = 0
    BY <1>2, <1>5, <2>1 DEF Due
  <2>4. d \in Int /\ E[1].amount \in Int /\ Current(a) \in Int
    BY <1>2, <1>6, CurrentType DEF Edit
  <2> HIDE DEF d
  <2>5. CASE E[1].acc = a
    <3>1. Balance(a) = Current(a) + E[1].amount + d
      BY <2>1, <2>2, <2>3, <2>5 DEF Balance
    <3>2. Balance(a)' = Current(a) + E[1].amount + d + 0
      BY <1>4, <2>2, <2>3, <2>5 DEF Balance
    <3> QED
      BY <2>4, <3>1, <3>2
  <2>6. CASE E[1].acc # a
    <3>1. disk'[a] = disk[a]
      BY <1>6, <2>6
    <3>2. Current(a)' = Current(a)
      BY <3>1 DEF Current
    <3>3. Balance(a) = IF disk[a].st = "ok" \/ (Len(E) = 2 /\ E[2].acc = a)
                       THEN Current(a) + 0 + d ELSE Absent
      BY <2>1, <2>2, <2>3, <2>6 DEF Balance
    <3>4. Balance(a)' = IF disk[a].st = "ok" \/ (Len(E) = 2 /\ E[2].acc = a)
                        THEN Current(a) + d + 0 ELSE Absent
      BY <2>1, <2>2, <2>3, <2>6, <3>1, <3>2 DEF Balance
    <3> QED
      BY <2>4, <3>3, <3>4
  <2> QED
    BY <2>5, <2>6
<1> QED
  BY <1>7 DEF Bal

\* Writing a file takes the balance from the value into the file.
LEMMA BalanceWrites ==
    ASSUME TypeOK, OpenForEdit, WriteFile, Len(job.edits) <= 2
    PROVE  Bal' = Bal
<1> DEFINE E == job.edits
           R == Tail(E)
<1>1. job # NoJob /\ E # <<>> /\ job.open
  BY DEF WriteFile, OpenForEdit
<1>2. /\ job \in Job /\ Head(E) = E[1] /\ E[1] \in Edit
      /\ Len(E) \in {1, 2} /\ Len(R) = Len(E) - 1
      /\ Len(E) = 2 => R[1] = E[2] /\ E[2] \in Edit
  BY <1>1, Remaining
<1>3. /\ job' # NoJob /\ ~job'.open /\ job'.edits = R
  <2>1. job' = [job EXCEPT !.open = FALSE, !.edits = R]
    BY DEF WriteFile
  <2>2. R \in Seq(Edit)
    BY <1>1, Remaining
  <2>3. job' \in Job
    BY <1>2, <2>1, <2>2 DEF Job
  <2> QED
    BY <1>2, <2>1, <2>3, ConstantsOK DEF Job
<1>4. Unwritten = R /\ Unwritten' = R
  BY <1>1, <1>3 DEF Unwritten
<1>5. /\ disk' = [disk EXCEPT ![E[1].acc] = [st |-> "ok", solde |-> job.value]]
      /\ disk \in [Account -> File]
  BY <1>2 DEF WriteFile, TypeOK
<1> HIDE DEF E, R
<1>6. ASSUME NEW a \in Account
      PROVE  Balance(a)' = Balance(a)
  <2>1. /\ Touched(a, 1)' = Touched(a, 1) /\ Touched(a, 2)' = Touched(a, 2)
        /\ Due(a, 1)' = Due(a, 1) /\ Due(a, 2)' = Due(a, 2)
    BY <1>4 DEF Touched, Due
  <2>2. /\ BeingWritten(a) <=> E[1].acc = a
        /\ ~BeingWritten(a)'
    BY <1>1, <1>2, <1>3 DEF BeingWritten, E
  <2>3. CASE E[1].acc = a
    <3>1. disk'[a].st = "ok" /\ Current(a)' = job.value
      BY <1>5, <2>3 DEF Current
    <3> QED
      BY <2>1, <2>2, <2>3, <3>1 DEF Balance
  <2>4. CASE E[1].acc # a
    <3>1. disk'[a] = disk[a] /\ Current(a)' = Current(a)
      BY <1>5, <2>4 DEF Current
    <3> QED
      BY <2>1, <2>2, <2>4, <3>1 DEF Balance
  <2> QED
    BY <2>3, <2>4
<1> QED
  BY <1>6 DEF Bal

\* A request taken from the queue is asked no more.
LEMMA HeadIsTaken ==
    ASSUME TypeOK, QueueOK, inbox # <<>>, inbox' = Tail(inbox)
    PROVE  /\ Head(inbox) \in Asked /\ Head(inbox) \in Request
           /\ Asked' = Asked \ {Head(inbox)}
<1>1. /\ inbox \in Seq(Request)
      /\ Head(inbox) = inbox[1]
      /\ Head(inbox) \in Request
      /\ Len(Tail(inbox)) = Len(inbox) - 1
      /\ \A i \in 1..Len(Tail(inbox)) : Tail(inbox)[i] = inbox[i + 1]
  BY HeadTailProperties DEF TypeOK
<1>2. Len(inbox) \in Nat /\ Len(inbox) # 0
  BY <1>1, EmptySeq
<1> DEFINE n == Len(inbox)
<1>3. n \in Nat /\ n # 0 /\ Len(inbox') = n - 1 /\ 1 \in 1..n
  BY <1>1, <1>2
<1>4. \A i \in 1..(n - 1) : i + 1 \in 1..n /\ inbox'[i] = inbox[i + 1] /\ i + 1 # 1
  BY <1>1, <1>3
<1>5. \A i \in 1..n : i = 1 \/ (i - 1 \in 1..(n - 1) /\ inbox[i] = inbox'[i - 1])
  <2> TAKE i \in 1..n
  <2>1. i = 1 \/ (i - 1 \in 1..(n - 1) /\ (i - 1) + 1 = i)
    BY <1>3
  <2> QED
    BY <1>4, <2>1
<1>6. \A i \in 1..n : inbox[i] = inbox[1] => i = 1
  BY <1>3 DEF QueueOK
<1>7. Asked' = {inbox'[i] : i \in 1..(n - 1)} /\ Asked = {inbox[i] : i \in 1..n}
  BY <1>3 DEF Asked
<1> HIDE DEF n
<1>8. ASSUME NEW x PROVE x \in Asked' <=> x \in Asked \ {inbox[1]}
  <2>1. CASE x \in Asked'
    <3>1. PICK i \in 1..(n - 1) : x = inbox'[i]
      BY <1>7, <2>1
    <3> QED
      BY <1>4, <1>6, <1>7, <3>1
  <2>2. CASE x \in Asked \ {inbox[1]}
    <3>1. PICK i \in 1..n : x = inbox[i] /\ i # 1
      BY <1>7, <2>2
    <3> QED
      BY <1>5, <1>7, <2>2, <3>1
  <2> QED
    BY <2>1, <2>2
<1> QED
  BY <1>1, <1>3, <1>7, <1>8

\* The client c returns from its call, or gives it up.
LEMMA LedgerClient ==
    ASSUME Orderly, NEW c \in Client,
           (\E op \in Operations[c] : Call(c, op))
             \/ Answered(c) \/ GivesUp(c) \/ LoseReply(c)
    PROVE  LedgerStep
<1>0. TypeOK /\ QueueOK /\ FaithfulOK /\ NoStatusYet
  BY DEF Orderly, Solvent, FaithfulOK
<1>1. disk' = disk /\ job' = job /\ log' = log
  BY DEF Call, Answered, GivesUp, LoseReply
<1>2. Bal' = Bal
  BY <1>1, BalanceStands
<1>3. ASSUME NEW op \in Operations[c], Call(c, op)
      PROVE  LedgerStep
  <2> DEFINE req == [id |-> <<c, call[c].n + 1>>, cmd |-> op.cmd, acc |-> op.acc,
                     dst |-> op.dst, amount |-> op.amount, card |-> op.card]
  <2>1. /\ call' = [call EXCEPT ![c] = [n |-> call[c].n + 1, waiting |-> TRUE,
                                        status |-> TIMEOUT, solde |-> 0]]
        /\ inbox' = inbox \/ inbox' = Append(inbox, req)
    BY <1>3 DEF Call
  <2>2. Newest' = [Newest EXCEPT ![c] = @ + 1] /\ Newest'[c] = call[c].n + 1
    BY <1>0, <2>1 DEF Newest, TypeOK
  <2>3. Tells' = [Tells EXCEPT ![c] = NoReply]
    BY <1>0, <2>1 DEF Tells, Told, TypeOK
  <2>4. Asked' = Asked \/ Asked' = Asked \cup {req}
    <3>1. CASE inbox' = inbox
      BY <3>1 DEF Asked
    <3>2. CASE inbox' = Append(inbox, req)
      <4>1. /\ inbox \in Seq(Request) /\ Len(inbox) \in Nat
            /\ Len(inbox') = Len(inbox) + 1
            /\ \A i \in 1..Len(inbox) : inbox'[i] = inbox[i]
            /\ inbox'[Len(inbox) + 1] = req
        BY <1>0, <3>2 DEF TypeOK
      <4>2. \A i \in 1..Len(inbox') : i \in 1..Len(inbox) \/ i = Len(inbox) + 1
        BY <4>1
      <4>3. \A i \in 1..Len(inbox) : i \in 1..Len(inbox')
        BY <4>1
      <4>4. Len(inbox) + 1 \in 1..Len(inbox')
        BY <4>1
      <4> HIDE DEF req
      <4> QED
        BY <4>1, <4>2, <4>3, <4>4, Zenon DEF Asked
    <3> QED
      BY <2>1, <3>1, <3>2
  <2>5. req.id = <<c, Newest'[c]>>
    BY <2>2
  <2> HIDE DEF req
  <2>6. Ledger!Ask(c)
    <3>1. CASE Asked' = Asked
      BY <1>1, <1>2, <2>2, <2>3, <3>1
         DEF Ledger!Ask, Bal, Newest, Asked, Tells
    <3>2. CASE Asked' # Asked
      <4>1. Asked' = Asked \cup {req} /\ req \in Asked' \ Asked
        BY <2>4, <3>2
      <4> QED
        BY <1>1, <1>2, <2>2, <2>3, <2>5, <4>1
           DEF Ledger!Ask, Bal, Newest, Asked, Tells
    <3> QED
      BY <3>1, <3>2
  <2> QED
    BY <2>6 DEF LedgerStep, Ledger!Next
<1>4. ASSUME Answered(c)
      PROVE  LedgerStep
  <2>1. /\ call[c].waiting /\ reply[c] # NoReply /\ inbox' = inbox
        /\ call'[c].n = call[c].n /\ ~call'[c].waiting
        /\ call'[c].status = reply[c].status
        /\ call'[c].solde = reply[c].solde
        /\ \A d \in Client \ {c} : call'[d] = call[d]
    BY <1>0, <1>4 DEF Answered, TypeOK
  <2>2. /\ reply[c] \in log /\ reply[c].id = <<c, call[c].n>>
        /\ reply[c].status # TIMEOUT
        /\ reply[c] \in Outcome
    BY <1>0, <2>1 DEF FaithfulOK, TypeOK
  <2>3. reply[c] = [id |-> <<c, call[c].n>>, status |-> reply[c].status,
                    solde |-> reply[c].solde]
    BY <2>2 DEF Outcome
  <2>4. Told(c) = NoReply /\ \A d \in Client \ {c} : Told(d)' = Told(d)
    BY <2>1 DEF Told
  <2>5. call'[c].n # 0
    BY <1>0, <2>1 DEF FaithfulOK
  <2>6. Told(c)' = reply[c]
    BY <2>1, <2>2, <2>3, <2>5 DEF Told
  <2>7. Newest' = Newest /\ Asked' = Asked /\ Tells' = [Tells EXCEPT ![c] = reply[c]]
        /\ Tells[c] = NoReply /\ Newest[c] = call[c].n
    BY <2>1, <2>4, <2>6 DEF Newest, Asked, Tells
  <2> QED
    BY <1>1, <1>2, <2>2, <2>7, LedgerTells
<1>5. ASSUME GivesUp(c) \/ LoseReply(c)
      PROVE  LedgerStep
  <2>1. /\ inbox' = inbox
        /\ \A d \in Client : call'[d].n = call[d].n /\ Told(d)' = Told(d)
    <3>1. CASE GivesUp(c)
      <4>1. /\ inbox' = inbox
            /\ call[c].waiting /\ call'[c].n = call[c].n
            /\ call'[c].status = call[c].status
            /\ \A d \in Client \ {c} : call'[d] = call[d]
        BY <1>0, <3>1 DEF GivesUp, TypeOK
      <4>2. Told(c) = NoReply /\ Told(c)' = NoReply
        BY <1>0, <4>1 DEF Told, NoStatusYet
      <4>3. \A d \in Client \ {c} : Told(d)' = Told(d)
        BY <4>1 DEF Told
      <4> QED
        BY <4>1, <4>2, <4>3
    <3>2. CASE LoseReply(c)
      BY <3>2 DEF LoseReply, Told
    <3> QED
      BY <1>5, <3>1, <3>2
  <2>2. Newest' = Newest /\ Asked' = Asked /\ Tells' = Tells
    BY <2>1 DEF Newest, Asked, Tells
  <2> QED
    BY <1>1, <1>2, <2>2, LedgerStutters
<1> QED
  BY <1>3, <1>4, <1>5

LEMMA GrantedFacts ==
    ASSUME NEW r, Verdict(r) = OK
    PROVE  /\ ~Short(r)
           /\ r.cmd # "NEW_ACCOUNT" => disk[r.acc].st = "ok"
           /\ r.cmd = "MAKE_TRANSACTION" => disk[r.dst].st = "ok"
BY DEF Verdict, AccountStatus, OK, NO_ACCOUNT, ERROR_ACCOUNT, ERROR_CB,
       ERROR_AMOUNT, DENIED, ERROR_RECEIVING_ACCOUNT

\* The balance of an account while no request is being handled.
OnDisk(a) == IF disk[a].st = "ok" THEN disk[a].solde ELSE Absent

LEMMA IdleBalance ==
    ASSUME TypeOK, job = NoJob
    PROVE  Bal = [a \in Account |-> OnDisk(a)]
<1>1. ASSUME NEW a \in Account PROVE Balance(a) = OnDisk(a)
  <2>1. Unwritten = <<>> /\ ~BeingWritten(a)
    BY DEF Unwritten, BeingWritten
  <2>2. /\ ~Touched(a, 1) /\ ~Touched(a, 2)
        /\ Due(a, 1) = 0 /\ Due(a, 2) = 0
    BY <2>1 DEF Touched, Due
  <2>3. disk[a].st = "ok" => Current(a) + 0 + 0 = disk[a].solde
    BY DEF Current, TypeOK, File
  <2> QED
    BY <2>1, <2>2, <2>3 DEF Balance, OnDisk
<1> QED
  BY <1>1 DEF Bal

\* The balances once the edits E of a granted request are decided on.
LEMMA DecidedBalance ==
    ASSUME disk' = disk, job' # NoJob, ~job'.open, NEW E, job'.edits = E,
           NEW a \in Account
    PROVE  LET first == 1 <= Len(E) /\ E[1].acc = a
               second == 2 <= Len(E) /\ E[2].acc = a
           IN  Balance(a)' =
                 IF disk[a].st = "ok" \/ first \/ second
                 THEN Current(a) + (IF first THEN E[1].amount ELSE 0)
                                 + (IF second THEN E[2].amount ELSE 0)
                 ELSE Absent
<1>1. Unwritten' = E /\ ~BeingWritten(a)' /\ Current(a)' = Current(a)
  BY DEF Unwritten, BeingWritten, Current
<1>2. /\ Touched(a, 1)' <=> 1 <= Len(E) /\ E[1].acc = a
      /\ Touched(a, 2)' <=> 2 <= Len(E) /\ E[2].acc = a
  BY <1>1 DEF Touched
<1>3. /\ Due(a, 1)' = IF 1 <= Len(E) /\ E[1].acc = a THEN E[1].amount ELSE 0
      /\ Due(a, 2)' = IF 2 <= Len(E) /\ E[2].acc = a THEN E[2].amount ELSE 0
  BY <1>1, <1>2 DEF Due
<1> QED
  BY <1>1, <1>2, <1>3 DEF Balance

\* Deciding on a request is the step of the ledger that carries it out.
LEMMA LedgerHandles ==
    ASSUME Orderly, NEW new \in Account, Handle(new)
    PROVE  LedgerStep
<1>r. PICK r : r = Head(inbox)
  OBVIOUS
<1> DEFINE v == Verdict(r)
           E == IF v = OK THEN Edits(r, new) ELSE <<>>
           solde == IF r.cmd = "GET_CREDIT" /\ v = OK THEN disk[r.acc].solde ELSE 0
<1>0. TypeOK /\ QueueOK /\ TypeOK'
  BY SolventStep, TypeStep DEF Orderly, Solvent, Next
<1>1. /\ job = NoJob /\ inbox # <<>> /\ inbox' = Tail(inbox)
      /\ job' = [req |-> r, outcome |-> OutcomeOf(r), edits |-> E,
                 open |-> FALSE, value |-> 0]
      /\ log' = log \cup {OutcomeOf(r)}
      /\ disk' = disk /\ call' = call
      /\ disk[new].st = "none" \/ v # OK \/ r.cmd # "NEW_ACCOUNT"
  BY <1>r DEF Handle
<1>2. r \in Asked /\ r \in Request /\ Asked' = Asked \ {r}
  BY <1>r, <1>0, <1>1, HeadIsTaken
<1>3. Newest' = Newest /\ Tells' = Tells
  BY <1>1 DEF Newest, Tells, Told
<1>4. log' = log \cup {[id |-> r.id, status |-> v, solde |-> solde]}
  BY <1>1 DEF OutcomeOf
<1>6. job' # NoJob /\ ~job'.open /\ job'.edits = E
  <2>1. OutcomeOf(r) \in Outcome /\ E \in Seq(Edit)
    BY <1>0, <1>2, OutcomeType, EditsType, EmptySeq DEF TypeOK
  <2>2. job' \in Job
    BY <1>1, <1>2, <2>1 DEF Job
  <2> QED
    BY <1>1, <2>2, ConstantsOK
<1>7. v \in Statuses \ {TIMEOUT}
  BY <1>2, VerdictType
<1>8. Bal = [a \in Account |-> OnDisk(a)]
  BY <1>0, <1>1, IdleBalance
<1>9. \A a \in Account : disk[a].st = "ok" => /\ Current(a) = disk[a].solde
                                              /\ OnDisk(a) = disk[a].solde
                                              /\ disk[a].solde \in Int
                                              /\ disk[a].solde # Absent
  BY <1>0, ConstantsOK DEF Current, OnDisk, TypeOK, File
<1>10. r.acc \in Account /\ r.dst \in Account /\ r.amount \in Int /\ r.cmd \in Commands
  BY <1>2 DEF Request
<1>11. \A a \in Account : Current(a) \in Int
  BY <1>0, CurrentType DEF TypeOK
<1>12. v = OK => /\ ~Short(r)
                 /\ r.cmd # "NEW_ACCOUNT" => disk[r.acc].st = "ok"
                 /\ r.cmd = "MAKE_TRANSACTION" => disk[r.dst].st = "ok"
  BY GrantedFacts
<1>13. \A a \in Account : disk[a].st # "ok" => OnDisk(a) = Absent /\ Current(a) = 0
  BY DEF OnDisk, Current
<1> HIDE DEF v, E, solde
<1>14. CASE E = <<>>
  <2>1. Bal' = Bal
    <3>1. ASSUME NEW a \in Account PROVE Balance(a)' = OnDisk(a)
      <4>1. Len(E) = 0
        BY <1>14
      <4>2. Balance(a)' = IF disk[a].st = "ok" THEN Current(a) + 0 + 0 ELSE Absent
        BY <1>1, <1>6, <4>1, DecidedBalance
      <4> QED
        BY <1>9, <1>13, <4>2
    <3> QED
      BY <1>8, <3>1 DEF Bal
  <2>2. CASE v # OK
    <3>1. v \in 1..5 /\ v # 0
      BY <1>7, <2>2, StatusNumbers DEF OK, TIMEOUT
    <3>2. solde = 0
      BY <2>2 DEF solde
    <3>3. Ledger!Refuse(r, v)
      BY <1>2, <1>3, <1>4, <2>1, <3>1, <3>2
         DEF Ledger!Refuse, Ledger!Finish, Bal, Newest, Asked, Tells
    <3> QED
      BY <1>2, <3>1, <3>3, LedgerCarriesOut
  <2>3. CASE v = OK
    <3>1. r.cmd \in {"GET_CREDIT", "NEW_CB"}
      BY <1>10, <1>14, <2>3 DEF E, Edits, Commands
    <3>2. Bal[r.acc] = disk[r.acc].solde /\ Bal[r.acc] # Absent
      BY <1>8, <1>9, <1>10, <1>12, <2>3, <3>1
    <3>3. CASE r.cmd = "GET_CREDIT"
      <4>1. solde = Bal[r.acc]
        BY <2>3, <3>2, <3>3 DEF solde
      <4>2. Ledger!Read(r)
        BY <1>2, <1>3, <1>4, <2>1, <2>3, <3>2, <3>3, <4>1
           DEF Ledger!Read, Ledger!Finish, Bal, Newest, Asked, Tells, OK
      <4> QED
        BY <1>2, <4>2, LedgerCarriesOut
    <3>4. CASE r.cmd = "NEW_CB"
      <4>1. solde = 0
        BY <3>4 DEF solde
      <4>2. Ledger!MakeCard(r)
        BY <1>2, <1>3, <1>4, <2>1, <2>3, <3>2, <3>4, <4>1
           DEF Ledger!MakeCard, Ledger!Finish, Bal, Newest, Asked, Tells, OK
      <4> QED
        BY <1>2, <4>2, LedgerCarriesOut
    <3> QED
      BY <3>1, <3>3, <3>4
  <2> QED
    BY <2>2, <2>3
<1>15. CASE E # <<>>
  <2>1. v = OK /\ E = Edits(r, new)
    BY <1>15 DEF E
  <2>2. r.cmd \in {"MAKE_TRANSACTION", "EDIT", "NEW_ACCOUNT"}
    BY <1>10, <1>15, <2>1 DEF Edits, Commands
  <2>3. solde = 0
    BY <2>2 DEF solde
  <2>4. CASE r.cmd = "MAKE_TRANSACTION"
    <3>1. E = <<[acc |-> r.acc, amount |-> -Abs(r.amount)],
                [acc |-> r.dst, amount |-> Abs(r.amount)]>>
      BY <2>1, <2>4 DEF Edits
    <3> DEFINE paid == IF r.amount < 0 THEN -r.amount ELSE r.amount
    <3>2. paid \in Int /\ Abs(r.amount) = paid
      BY <1>10 DEF Abs
    <3>3. disk[r.acc].st = "ok" /\ disk[r.dst].st = "ok" /\ disk[r.acc].solde >= r.amount
      BY <1>9, <1>10, <1>12, <2>1, <2>4 DEF Short
    <3> HIDE DEF paid
    <3>4. /\ Len(E) = 2 /\ E[1].acc = r.acc /\ E[1].amount = -paid
          /\ E[2].acc = r.dst /\ E[2].amount = paid
      BY <3>1, <3>2
    <3>5. ASSUME NEW a \in Account
          PROVE  Balance(a)' = [[Bal EXCEPT ![r.acc] = @ - paid]
                                     EXCEPT ![r.dst] = @ + paid][a]
      <4>1. Balance(a)' = IF disk[a].st = "ok" \/ r.acc = a \/ r.dst = a
                          THEN Current(a) + (IF r.acc = a THEN -paid ELSE 0)
                                          + (IF r.dst = a THEN paid ELSE 0)
                          ELSE Absent
        BY <1>1, <1>6, <3>4, DecidedBalance
      <4>2. Bal = [x \in Account |-> OnDisk(x)] /\ Bal[a] = OnDisk(a)
        BY <1>8
      <4>3. disk[a].st # "ok" => r.acc # a /\ r.dst # a
        BY <3>3
      <4>4. CASE disk[a].st = "ok"
        <5>1. Bal[a] = disk[a].solde /\ Bal[a] \in Int /\ Current(a) = Bal[a]
          BY <1>9, <4>2, <4>4
        <5>2. [[Bal EXCEPT ![r.acc] = @ - paid] EXCEPT ![r.dst] = @ + paid][a]
                = (Bal[a] - (IF r.acc = a THEN paid ELSE 0))
                      + (IF r.dst = a THEN paid ELSE 0)
          BY <1>10, <3>2, <4>2, <5>1
        <5> QED
          BY <3>2, <4>1, <4>4, <5>1, <5>2
      <4>5. CASE disk[a].st # "ok"
        <5>1. [[Bal EXCEPT ![r.acc] = @ - paid] EXCEPT ![r.dst] = @ + paid][a] = Bal[a]
          BY <1>10, <4>2, <4>3, <4>5
        <5> QED
          BY <1>13, <4>1, <4>2, <4>3, <4>5, <5>1
      <4> QED
        BY <4>4, <4>5
    <3>6. Bal' = [[Bal EXCEPT ![r.acc] = @ - paid] EXCEPT ![r.dst] = @ + paid]
      BY <3>5, <1>8 DEF Bal
    <3>7. /\ Absent \notin {Bal[r.acc], Bal[r.dst]}
          /\ Bal[r.acc] >= r.amount
      BY <1>8, <1>9, <1>10, <3>3
    <3>8. Ledger!Move(r)
      BY <1>2, <1>3, <1>4, <2>1, <2>3, <2>4, <3>6, <3>7
         DEF Ledger!Move, Ledger!Finish, Bal, Newest, Asked, Tells, OK, paid
    <3> QED
      BY <1>2, <3>8, LedgerCarriesOut
  <2>5. CASE r.cmd = "EDIT"
    <3>1. E = <<[acc |-> r.acc, amount |-> r.amount]>>
      BY <2>1, <2>5 DEF Edits
    <3>2. disk[r.acc].st = "ok" /\ (r.amount >= 0 \/ disk[r.acc].solde + r.amount >= 0)
      BY <1>9, <1>10, <1>12, <2>1, <2>5 DEF Short, Abs
    <3>3. Len(E) = 1 /\ E[1].acc = r.acc /\ E[1].amount = r.amount
      BY <3>1
    <3>4. ASSUME NEW a \in Account
          PROVE  Balance(a)' = [Bal EXCEPT ![r.acc] = @ + r.amount][a]
      <4>1. Balance(a)' = IF disk[a].st = "ok" \/ r.acc = a
                          THEN Current(a) + (IF r.acc = a THEN r.amount ELSE 0) + 0
                          ELSE Absent
        BY <1>1, <1>6, <3>3, DecidedBalance
      <4>2. Bal[a] = OnDisk(a) /\ Bal = [x \in Account |-> OnDisk(x)]
        BY <1>8
      <4>3. disk[a].st # "ok" => r.acc # a
        BY <3>2
      <4>4. CASE disk[a].st = "ok"
        BY <1>9, <1>10, <4>1, <4>2, <4>4
      <4>5. CASE disk[a].st # "ok"
        BY <1>13, <4>1, <4>2, <4>3, <4>5
      <4> QED
        BY <4>4, <4>5
    <3>5. Bal' = [Bal EXCEPT ![r.acc] = @ + r.amount]
      BY <3>4 DEF Bal
    <3>6. Bal[r.acc] # Absent /\ (r.amount >= 0 \/ Bal[r.acc] + r.amount >= 0)
      BY <1>8, <1>9, <1>10, <3>2
    <3>7. Ledger!Edit(r)
      BY <1>2, <1>3, <1>4, <2>1, <2>3, <2>5, <3>5, <3>6
         DEF Ledger!Edit, Ledger!Finish, Bal, Newest, Asked, Tells, OK
    <3> QED
      BY <1>2, <3>7, LedgerCarriesOut
  <2>6. CASE r.cmd = "NEW_ACCOUNT"
    <3>1. E = <<[acc |-> new, amount |-> 0]>>
      BY <2>1, <2>6 DEF Edits
    <3>2. disk[new].st # "ok"
      BY <1>1, <2>1, <2>6
    <3>3. Len(E) = 1 /\ E[1].acc = new /\ E[1].amount = 0
      BY <3>1
    <3>4. ASSUME NEW a \in Account
          PROVE  Balance(a)' = [Bal EXCEPT ![new] = 0][a]
      <4>1. Balance(a)' = IF disk[a].st = "ok" \/ new = a
                          THEN Current(a) + (IF new = a THEN 0 ELSE 0) + 0
                          ELSE Absent
        BY <1>1, <1>6, <3>3, DecidedBalance
      <4>2. Bal[a] = OnDisk(a) /\ Bal = [x \in Account |-> Bal[x]]
        BY <1>8
      <4>3. CASE disk[a].st = "ok"
        BY <1>9, <3>2, <4>1, <4>2, <4>3
      <4>4. CASE disk[a].st # "ok"
        BY <1>13, <4>1, <4>2, <4>4
      <4> QED
        BY <4>3, <4>4
    <3>5. Bal' = [Bal EXCEPT ![new] = 0]
      BY <3>4 DEF Bal
    <3>6. Bal[new] = Absent
      BY <1>8, <1>13, <3>2
    <3>7. Ledger!Open(r, new)
      BY <1>2, <1>3, <1>4, <2>1, <2>3, <2>6, <3>5, <3>6
         DEF Ledger!Open, Ledger!Finish, Bal, Newest, Asked, Tells, OK
    <3> QED
      BY <1>2, <3>7, LedgerCarriesOut
  <2> QED
    BY <2>2, <2>4, <2>5, <2>6
<1> QED
  BY <1>14, <1>15

\* Every step of the bank is a step of the ledger, or leaves it alone.
LEMMA LedgerSimulates ==
    ASSUME Undisturbed, Orderly, [Next]_vars
    PROVE  LedgerStep
<1>0. TypeOK /\ QueueOK /\ OpenForEdit /\ EditsOK
  BY DEF Orderly, Solvent
<1>1. ASSUME OpenFile \/ WriteFile
      PROVE  LedgerStep
  <2>1. job # NoJob /\ Len(job.edits) <= 2
    BY <1>0, <1>1 DEF OpenFile, WriteFile, EditsOK
  <2>2. Bal' = Bal
    BY <1>0, <1>1, <2>1, BalanceOpens, BalanceWrites
  <2>3. Newest' = Newest /\ Asked' = Asked /\ Tells' = Tells /\ log' = log
    BY <1>1 DEF OpenFile, WriteFile, Newest, Asked, Tells, Told
  <2> QED
    BY <2>2, <2>3, LedgerStutters
<1>2. ASSUME Answer \/ Stop
      PROVE  LedgerStep
  <2>1. /\ job # NoJob => job.edits = <<>>
        /\ job' = NoJob /\ disk' = disk /\ call' = call /\ log' = log
        /\ inbox' = inbox \/ inbox' = <<>>
    BY <1>2 DEF Answer, Stop
  <2>2. Bal' = Bal
    BY <1>0, <2>1, BalanceDone
  <2>3. Newest' = Newest /\ Tells' = Tells /\ Asked' \subseteq Asked
    BY <2>1 DEF Newest, Tells, Told, Asked
  <2> QED
    BY <2>1, <2>2, <2>3, LedgerForgets
<1>3. ASSUME HandleRaises \/ LoseRequest
      PROVE  LedgerStep
  <2>1. /\ inbox # <<>> /\ inbox' = Tail(inbox)
        /\ job' = job /\ disk' = disk /\ call' = call /\ log' = log
    BY <1>3 DEF HandleRaises, LoseRequest
  <2>2. Asked' \subseteq Asked
    BY <1>0, <2>1, HeadIsTaken
  <2>3. Bal' = Bal /\ Newest' = Newest /\ Tells' = Tells
    BY <2>1, BalanceStands DEF Newest, Tells, Told
  <2> QED
    BY <2>1, <2>2, <2>3, LedgerForgets
<1>4. ASSUME Start \/ UNCHANGED vars
      PROVE  LedgerStep
  <2>1. /\ inbox' = inbox
        /\ job' = job /\ disk' = disk /\ call' = call /\ log' = log
    BY <1>4 DEF Start, vars
  <2>2. Bal' = Bal /\ Newest' = Newest /\ Tells' = Tells /\ Asked' = Asked
    BY <2>1, BalanceStands DEF Newest, Tells, Told, Asked
  <2> QED
    BY <2>1, <2>2, LedgerStutters
<1>5. ~DiskFails /\ ~Crash
  BY DEF Undisturbed, DiskFails, Crash
<1> QED
  BY <1>1, <1>2, <1>3, <1>4, <1>5, LedgerClient, LedgerHandles DEF Next

LEMMA LedgerInit == Init => Ledger!Init
<1> SUFFICES ASSUME Init PROVE Ledger!Init
  OBVIOUS
<1>1. TypeOK
  BY ConstantsOK, StatusNumbers, EmptySeq DEF Init, TypeOK, OK
<1>2. job = NoJob /\ inbox = <<>> /\ log = {} /\ \A c \in Client : call[c].n = 0
  BY DEF Init
<1>3. Bal = [a \in Account |-> OnDisk(a)]
  BY <1>1, <1>2, IdleBalance
<1>4. \A a \in Account : OnDisk(a) \in Nat \cup {Absent}
  BY ConstantsOK DEF Init, OnDisk, File
<1>5. Bal \in [Account -> Nat \cup {Absent}]
  BY <1>3, <1>4
<1>6. Newest = [c \in Client |-> 0] /\ Tells = [c \in Client |-> NoReply] /\ Asked = {}
  BY <1>2 DEF Newest, Tells, Told, Asked
<1> QED
  BY <1>2, <1>5, <1>6 DEF Ledger!Init, Bal, Newest, Tells, Asked

\* Without a crash and a disk error in the middle of a request, the bank is one
\* ledger: a request takes effect at once and at most once, between any two
\* others, and what a call returns is the outcome of that very call, whatever
\* is lost, repeated by the user after a time-out or cut off by a stop.
THEOREM BankIsLedger ==
    ASSUME Undisturbed
    PROVE  Spec => LedgerSpec
<1>1. Init => Orderly
  <2> SUFFICES ASSUME Init PROVE Orderly
    OBVIOUS
  <2>1. Solvent
    BY SolventInit
  <2>3. QueueOK /\ FaithfulOK
    BY DEF Init, QueueOK, FaithfulOK, NoStatusYet
  <2> QED
    BY <2>1, <2>3 DEF Orderly
<1>2. Orderly /\ [Next]_vars => Orderly'
  BY OrderlyStep
<1>3. Orderly /\ [Next]_vars => [Ledger!Next]_(Ledger!vars)
  BY Undisturbed, LedgerSimulates DEF LedgerStep
<1> QED
  BY <1>1, <1>2, <1>3, LedgerInit, PTL DEF Spec, LedgerSpec, Ledger!Spec

------------------------------------------------------------------------------
(* Sums over finite sets *)

\* Induction over the naturals in the one form the provers can use.
LEMMA Least ==
    ASSUME NEW T, T \subseteq Nat, T # {}
    PROVE  \E x \in T : \A y \in T : x <= y
<1>1. PICK x \in T : \A y \in T : ~(<<y, x>> \in OpToRel(<, Nat))
  BY NatLessThanWellFounded, WFMin
<1>2. ASSUME NEW y \in T PROVE x <= y
  <2>1. ASSUME y < x PROVE FALSE
    <3>1. <<y, x>> \in {ss \in Nat \X Nat : ss[1] < ss[2]}
      BY <2>1
    <3>2. <<y, x>> \in OpToRel(<, Nat)
      BY <3>1, Zenon DEF OpToRel
    <3> QED
      BY <3>2, <1>1
  <2> QED
    BY <2>1
<1> QED
  BY <1>2

LEMMA Induct ==
    ASSUME NEW k \in Nat, NEW T, 0 \in T,
           \A j \in 0..k : j > 0 /\ j - 1 \in T => j \in T
    PROVE  k \in T
<1> SUFFICES ASSUME (0..k) \ T # {} PROVE FALSE
  OBVIOUS
<1>1. PICK x \in (0..k) \ T : \A y \in (0..k) \ T : x <= y
  <2>1. (0..k) \ T \subseteq Nat
    OBVIOUS
  <2> QED
    BY <2>1, Least
<1>2. x > 0 /\ x - 1 \in 0..k /\ ~(x <= x - 1)
  BY <1>1
<1> QED
  BY <1>1, <1>2

\* One element of s, the one that a sum over s takes first.
First(s) == CHOOSE x \in s : TRUE

\* g[s] is the sum of f over s, for every subset s of S.
Adds(g, f, S) ==
    g = [s \in SUBSET S |->
            IF s = {} THEN 0 ELSE f[First(s)] + g[s \ {First(s)}]]

\* v is the sum of f over S.
IsSum(v, f, S) == \E g : Adds(g, f, S) /\ v = g[S]

LEMMA Sizes ==
    ASSUME NEW S, IsFiniteSet(S), NEW s \in SUBSET S
    PROVE  /\ Cardinality(s) \in Nat
           /\ Cardinality(s) <= Cardinality(S)
           /\ Cardinality(s) = 0 <=> s = {}
           /\ \A x \in s : Cardinality(s \ {x}) = Cardinality(s) - 1
           /\ s # {} => First(s) \in s
<1>1. IsFiniteSet(s) /\ Cardinality(s) <= Cardinality(S)
  BY FS_Subset
<1>2. Cardinality(s) \in Nat /\ (Cardinality(s) = 0 <=> s = {})
  BY <1>1, FS_CardinalityType, FS_EmptySet
<1>3. \A x \in s : Cardinality(s \ {x}) = Cardinality(s) - 1
  BY <1>1, FS_RemoveElement
<1>4. s # {} => First(s) \in s
  BY DEF First
<1> QED
  BY <1>1, <1>2, <1>3, <1>4

LEMMA SumExists ==
    ASSUME NEW S, IsFiniteSet(S), NEW f
    PROVE  \E g : Adds(g, f, S)
<1> DEFINE Small(n) == {s \in SUBSET S : Cardinality(s) <= n}
           Good(n, h) == \A s \in Small(n) :
                            h[s] = IF s = {} THEN 0
                                   ELSE f[First(s)] + h[s \ {First(s)}]
           T == {n \in Nat : \E h : Good(n, h)}
           k == Cardinality(S)
<1>1. k \in Nat
  BY Sizes
<1>2. 0 \in T
  <2>1. \A s \in Small(0) : s = {}
    BY Sizes
  <2>2. Good(0, [s \in {{}} |-> 0])
    BY <2>1
  <2> QED
    BY <2>2
<1>3. ASSUME NEW n \in 0..k, n > 0, n - 1 \in T PROVE n \in T
  <2>1. PICK h : Good(n - 1, h)
    BY <1>3
  <2> DEFINE e == [s \in Small(n) |-> IF s = {} THEN 0
                                      ELSE f[First(s)] + h[s \ {First(s)}]]
  <2>2. ASSUME NEW s \in Small(n), s # {}
        PROVE  s \ {First(s)} \in Small(n - 1) /\ s \ {First(s)} \in Small(n)
    <3>1. /\ Cardinality(s) \in Nat /\ Cardinality(s) <= n /\ First(s) \in s
          /\ Cardinality(s \ {First(s)}) = Cardinality(s) - 1
      BY <2>2, Sizes
    <3> QED
      BY <1>3, <3>1
  <2>3. \A s \in Small(n - 1) : s \in Small(n) /\ e[s] = h[s]
    <3>1. \A s \in Small(n - 1) : s \in Small(n)
      BY <1>3, Sizes
    <3>2. \A s \in Small(n) : e[s] = IF s = {} THEN 0
                                     ELSE f[First(s)] + h[s \ {First(s)}]
      OBVIOUS
    <3> HIDE DEF e, Small
    <3> QED
      BY <2>1, <3>1, <3>2
  <2>4. Good(n, e)
    <3>1. \A s \in Small(n) : e[s] = IF s = {} THEN 0
                                     ELSE f[First(s)] + h[s \ {First(s)}]
      OBVIOUS
    <3> HIDE DEF e, Small
    <3> QED
      BY <2>2, <2>3, <3>1
  <2> HIDE DEF Good
  <2> QED
    BY <1>3, <2>4
<1>4. k \in T
  <2> HIDE DEF T, k
  <2> QED
    BY <1>1, <1>2, <1>3, Induct
<1>5. PICK h : Good(k, h)
  BY <1>4
<1>6. \A s \in SUBSET S : s \in Small(k)
  BY Sizes
<1> DEFINE g == [s \in SUBSET S |-> h[s]]
<1>7. \A s \in SUBSET S : s \ {First(s)} \in SUBSET S
  OBVIOUS
<1>8. Adds(g, f, S)
  <2> HIDE DEF Small
  <2> QED
    BY <1>5, <1>6, <1>7 DEF Adds
<1> QED
  BY <1>8

\* The sum over a set does not depend on the order in which it is taken.
LEMMA AnyOrder ==
    ASSUME NEW S, IsFiniteSet(S), NEW f, \A x \in S : f[x] \in Int,
           NEW g, Adds(g, f, S)
    PROVE  \A s \in SUBSET S : /\ g[s] \in Int
                               /\ \A x \in s : g[s] = f[x] + g[s \ {x}]
<1> DEFINE Fine(s) == g[s] \in Int /\ \A x \in s : g[s] = f[x] + g[s \ {x}]
           T == {n \in Nat : \A s \in SUBSET S : Cardinality(s) <= n => Fine(s)}
           k == Cardinality(S)
<1>1. \A s \in SUBSET S : g[s] = IF s = {} THEN 0
                                 ELSE f[First(s)] + g[s \ {First(s)}]
  BY DEF Adds
<1>2. 0 \in T
  <2>1. ASSUME NEW s \in SUBSET S, Cardinality(s) <= 0 PROVE Fine(s)
    <3>1. s = {}
      BY <2>1, Sizes
    <3>2. g[s] = 0 /\ \A x \in s : FALSE
      BY <1>1, <3>1
    <3> QED
      BY ONLY <3>2
  <2> QED
    BY <2>1
<1>3. ASSUME NEW n \in 0..k, n > 0, n - 1 \in T PROVE n \in T
  <2>1. ASSUME NEW s \in SUBSET S, Cardinality(s) <= n PROVE Fine(s)
    <3>1. CASE s = {}
      <4>1. g[s] = 0 /\ \A x \in s : FALSE
        BY <1>1, <3>1
      <4> QED
        BY ONLY <4>1
    <3>2. CASE s # {}
      <4> DEFINE y == First(s)
      <4>1. y \in s /\ g[s] = f[y] + g[s \ {y}]
        BY <1>1, <3>2, Sizes
      <4> HIDE DEF y
      <4>2. \A x \in s : /\ s \ {x} \in SUBSET S /\ Fine(s \ {x})
        <5> TAKE x \in s
        <5>1. Cardinality(s) \in Nat /\ Cardinality(s \ {x}) = Cardinality(s) - 1
          BY Sizes
        <5>2. Cardinality(s \ {x}) <= n - 1
          BY <1>3, <2>1, <5>1
        <5> HIDE DEF Fine
        <5> QED
          BY <1>3, <5>2
      <4>3. g[s] \in Int
        BY <4>1, <4>2
      <4>4. ASSUME NEW x \in s PROVE g[s] = f[x] + g[s \ {x}]
        <5>1. CASE x = y
          BY <4>1, <5>1
        <5>2. CASE x # y
          <6>1. x \in s \ {y} /\ y \in s \ {x}
            BY <4>1, <5>2
          <6>2. g[s \ {y}] = f[x] + g[(s \ {y}) \ {x}]
            BY <4>1, <4>2, <6>1
          <6>3. g[s \ {x}] = f[y] + g[(s \ {x}) \ {y}]
            BY <4>2, <6>1
          <6>4. (s \ {y}) \ {x} = (s \ {x}) \ {y} /\ (s \ {y}) \ {x} \in SUBSET S
            OBVIOUS
          <6>5. \A z \in s \ {y} : f[z] \in Int /\ g[(s \ {y}) \ {x}] \in Int
            <7>1. g[s \ {y}] \in Int /\ g[s \ {x}] \in Int
              BY <4>1, <4>2
            <7>2. Cardinality((s \ {y}) \ {x}) <= n - 1
              <8>1. /\ Cardinality(s) \in Nat
                    /\ Cardinality(s \ {y}) = Cardinality(s) - 1
                BY <4>1, Sizes
              <8>2. Cardinality((s \ {y}) \ {x}) = Cardinality(s \ {y}) - 1
                BY <6>1, Sizes
              <8> QED
                BY <1>3, <2>1, <8>1, <8>2
            <7> HIDE DEF Fine
            <7>3. Fine((s \ {y}) \ {x})
              BY <1>3, <6>4, <7>2
            <7> QED
              BY <7>3 DEF Fine
          <6> QED
            BY <4>1, <6>1, <6>2, <6>3, <6>4, <6>5
        <5> QED
          BY <5>1, <5>2
      <4> QED
        BY <4>3, <4>4
    <3> QED
      BY <3>1, <3>2
  <2> HIDE DEF Fine
  <2> QED
    BY <1>3, <2>1
<1>4. k \in T
  <2>1. k \in Nat
    BY Sizes
  <2> HIDE DEF T, k
  <2> QED
    BY <1>2, <1>3, <2>1, Induct
<1> QED
  BY <1>4, Sizes

\* Sums of the same numbers are the same.
LEMMA SameSums ==
    ASSUME NEW S, IsFiniteSet(S), NEW R \in SUBSET S,
           NEW f, NEW e, \A x \in R : f[x] = e[x],
           NEW g, Adds(g, f, S), NEW h, Adds(h, e, R)
    PROVE  \A s \in SUBSET R : g[s] = h[s]
<1> DEFINE T == {n \in Nat : \A s \in SUBSET R : Cardinality(s) <= n => g[s] = h[s]}
           k == Cardinality(S)
<1>1. \A s \in SUBSET R : /\ g[s] = IF s = {} THEN 0
                                    ELSE f[First(s)] + g[s \ {First(s)}]
                          /\ h[s] = IF s = {} THEN 0
                                    ELSE e[First(s)] + h[s \ {First(s)}]
  BY DEF Adds
<1>2. 0 \in T
  <2>1. ASSUME NEW s \in SUBSET R, Cardinality(s) <= 0 PROVE g[s] = h[s]
    <3>1. s = {}
      BY <2>1, Sizes
    <3> QED
      BY <1>1, <3>1
  <2> QED
    BY <2>1
<1>3. ASSUME NEW n \in 0..k, n > 0, n - 1 \in T PROVE n \in T
  <2>1. ASSUME NEW s \in SUBSET R, Cardinality(s) <= n PROVE g[s] = h[s]
    <3>1. CASE s = {}
      BY <1>1, <3>1
    <3>2. CASE s # {}
      <4> DEFINE y == First(s)
      <4>1. /\ y \in s /\ Cardinality(s) \in Nat
            /\ Cardinality(s \ {y}) = Cardinality(s) - 1
        BY <3>2, Sizes
      <4>2. g[s \ {y}] = h[s \ {y}]
        BY <1>3, <2>1, <4>1
      <4> QED
        BY <1>1, <3>2, <4>1, <4>2
    <3> QED
      BY <3>1, <3>2
  <2> QED
    BY <1>3, <2>1
<1>4. k \in T
  <2>1. k \in Nat
    BY Sizes
  <2> HIDE DEF T, k
  <2> QED
    BY <1>2, <1>3, <2>1, Induct
<1> QED
  BY <1>4, Sizes

LEMMA SumType ==
    ASSUME NEW S, IsFiniteSet(S), NEW f, \A x \in S : f[x] \in Int,
           NEW v, IsSum(v, f, S)
    PROVE  v \in Int
BY AnyOrder DEF IsSum

LEMMA SumStays ==
    ASSUME NEW S, IsFiniteSet(S), NEW f, NEW e, \A x \in S : f[x] = e[x],
           NEW v, IsSum(v, f, S), NEW w, IsSum(w, e, S)
    PROVE  v = w
<1>1. PICK g : Adds(g, f, S) /\ v = g[S]
  BY DEF IsSum
<1>2. PICK h : Adds(h, e, S) /\ w = h[S]
  BY DEF IsSum
<1>3. S \in SUBSET S
  OBVIOUS
<1>4. \A s \in SUBSET S : g[s] = h[s]
  BY <1>1, <1>2, <1>3, SameSums
<1> QED
  BY <1>1, <1>2, <1>4

\* One more number is added.
LEMMA SumGrows ==
    ASSUME NEW S, IsFiniteSet(S), NEW y, y \notin S,
           NEW f, NEW e, \A x \in S : f[x] = e[x],
           \A x \in S : e[x] \in Int, e[y] \in Int,
           NEW v, IsSum(v, f, S), NEW w, IsSum(w, e, S \cup {y})
    PROVE  w = v + e[y]
<1> DEFINE U == S \cup {y}
<1>1. IsFiniteSet(U) /\ S \in SUBSET U /\ y \in U /\ U \ {y} = S /\ \A x \in U : e[x] \in Int
  BY FS_AddElement
<1>2. PICK h : Adds(h, f, S) /\ v = h[S]
  BY DEF IsSum
<1>3. PICK g : Adds(g, e, U) /\ w = g[U]
  BY DEF IsSum
<1> HIDE DEF U
<1>4. g[S] = h[S]
  <2>1. \A x \in S : e[x] = f[x]
    OBVIOUS
  <2>2. \A s \in SUBSET S : g[s] = h[s]
    BY ONLY <1>1, <1>2, <1>3, <2>1, SameSums
  <2>3. S \in SUBSET S
    OBVIOUS
  <2> QED
    BY ONLY <2>2, <2>3
<1>5. \A s \in SUBSET U : /\ g[s] \in Int
                           /\ \A x \in s : g[s] = e[x] + g[s \ {x}]
  BY <1>1, <1>3, AnyOrder
<1>6. U \in SUBSET U /\ g[U] = e[y] + g[S] /\ g[U] \in Int /\ g[S] \in Int
  BY <1>1, <1>5
<1> QED
  BY <1>1, <1>2, <1>3, <1>4, <1>6

\* The money in the account files d.
Money(d) == MapThenSumSet(LAMBDA a : d[a].solde, {a \in Account : d[a].st = "ok"})
Usable(d) == {a \in Account : d[a].st = "ok"}
Soldes(d) == [a \in Account |-> d[a].solde]

\* What the edits among the requests W add.
Added(W) == MapThenSumSet(LAMBDA r : r.amount, {r \in W : r.cmd = "EDIT"})
EditsOf(W) == {r \in W : r.cmd = "EDIT"}
Amounts(W) == [r \in W |-> r.amount]

LEMMA MoneyIsSum ==
    ASSUME NEW d
    PROVE  IsSum(Money(d), Soldes(d), Usable(d)) /\ IsFiniteSet(Usable(d))
<1> DEFINE S == {a \in Account : d[a].st = "ok"}
           f == [a \in Account |-> d[a].solde]
           it(g) == g = [s \in SUBSET S |->
                            IF s = {} THEN 0
                            ELSE d[CHOOSE x \in s : TRUE].solde
                                     + g[s \ {CHOOSE x \in s : TRUE}]]
           g0 == CHOOSE g : it(g)
<1>0. IsFiniteSet(S)
  BY AccountsFinite, FS_Subset
<1>1. PICK g1 : Adds(g1, f, S)
  BY <1>0, SumExists
<1>2. \A s \in SUBSET S : s # {} => First(s) \in Account
  BY DEF First
<1>3. it(g1)
  BY <1>1, <1>2 DEF First, Adds
<1>4. it(g0)
  <2> HIDE DEF it
  <2> QED
    BY <1>3
<1>5. Adds(g0, f, S)
  <2> HIDE DEF g0
  <2> QED
    BY <1>2, <1>4 DEF First, Adds
<1>6. Money(d) = g0[S]
  BY DEF Money, MapThenSumSet, MapThenFoldSet
<1> QED
  BY <1>0, <1>5, <1>6 DEF IsSum, Usable, Soldes

\* The debts in the torn files among d.
Debts(d) == MapThenSumSet(LAMBDA a : -d[a].solde,
                          {a \in Account : d[a].st = "torn" /\ d[a].solde < 0})
InDebt(d) == {a \in Account : d[a].st = "torn" /\ d[a].solde < 0}
Dues(d) == [a \in Account |-> -d[a].solde]
DebtOf(f) == IF f.solde < 0 THEN -f.solde ELSE 0

LEMMA DebtsIsSum ==
    ASSUME NEW d
    PROVE  IsSum(Debts(d), Dues(d), InDebt(d)) /\ IsFiniteSet(InDebt(d))
<1> DEFINE S == {a \in Account : d[a].st = "torn" /\ d[a].solde < 0}
           f == [a \in Account |-> -d[a].solde]
           it(g) == g = [s \in SUBSET S |->
                            IF s = {} THEN 0
                            ELSE -d[CHOOSE x \in s : TRUE].solde
                                     + g[s \ {CHOOSE x \in s : TRUE}]]
           g0 == CHOOSE g : it(g)
<1>0. IsFiniteSet(S)
  BY AccountsFinite, FS_Subset
<1>1. PICK g1 : Adds(g1, f, S)
  BY <1>0, SumExists
<1>2. \A s \in SUBSET S : s # {} => First(s) \in Account
  BY DEF First
<1>3. it(g1)
  BY <1>1, <1>2 DEF First, Adds
<1>4. it(g0)
  <2> HIDE DEF it
  <2> QED
    BY <1>3
<1>5. Adds(g0, f, S)
  <2> HIDE DEF g0
  <2> QED
    BY <1>2, <1>4 DEF First, Adds
<1>6. Debts(d) = g0[S]
  BY DEF Debts, MapThenSumSet, MapThenFoldSet
<1> QED
  BY <1>0, <1>5, <1>6 DEF IsSum, InDebt, Dues

LEMMA AddedIsSum ==
    ASSUME NEW W, IsFiniteSet(W)
    PROVE  IsSum(Added(W), Amounts(W), EditsOf(W)) /\ IsFiniteSet(EditsOf(W))
<1> DEFINE S == {r \in W : r.cmd = "EDIT"}
           f == [r \in W |-> r.amount]
           it(g) == g = [s \in SUBSET S |->
                            IF s = {} THEN 0
                            ELSE (CHOOSE x \in s : TRUE).amount
                                     + g[s \ {CHOOSE x \in s : TRUE}]]
           g0 == CHOOSE g : it(g)
<1>0. IsFiniteSet(S)
  BY FS_Subset
<1>1. PICK g1 : Adds(g1, f, S)
  BY <1>0, SumExists
<1>2. \A s \in SUBSET S : s # {} => First(s) \in W
  BY DEF First
<1>3. it(g1)
  BY <1>1, <1>2 DEF First, Adds
<1>4. it(g0)
  <2> HIDE DEF it
  <2> QED
    BY <1>3
<1>5. Adds(g0, f, S)
  <2> HIDE DEF g0
  <2> QED
    BY <1>2, <1>4 DEF First, Adds
<1>6. Added(W) = g0[S]
  BY DEF Added, MapThenSumSet, MapThenFoldSet
<1> QED
  BY <1>0, <1>5, <1>6 DEF IsSum, EditsOf, Amounts

LEMMA BankSums ==
    /\ Readable = Money(disk) /\ Readable' = Money(disk')
    /\ Minted = Money(InitialDisk) + Added(written)
    /\ Minted' = Money(InitialDisk) + Added(written')
    /\ DebtsLost = Debts(disk) /\ DebtsLost' = Debts(disk')
BY DEF Readable, Minted, DebtsLost, Money, Added, Debts, MapThenSumSet, MapThenFoldSet

------------------------------------------------------------------------------
(* No money is made *)

LEMMA MoneyIsInt ==
    ASSUME NEW d \in [Account -> File]
    PROVE  Money(d) \in Int
<1>1. \A x \in Usable(d) : Soldes(d)[x] \in Int
  BY DEF Usable, Soldes, File
<1> QED
  BY <1>1, AccountsFinite, MoneyIsSum, SumType

\* An account file that is opened for writing leaves the sum,
LEMMA MoneyOut ==
    ASSUME NEW d \in [Account -> File], NEW e, NEW a \in Account,
           e = [d EXCEPT ![a].st = "torn"]
    PROVE  Money(e) = Money(d) - (IF d[a].st = "ok" THEN d[a].solde ELSE 0)
<1>1. /\ \A x \in Account \ {a} : e[x] = d[x]
      /\ e[a].st = "torn"
  BY DEF File
<1>2. /\ IsSum(Money(d), Soldes(d), Usable(d)) /\ IsFiniteSet(Usable(d))
      /\ IsSum(Money(e), Soldes(e), Usable(e)) /\ IsFiniteSet(Usable(e))
  BY AccountsFinite, MoneyIsSum
<1>3. \A x \in Account \ {a} : Soldes(e)[x] = Soldes(d)[x]
  BY <1>1 DEF Soldes
<1>4. \A x \in Account : Soldes(d)[x] = d[x].solde /\ d[x].solde \in Int
  BY DEF Soldes, File
<1>5. a \notin Usable(e) /\ Usable(e) \subseteq Account \ {a}
  BY <1>1 DEF Usable
<1>6. CASE d[a].st = "ok"
  <2>1. Usable(d) = Usable(e) \cup {a}
    BY <1>1, <1>6 DEF Usable
  <2>2. Money(d) = Money(e) + Soldes(d)[a]
    <3>1. /\ IsFiniteSet(Usable(e)) /\ a \notin Usable(e)
          /\ \A x \in Usable(e) : Soldes(e)[x] = Soldes(d)[x]
          /\ \A x \in Usable(e) : Soldes(d)[x] \in Int
          /\ Soldes(d)[a] \in Int
          /\ IsSum(Money(e), Soldes(e), Usable(e))
          /\ IsSum(Money(d), Soldes(d), Usable(e) \cup {a})
      BY <1>2, <1>3, <1>4, <1>5, <2>1
    <3> QED
      BY ONLY <3>1, SumGrows
  <2>3. Money(e) \in Int
    BY <1>2, <1>3, <1>4, <1>5, SumType
  <2> QED
    BY <1>4, <1>6, <2>2, <2>3
<1>7. CASE d[a].st # "ok"
  <2>1. Usable(d) = Usable(e)
    BY <1>1, <1>7 DEF Usable
  <2>2. Money(d) = Money(e)
    BY <1>2, <1>3, <1>5, <2>1, SumStays
  <2> QED
    BY <1>7, <2>2, MoneyIsInt
<1> QED
  BY <1>6, <1>7

\* and enters it with the balance that is written.
LEMMA MoneyIn ==
    ASSUME NEW d \in [Account -> File], NEW e, NEW a \in Account,
           NEW n \in Int, d[a].st # "ok",
           e = [d EXCEPT ![a] = [st |-> "ok", solde |-> n]]
    PROVE  Money(e) = Money(d) + n
<1>1. /\ \A x \in Account \ {a} : e[x] = d[x]
      /\ e[a].st = "ok" /\ e[a].solde = n
  OBVIOUS
<1>2. /\ IsSum(Money(d), Soldes(d), Usable(d)) /\ IsFiniteSet(Usable(d))
      /\ IsSum(Money(e), Soldes(e), Usable(e))
  BY AccountsFinite, MoneyIsSum
<1>3. \A x \in Account \ {a} : Soldes(d)[x] = Soldes(e)[x] /\ Soldes(e)[x] \in Int
  BY <1>1 DEF Soldes, File
<1>4. Soldes(e)[a] = n
  BY <1>1 DEF Soldes
<1>5. /\ a \notin Usable(d) /\ Usable(d) \subseteq Account \ {a}
      /\ Usable(e) = Usable(d) \cup {a}
  BY <1>1 DEF Usable
<1>6. /\ IsFiniteSet(Usable(d)) /\ a \notin Usable(d)
      /\ \A x \in Usable(d) : Soldes(d)[x] = Soldes(e)[x]
      /\ \A x \in Usable(d) : Soldes(e)[x] \in Int
      /\ Soldes(e)[a] \in Int
      /\ IsSum(Money(d), Soldes(d), Usable(d))
      /\ IsSum(Money(e), Soldes(e), Usable(d) \cup {a})
  BY <1>2, <1>3, <1>4, <1>5
<1>7. Money(e) = Money(d) + Soldes(e)[a]
  BY ONLY <1>6, SumGrows
<1> QED
  BY <1>4, <1>7

\* Of the debts, too, only those of files that are torn count.
LEMMA DebtsAreInt ==
    ASSUME NEW d \in [Account -> File]
    PROVE  Debts(d) \in Int
<1>1. \A x \in InDebt(d) : Dues(d)[x] \in Int
  BY DEF InDebt, Dues, File
<1> QED
  BY <1>1, AccountsFinite, DebtsIsSum, SumType

\* Two disks that differ in one file, torn in the second.
LEMMA DebtsDiffer ==
    ASSUME NEW d \in [Account -> File], NEW e \in [Account -> File], NEW a \in Account,
           \A x \in Account \ {a} : e[x] = d[x],
           d[a].st # "torn", e[a].st = "torn"
    PROVE  Debts(e) = Debts(d) + DebtOf(e[a])
<1>1. /\ IsSum(Debts(d), Dues(d), InDebt(d)) /\ IsFiniteSet(InDebt(d))
      /\ IsSum(Debts(e), Dues(e), InDebt(e)) /\ IsFiniteSet(InDebt(e))
  BY AccountsFinite, DebtsIsSum
<1>2. \A x \in Account \ {a} : Dues(e)[x] = Dues(d)[x]
  BY DEF Dues
<1>3. \A x \in Account : Dues(e)[x] = -e[x].solde /\ e[x].solde \in Int /\ Dues(e)[x] \in Int
  BY DEF Dues, File
<1>4. a \notin InDebt(d) /\ InDebt(d) \subseteq Account \ {a}
  BY DEF InDebt
<1>5. CASE e[a].solde < 0
  <2>1. InDebt(e) = InDebt(d) \cup {a}
    BY <1>5 DEF InDebt
  <2>2. /\ \A x \in InDebt(d) : Dues(d)[x] = Dues(e)[x]
        /\ \A x \in InDebt(d) : Dues(e)[x] \in Int
        /\ Dues(e)[a] \in Int
        /\ IsSum(Debts(e), Dues(e), InDebt(d) \cup {a})
    BY <1>1, <1>2, <1>3, <1>4, <2>1
  <2>3. Debts(e) = Debts(d) + Dues(e)[a]
    BY ONLY <1>1, <1>4, <2>2, SumGrows
  <2> QED
    BY <1>3, <1>5, <2>3 DEF DebtOf
<1>6. CASE ~(e[a].solde < 0)
  <2>1. InDebt(e) = InDebt(d)
    BY <1>6 DEF InDebt
  <2>2. Debts(e) = Debts(d)
    BY <1>1, <1>2, <1>4, <2>1, SumStays
  <2> QED
    BY <1>6, <2>2, DebtsAreInt DEF DebtOf
<1> QED
  BY <1>5, <1>6

LEMMA AddedOne ==
    ASSUME NEW W, W \subseteq Request, IsFiniteSet(W), NEW r \in Request, r \notin W
    PROVE  /\ Added(W) \in Int
           /\ Added(W \cup {r}) = Added(W) + (IF r.cmd = "EDIT" THEN r.amount ELSE 0)
<1> DEFINE U == W \cup {r}
<1>1. IsFiniteSet(U)
  BY FS_AddElement
<1>2. /\ IsSum(Added(W), Amounts(W), EditsOf(W)) /\ IsFiniteSet(EditsOf(W))
      /\ IsSum(Added(U), Amounts(U), EditsOf(U))
  BY <1>1, AddedIsSum
<1>3. /\ \A x \in W : Amounts(W)[x] = Amounts(U)[x] /\ Amounts(U)[x] \in Int
      /\ Amounts(U)[r] = r.amount /\ r.amount \in Int
  BY DEF Amounts, Request
<1>4. EditsOf(W) \subseteq W /\ r \notin EditsOf(W)
  BY DEF EditsOf
<1>5. Added(W) \in Int
  BY <1>2, <1>3, <1>4, SumType
<1>6. CASE r.cmd = "EDIT"
  <2>1. EditsOf(U) = EditsOf(W) \cup {r}
    BY <1>6 DEF EditsOf
  <2>2. Added(U) = Added(W) + Amounts(U)[r]
    <3>1. /\ IsFiniteSet(EditsOf(W)) /\ r \notin EditsOf(W)
          /\ \A x \in EditsOf(W) : Amounts(W)[x] = Amounts(U)[x]
          /\ \A x \in EditsOf(W) : Amounts(U)[x] \in Int
          /\ Amounts(U)[r] \in Int
          /\ IsSum(Added(W), Amounts(W), EditsOf(W))
          /\ IsSum(Added(U), Amounts(U), EditsOf(W) \cup {r})
      BY <1>2, <1>3, <1>4, <2>1
    <3> HIDE DEF U
    <3> QED
      BY ONLY <3>1, SumGrows
  <2> QED
    BY <1>3, <1>5, <1>6, <2>2
<1>7. CASE r.cmd # "EDIT"
  <2>1. EditsOf(U) = EditsOf(W)
    BY <1>7 DEF EditsOf
  <2>2. Added(U) = Added(W)
    BY <1>2, <1>3, <1>4, <2>1, SumStays
  <2> QED
    BY <1>5, <1>7, <2>2
<1> QED
  BY <1>5, <1>6, <1>7

\* The requests granted and written are finitely many; no other request of the
\* same call is on its way, being handled or still to come.
FreshOK ==
    /\ IsFiniteSet(written)
    /\ \A w \in written : w.id[2] <= call[w.id[1]].n
    /\ \A i \in 1..Len(inbox), w \in written : inbox[i].id # w.id
    /\ job # NoJob =>
          /\ job.req.id[2] <= call[job.req.id[1]].n
          /\ \A i \in 1..Len(inbox) : inbox[i].id # job.req.id
          /\ job.edits # <<>> => \A w \in written : w.id # job.req.id

\* Where the money of the request being handled is: in the value about to be
\* written, in the edits after it, and in what an edit is still to mint.
AmountOf(E) == IF E = <<>> THEN 0
               ELSE IF Len(E) = 1 THEN E[1].amount ELSE E[1].amount + E[2].amount
InHand == IF job # NoJob /\ job.open THEN job.value ELSE 0
Pending == AmountOf(Unwritten)
Owed == IF job # NoJob /\ job.req.cmd = "EDIT" /\ job.edits # <<>>
        THEN job.req.amount ELSE 0

\* The file that is open is torn, and an edit is written at once.
HandOK ==
    job # NoJob =>
        /\ Len(job.edits) <= 2
        /\ job.req.cmd = "EDIT" => Len(job.edits) <= 1
        /\ job.open => disk[job.edits[1].acc].st = "torn"

Gain == (Readable + InHand + Pending) - (Minted + Owed)

Kept == TypeOK /\ OpenForEdit /\ QueueOK /\ FreshOK /\ HandOK

LEMMA TailOfOne ==
    ASSUME NEW S, NEW s \in Seq(S), Len(s) = 1
    PROVE  Tail(s) = <<>>
<1>1. s # <<>>
  BY EmptySeq
<1>2. Tail(s) \in Seq(S) /\ Len(Tail(s)) = Len(s) - 1
  BY <1>1, HeadTailProperties
<1>3. Len(Tail(s)) = 0
  BY <1>2
<1> QED
  BY <1>2, <1>3, EmptySeq

LEMMA UniqueCall ==
    ASSUME TypeOK, NEW q \in Request
    PROVE  /\ q.id[1] \in Client /\ q.id[2] \in Nat /\ q.id = <<q.id[1], q.id[2]>>
           /\ call[q.id[1]].n \in Nat
<1>1. q.id \in Client \X Nat
  BY DEF Request
<1>2. q.id[1] \in Client /\ q.id[2] \in Nat /\ q.id = <<q.id[1], q.id[2]>>
  BY <1>1
<1> QED
  BY <1>2 DEF TypeOK

LEMMA FreshStep == Kept /\ [Next]_vars => FreshOK'
<1> SUFFICES ASSUME Kept, [Next]_vars PROVE FreshOK'
  OBVIOUS
<1>0. TypeOK /\ OpenForEdit /\ QueueOK /\ FreshOK /\ TypeOK'
  BY TypeStep DEF Kept
<1>a. /\ \A w \in written : w \in Request
      /\ job # NoJob => job \in Job /\ job.req \in Request
      /\ inbox \in Seq(Request) /\ Len(inbox) \in Nat
      /\ \A i \in 1..Len(inbox) : inbox[i] \in Request
  BY <1>0 DEF TypeOK, Job
<1>b. ASSUME \A c \in Client : call'[c].n = call[c].n,
             written' = written, job' = job \/ job' = NoJob,
             inbox' = inbox \/ inbox' = <<>> \/ (inbox # <<>> /\ inbox' = Tail(inbox))
      PROVE  FreshOK'
  <2>1. \A i \in 1..Len(inbox') : \E j \in 1..Len(inbox) : inbox'[i] = inbox[j]
    <3>1. CASE inbox' = inbox
      BY <3>1
    <3>2. CASE inbox' = <<>>
      BY <3>2
    <3>3. CASE inbox # <<>> /\ inbox' = Tail(inbox)
      <4>1. /\ Len(inbox') = Len(inbox) - 1
            /\ \A i \in 1..Len(inbox') : inbox'[i] = inbox[i + 1]
        BY <1>a, <3>3, HeadTailProperties
      <4>2. \A i \in 1..Len(inbox') : i + 1 \in 1..Len(inbox)
        BY <1>a, <4>1
      <4> QED
        BY <4>1, <4>2
    <3> QED
      BY <1>b, <3>1, <3>2, <3>3
  <2>2. /\ \A w \in written : w.id[1] \in Client
        /\ job # NoJob => job.req.id[1] \in Client
    BY <1>0, <1>a, UniqueCall
  <2>3. ASSUME NEW i \in 1..Len(inbox')
        PROVE  inbox'[i].id[2] <= call'[inbox'[i].id[1]].n
    <3>1. PICK j \in 1..Len(inbox) : inbox'[i] = inbox[j]
      BY <2>1
    <3>2. \A q \in Request : q.id[1] \in Client
      BY DEF Request
    <3>3. inbox[j] \in Request
      BY <1>a
    <3>4. inbox[j].id[1] \in Client
      BY <3>2, <3>3
    <3>5. inbox[j].id[2] <= call[inbox[j].id[1]].n
      BY <1>0 DEF QueueOK
    <3>6. call'[inbox[j].id[1]].n = call[inbox[j].id[1]].n
      BY <1>b, <3>4
    <3> QED
      BY ONLY <3>1, <3>5, <3>6
  <2>4. \A w \in written : w.id[2] <= call'[w.id[1]].n
    BY <1>0, <1>b, <2>2 DEF FreshOK
  <2>5. job # NoJob => job.req.id[2] <= call'[job.req.id[1]].n
    BY <1>0, <1>b, <2>2 DEF FreshOK
  <2>6. \A i \in 1..Len(inbox') :
            /\ \A w \in written : inbox'[i].id # w.id
            /\ job # NoJob => inbox'[i].id # job.req.id
    <3> TAKE i \in 1..Len(inbox')
    <3>1. PICK j \in 1..Len(inbox) : inbox'[i] = inbox[j]
      BY <2>1
    <3>2. \A w \in written : inbox[j].id # w.id
      BY <1>0 DEF FreshOK
    <3>3. job # NoJob => inbox[j].id # job.req.id
      BY <1>0 DEF FreshOK
    <3> QED
      BY ONLY <3>1, <3>2, <3>3
  <2> QED
    BY <1>0, <1>b, <2>3, <2>4, <2>5, <2>6 DEF FreshOK
<1>1. ASSUME NEW c \in Client, NEW op \in Operations[c], Call(c, op)
      PROVE  FreshOK'
  <2> DEFINE req == [id |-> <<c, call[c].n + 1>>, cmd |-> op.cmd, acc |-> op.acc,
                     dst |-> op.dst, amount |-> op.amount, card |-> op.card]
  <2>1. /\ \A d \in Client \ {c} : call'[d] = call[d]
        /\ call'[c].n = call[c].n + 1
        /\ written' = written /\ job' = job
        /\ inbox' = inbox \/ inbox' = Append(inbox, req)
    BY <1>0, <1>1 DEF Call, TypeOK
  <2>2. \A q \in Request : q.id[2] <= call[q.id[1]].n =>
            q.id[2] <= call'[q.id[1]].n /\ q.id # req.id
    <3> TAKE q \in Request
    <3>1. /\ q.id[1] \in Client /\ q.id[2] \in Nat /\ q.id = <<q.id[1], q.id[2]>>
          /\ call[q.id[1]].n \in Nat
      BY <1>0, UniqueCall
    <3>2. CASE q.id[1] = c
      BY <2>1, <3>1, <3>2
    <3>3. CASE q.id[1] # c
      BY <2>1, <3>1, <3>3
    <3> QED
      BY <3>2, <3>3
  <2>3. \A i \in 1..Len(inbox') :
            inbox'[i] = req \/ \E j \in 1..Len(inbox) : inbox'[i] = inbox[j]
    <3> HIDE DEF req
    <3>1. CASE inbox' = inbox
      BY <3>1
    <3>2. CASE inbox' = Append(inbox, req)
      <4>1. /\ Len(inbox') = Len(inbox) + 1
            /\ \A i \in 1..Len(inbox) : inbox'[i] = inbox[i]
            /\ inbox'[Len(inbox) + 1] = req
        BY <1>a, <3>2
      <4>2. \A i \in 1..Len(inbox') : i \in 1..Len(inbox) \/ i = Len(inbox) + 1
        BY <1>a, <4>1
      <4> QED
        BY <4>1, <4>2
    <3> QED
      BY <2>1, <3>1, <3>2
  <2> HIDE DEF req
  <2>4. /\ \A w \in written : w.id[2] <= call[w.id[1]].n
        /\ job # NoJob => job.req.id[2] <= call[job.req.id[1]].n
    BY <1>0 DEF FreshOK
  <2>5. IsFiniteSet(written) /\ \A w \in written : w.id[2] <= call'[w.id[1]].n
    BY <1>0, <1>a, <2>2, <2>4 DEF FreshOK
  <2>6. \A i \in 1..Len(inbox'), w \in written : inbox'[i].id # w.id
    <3>1. \A w \in written : w.id # req.id
      BY <1>a, <2>2, <2>4
    <3> QED
      BY <1>0, <2>3, <3>1 DEF FreshOK
  <2>7. CASE job = NoJob
    BY <2>1, <2>5, <2>6, <2>7 DEF FreshOK
  <2>8. CASE job # NoJob
    <3>1. /\ job.req.id[2] <= call'[job.req.id[1]].n
          /\ job.req.id # req.id
      BY <1>a, <2>2, <2>4, <2>8
    <3>2. \A i \in 1..Len(inbox') : inbox'[i].id # job.req.id
      BY <1>0, <2>3, <2>8, <3>1 DEF FreshOK
    <3>3. job.edits # <<>> => \A w \in written : w.id # job.req.id
      BY <1>0, <2>8 DEF FreshOK
    <3> QED
      BY <2>1, <2>5, <2>6, <3>1, <3>2, <3>3 DEF FreshOK
  <2> QED
    BY <2>7, <2>8
<1>2. ASSUME NEW c \in Client, Answered(c) \/ GivesUp(c) \/ LoseReply(c)
      PROVE  FreshOK'
  <2>1. \A d \in Client : call'[d].n = call[d].n
    <3>1. CASE Answered(c)
      BY <1>0, <3>1 DEF Answered, TypeOK
    <3>2. CASE GivesUp(c)
      BY <1>0, <3>2 DEF GivesUp, TypeOK
    <3>3. CASE LoseReply(c)
      BY <3>3 DEF LoseReply
    <3> QED
      BY <1>2, <3>1, <3>2, <3>3
  <2>2. inbox' = inbox /\ job' = job /\ written' = written
    BY <1>2 DEF Answered, GivesUp, LoseReply
  <2> QED
    BY <1>b, <2>1, <2>2
<1>3. ASSUME NEW new \in Account, Handle(new)
      PROVE  FreshOK'
  <2>r. PICK r : r = Head(inbox)
    OBVIOUS
  <2>1. /\ inbox # <<>> /\ inbox' = Tail(inbox) /\ call' = call
        /\ job'.req = r
        /\ job'.edits = IF Verdict(r) = OK THEN Edits(r, new) ELSE <<>>
        /\ written' = IF Verdict(r) = OK /\ Edits(r, new) = <<>>
                      THEN written \cup {r} ELSE written
    BY <1>3, <2>r DEF Handle
  <2>2. /\ r = inbox[1] /\ 1 \in 1..Len(inbox)
        /\ Len(inbox') = Len(inbox) - 1
        /\ \A i \in 1..Len(inbox') : inbox'[i] = inbox[i + 1]
    BY <1>a, <2>r, <2>1, HeadTailProperties, EmptySeq
  <2>3. \A i \in 1..Len(inbox') : i + 1 \in 1..Len(inbox) /\ i + 1 # 1
    BY <1>a, <2>2
  <2>4. \A i \in 1..Len(inbox') : inbox'[i].id # r.id
    BY <1>0, <2>2, <2>3 DEF QueueOK
  <2>5. r.id[2] <= call[r.id[1]].n
    BY <1>0, <2>2 DEF QueueOK
  <2>6. \A w \in written : w.id # r.id
    BY <1>0, <2>2 DEF FreshOK
  <2>7. \A i \in 1..Len(inbox'), w \in written : inbox'[i].id # w.id
    BY <1>0, <2>2, <2>3 DEF FreshOK
  <2>8. IsFiniteSet(written') /\ written' \subseteq written \cup {r}
    BY <1>0, <2>1, FS_AddElement DEF FreshOK
  <2>9. job'.edits # <<>> => written' = written
    BY <2>1
  <2>10. \A w \in written : w.id[2] <= call[w.id[1]].n
    BY <1>0 DEF FreshOK
  <2> QED
    BY <2>1, <2>4, <2>5, <2>6, <2>7, <2>8, <2>9, <2>10 DEF FreshOK
<1>4. ASSUME HandleRaises \/ LoseRequest \/ Start \/ DiskFails \/ Answer
               \/ Stop \/ Crash \/ UNCHANGED vars
      PROVE  FreshOK'
  <2>1. /\ call' = call /\ written' = written /\ (job' = job \/ job' = NoJob)
        /\ inbox' = inbox \/ inbox' = <<>> \/ (inbox # <<>> /\ inbox' = Tail(inbox))
    BY <1>4 DEF HandleRaises, LoseRequest, Start, DiskFails, Answer, Stop, Crash, vars
  <2> QED
    BY <1>b, <2>1
<1>5. ASSUME OpenFile
      PROVE  FreshOK'
  <2>1. /\ job # NoJob /\ job'.req = job.req /\ job'.edits = job.edits
        /\ call' = call /\ written' = written /\ inbox' = inbox
    BY <1>a, <1>5 DEF OpenFile, Job
  <2> QED
    BY <1>0, <2>1 DEF FreshOK
<1>6. ASSUME WriteFile
      PROVE  FreshOK'
  <2>1. /\ job # NoJob /\ job'.req = job.req /\ job'.edits = Tail(job.edits)
        /\ call' = call /\ inbox' = inbox
        /\ written' = IF Len(job.edits) = 1 THEN written \cup {job.req} ELSE written
    BY <1>a, <1>6 DEF WriteFile, Job
  <2>2. job.edits \in Seq(Edit) /\ job.edits # <<>>
    BY <1>0, <1>a, <1>6, <2>1 DEF WriteFile, OpenForEdit, Job
  <2>3. Len(job.edits) = 1 => job'.edits = <<>>
    BY <2>1, <2>2, TailOfOne
  <2>4. IsFiniteSet(written') /\ written' \subseteq written \cup {job.req}
    BY <1>0, <2>1, FS_AddElement DEF FreshOK
  <2>5. job'.edits # <<>> => written' = written
    BY <2>1, <2>3
  <2>6. /\ \A w \in written : w.id[2] <= call[w.id[1]].n
        /\ \A i \in 1..Len(inbox), w \in written : inbox[i].id # w.id
        /\ job.req.id[2] <= call[job.req.id[1]].n
        /\ \A i \in 1..Len(inbox) : inbox[i].id # job.req.id
        /\ \A w \in written : w.id # job.req.id
    BY <1>0, <2>1, <2>2 DEF FreshOK
  <2> QED
    BY <2>1, <2>4, <2>5, <2>6 DEF FreshOK
<1> QED
  BY <1>1, <1>2, <1>3, <1>4, <1>5, <1>6 DEF Next

LEMMA AmountFacts ==
    ASSUME NEW E \in Seq(Edit), Len(E) <= 2
    PROVE  /\ AmountOf(E) \in Int
           /\ AmountOf(<<>>) = 0
           /\ E # <<>> => /\ E[1] \in Edit /\ E[1].acc \in Account /\ E[1].amount \in Int
                          /\ Tail(E) \in Seq(Edit) /\ Len(Tail(E)) = Len(E) - 1
                          /\ AmountOf(E) = E[1].amount + AmountOf(Tail(E))
<1>1. AmountOf(<<>>) = 0
  BY DEF AmountOf
<1>2. CASE E = <<>>
  BY <1>1, <1>2
<1>3. CASE E # <<>>
  <2> DEFINE n == Len(E)
  <2>1. n \in Nat /\ n # 0 /\ n <= 2
    BY <1>3, EmptySeq
  <2>2. /\ Tail(E) \in Seq(Edit) /\ Len(Tail(E)) = n - 1
        /\ \A i \in 1..(n - 1) : Tail(E)[i] = E[i + 1]
    BY <1>3, HeadTailProperties
  <2>3. \A i \in 1..n : E[i] \in Edit /\ E[i].acc \in Account /\ E[i].amount \in Int
    <3>1. \A i \in 1..n : E[i] \in Edit
      OBVIOUS
    <3>2. \A e \in Edit : e.acc \in Account /\ e.amount \in Int
      BY DEF Edit
    <3> QED
      BY <3>1, <3>2
  <2> HIDE DEF n
  <2>4. CASE n = 1
    <3>1. Tail(E) = <<>>
      BY <2>4, TailOfOne DEF n
    <3>2. AmountOf(E) = E[1].amount
      BY <1>3, <2>4 DEF AmountOf, n
    <3>3. E[1] \in Edit /\ E[1].acc \in Account /\ E[1].amount \in Int
      BY <2>3, <2>4
    <3>4. AmountOf(Tail(E)) = 0
      BY <1>1, <3>1
    <3>5. E[1].amount + 0 = E[1].amount
      BY ONLY <3>3
    <3>6. E[1].amount + AmountOf(Tail(E)) = E[1].amount
      BY ONLY <3>4, <3>5
    <3> QED
      BY <1>1, <2>2, <3>2, <3>3, <3>6, <3>4 DEF n
  <2>5. CASE n = 2
    <3>1. Len(Tail(E)) = 1 /\ Tail(E)[1] = E[2] /\ Tail(E) # <<>>
      <4>0. Len(E) = 2
        BY <2>5 DEF n
      <4>1. Len(Tail(E)) = 1 /\ Tail(E)[1] = E[1 + 1]
        <5>1. /\ Len(Tail(E)) = Len(E) - 1
              /\ \A i \in 1..(Len(E) - 1) : Tail(E)[i] = E[i + 1]
          BY <2>2 DEF n
        <5>2. \A l \in {2} : l - 1 = 1 /\ 1 \in 1..(l - 1)
          OBVIOUS
        <5>3. Len(E) - 1 = 1 /\ 1 \in 1..(Len(E) - 1)
          BY ONLY <4>0, <5>2
        <5> QED
          BY ONLY <5>1, <5>3
      <4>2. 1 + 1 = 2
        OBVIOUS
      <4>3. Tail(E)[1] = E[2]
        BY ONLY <4>1, <4>2
      <4>4. Tail(E) # <<>>
        <5>1. Len(<<>>) = 0
          OBVIOUS
        <5>2. Len(Tail(E)) # 0
          BY ONLY <4>1
        <5> QED
          BY ONLY <5>1, <5>2
      <4> QED
        BY <4>1, <4>3, <4>4
    <3>2. AmountOf(E) = E[1].amount + E[2].amount
      BY <1>3, <2>5 DEF AmountOf, n
    <3>3. AmountOf(Tail(E)) = E[2].amount
      BY <3>1 DEF AmountOf
    <3>4. /\ E[1] \in Edit /\ E[1].acc \in Account /\ E[1].amount \in Int
          /\ E[2].amount \in Int
      BY <2>3, <2>5
    <3> QED
      BY <1>1, <2>2, <3>2, <3>3, <3>4 DEF n
  <2>6. n = 1 \/ n = 2
    BY <2>1
  <2> QED
    BY <2>4, <2>5, <2>6
<1> QED
  BY <1>2, <1>3

\* What the edits of a granted request add up to.
LEMMA DecidedAmount ==
    ASSUME NEW r \in Request, NEW new \in Account
    PROVE  /\ AmountOf(Edits(r, new)) = IF r.cmd = "EDIT" THEN r.amount ELSE 0
           /\ r.cmd = "EDIT" => Len(Edits(r, new)) = 1
<1>1. r.amount \in Int /\ Abs(r.amount) \in Int
  BY DEF Request, Abs
<1>2. CASE r.cmd = "MAKE_TRANSACTION"
  <2>1. /\ Len(Edits(r, new)) = 2
        /\ Edits(r, new)[1].amount = -Abs(r.amount)
        /\ Edits(r, new)[2].amount = Abs(r.amount)
    BY <1>2 DEF Edits
  <2> QED
    BY <1>1, <1>2, <2>1, EmptySeq DEF AmountOf
<1>3. CASE r.cmd = "EDIT"
  <2>1. Len(Edits(r, new)) = 1 /\ Edits(r, new)[1].amount = r.amount
    BY <1>3 DEF Edits
  <2> QED
    BY <1>3, <2>1, EmptySeq DEF AmountOf
<1>4. CASE r.cmd = "NEW_ACCOUNT"
  <2>1. Len(Edits(r, new)) = 1 /\ Edits(r, new)[1].amount = 0
    BY <1>4 DEF Edits
  <2> QED
    BY <1>4, <2>1, EmptySeq DEF AmountOf
<1>5. CASE r.cmd \notin {"MAKE_TRANSACTION", "EDIT", "NEW_ACCOUNT"}
  BY <1>5 DEF Edits, AmountOf
<1> QED
  BY <1>2, <1>3, <1>4, <1>5

LEMMA HandStep == Kept /\ [Next]_vars => HandOK'
<1> SUFFICES ASSUME Kept, [Next]_vars PROVE HandOK'
  OBVIOUS
<1>0. TypeOK /\ OpenForEdit /\ HandOK
  BY DEF Kept
<1>1. ASSUME NEW new \in Account, Handle(new)
      PROVE  HandOK'
  <2>r. PICK r : r = Head(inbox)
    OBVIOUS
  <2>1. /\ r \in Request
        /\ job'.req = r /\ ~job'.open
        /\ job'.edits = IF Verdict(r) = OK THEN Edits(r, new) ELSE <<>>
    BY <1>0, <1>1, <2>r, HeadTailProperties DEF Handle, TypeOK
  <2>2. Len(Edits(r, new)) <= 2 /\ (r.cmd = "EDIT" => Len(Edits(r, new)) = 1)
    BY <2>1, EditsType, DecidedAmount
  <2>3. Len(job'.edits) <= 2 /\ (r.cmd = "EDIT" => Len(job'.edits) <= 1)
    <3>1. CASE Verdict(r) = OK
      <4>1. job'.edits = Edits(r, new)
        BY <2>1, <3>1
      <4>2. Len(job'.edits) = 1 => Len(job'.edits) <= 1
        OBVIOUS
      <4> QED
        BY <2>2, <4>1, <4>2
    <3>2. CASE Verdict(r) # OK
      <4>1. Len(job'.edits) = 0
        BY <2>1, <3>2
      <4> QED
        BY <4>1
    <3> QED
      BY <3>1, <3>2
  <2> QED
    BY <2>1, <2>3 DEF HandOK
<1>2. ASSUME OpenFile
      PROVE  HandOK'
  <2>1. /\ job # NoJob /\ job \in Job /\ job.edits # <<>> /\ Len(job.edits) <= 2
        /\ job'.req = job.req /\ job'.edits = job.edits
    BY <1>0, <1>2 DEF OpenFile, TypeOK, Job, HandOK
  <2>2. Head(job.edits) = job.edits[1] /\ job.edits[1].acc \in Account
    BY <1>0, <2>1, Remaining DEF Edit
  <2>3. disk'[job.edits[1].acc].st = "torn"
    BY <1>0, <1>2, <2>2 DEF OpenFile, TypeOK, File
  <2> QED
    BY <1>0, <2>1, <2>3 DEF HandOK
<1>3. ASSUME WriteFile
      PROVE  HandOK'
  <2>1. /\ job # NoJob /\ job \in Job /\ job.edits # <<>> /\ Len(job.edits) <= 2
        /\ job'.req = job.req /\ job'.edits = Tail(job.edits) /\ ~job'.open
    BY <1>0, <1>3 DEF WriteFile, TypeOK, Job, HandOK, OpenForEdit
  <2>2. Len(job'.edits) = Len(job.edits) - 1 /\ Len(job.edits) \in Nat
    BY <1>0, <2>1, Remaining
  <2> QED
    BY <1>0, <2>1, <2>2 DEF HandOK
<1>4. ASSUME DiskFails \/ Answer \/ Stop \/ Crash
      PROVE  HandOK'
  BY <1>4 DEF DiskFails, Answer, Stop, Crash, HandOK
<1>5. ASSUME HandleRaises \/ LoseRequest \/ Start \/ UNCHANGED vars
      PROVE  HandOK'
  <2>1. job' = job /\ disk' = disk
    BY <1>5 DEF HandleRaises, LoseRequest, Start, vars
  <2> QED
    BY <1>0, <2>1 DEF HandOK
<1>6. ASSUME NEW c \in Client,
             (\E op \in Operations[c] : Call(c, op))
               \/ Answered(c) \/ GivesUp(c) \/ LoseReply(c)
      PROVE  HandOK'
  <2>1. job' = job /\ disk' = disk
    BY <1>6 DEF Call, Answered, GivesUp, LoseReply
  <2> QED
    BY <1>0, <2>1 DEF HandOK
<1> QED
  BY <1>1, <1>2, <1>3, <1>4, <1>5, <1>6 DEF Next

LEMMA KeptStep == Kept /\ [Next]_vars => Kept'
<1> SUFFICES ASSUME Kept, [Next]_vars PROVE Kept'
  OBVIOUS
<1>1. TypeOK /\ OpenForEdit /\ QueueOK
  BY DEF Kept
<1> QED
  BY <1>1, TypeStep, OpenForEditStep, QueueStep, FreshStep, HandStep DEF Kept

LEMMA MoneyTypes ==
    ASSUME Kept
    PROVE  /\ Money(disk) \in Int /\ Money(InitialDisk) \in Int
           /\ Added(written) \in Int
           /\ InHand \in Int /\ Pending \in Int /\ Owed \in Int
<1>1. /\ TypeOK /\ HandOK /\ OpenForEdit /\ IsFiniteSet(written)
  BY DEF Kept, FreshOK
<1>2. Money(disk) \in Int /\ Money(InitialDisk) \in Int
  BY <1>1, ConstantsOK, MoneyIsInt DEF TypeOK
<1>3. Added(written) \in Int
  <2>1. /\ EditsOf(written) \subseteq written
        /\ \A x \in written : Amounts(written)[x] \in Int
    BY <1>1 DEF EditsOf, Amounts, TypeOK, Request
  <2> QED
    BY <1>1, <2>1, AddedIsSum, SumType
<1>4. job # NoJob => /\ job.value \in Int /\ job.req.amount \in Int
                     /\ job.edits \in Seq(Edit)
  BY <1>1 DEF TypeOK, Job, Request
<1>5. Pending \in Int
  <2>1. CASE Unwritten = <<>>
    BY <2>1 DEF Pending, AmountOf
  <2>2. CASE Unwritten # <<>>
    <3>1. job # NoJob /\ Len(job.edits) <= 2
      BY <1>1, <2>2 DEF Unwritten, HandOK
    <3>2. CASE job.open
      <4>1. job.edits # <<>>
        BY <1>1, <3>1, <3>2 DEF OpenForEdit
      <4>2. Tail(job.edits) \in Seq(Edit) /\ Len(Tail(job.edits)) <= 2
        BY <1>4, <3>1, <4>1, AmountFacts
      <4> QED
        BY <3>1, <3>2, <4>2, AmountFacts DEF Pending, Unwritten
    <3>3. CASE ~job.open
      BY <1>4, <3>1, <3>3, AmountFacts DEF Pending, Unwritten
    <3> QED
      BY <3>2, <3>3
  <2> QED
    BY <2>1, <2>2
<1>6. InHand \in Int /\ Owed \in Int
  BY <1>4 DEF InHand, Owed
<1> QED
  BY <1>2, <1>3, <1>5, <1>6

\* A step that is no accident leaves the gain as it is,
LEMMA GainStays ==
    ASSUME Kept, [Next]_vars, ~DiskFails, ~Crash
    PROVE  Gain' = Gain
<1> DEFINE M == Money(disk)
           W == Money(InitialDisk) + Added(written)
<1>0. TypeOK /\ OpenForEdit /\ FreshOK /\ HandOK
  BY DEF Kept
<1>a. /\ Readable = M /\ Readable' = Money(disk')
      /\ Minted = W /\ Minted' = Money(InitialDisk) + Added(written')
      /\ M \in Int /\ W \in Int
      /\ Money(InitialDisk) \in Int /\ Added(written) \in Int
      /\ InHand \in Int /\ Pending \in Int /\ Owed \in Int
  BY BankSums, MoneyTypes
<1>b. ASSUME disk' = disk, written' = written, job' = job
      PROVE  Gain' = Gain
  <2>1. InHand' = InHand /\ Pending' = Pending /\ Owed' = Owed
    BY <1>b DEF InHand, Pending, Unwritten, Owed
  <2> QED
    BY <1>a, <1>b, <2>1 DEF Gain
<1>1. ASSUME NEW c \in Client,
             (\E op \in Operations[c] : Call(c, op))
               \/ Answered(c) \/ GivesUp(c) \/ LoseReply(c)
      PROVE  Gain' = Gain
  <2>1. disk' = disk /\ written' = written /\ job' = job
    BY <1>1 DEF Call, Answered, GivesUp, LoseReply
  <2> QED
    BY <1>b, <2>1
<1>2. ASSUME HandleRaises \/ LoseRequest \/ Start \/ UNCHANGED vars
      PROVE  Gain' = Gain
  <2>1. disk' = disk /\ written' = written /\ job' = job
    BY <1>2 DEF HandleRaises, LoseRequest, Start, vars
  <2> QED
    BY <1>b, <2>1
<1>3. ASSUME Answer \/ Stop
      PROVE  Gain' = Gain
  <2>1. /\ disk' = disk /\ written' = written /\ job' = NoJob
        /\ job # NoJob => job.edits = <<>>
    BY <1>3 DEF Answer, Stop
  <2>2. InHand = 0 /\ Pending = 0 /\ Owed = 0
    BY <1>0, <2>1 DEF OpenForEdit, InHand, Pending, Unwritten, Owed, AmountOf
  <2>3. InHand' = 0 /\ Pending' = 0 /\ Owed' = 0
    BY <2>1 DEF InHand, Pending, Unwritten, Owed, AmountOf
  <2> QED
    BY <1>a, <2>1, <2>2, <2>3 DEF Gain
<1>4. ASSUME NEW new \in Account, Handle(new)
      PROVE  Gain' = Gain
  <2>r. PICK r : r = Head(inbox)
    OBVIOUS
  <2> DEFINE E == IF Verdict(r) = OK THEN Edits(r, new) ELSE <<>>
             mint == IF r.cmd = "EDIT" THEN r.amount ELSE 0
  <2>1. /\ r \in Request /\ job = NoJob /\ disk' = disk
        /\ job'.req = r /\ ~job'.open /\ job'.edits = E
        /\ written' = IF Verdict(r) = OK /\ Edits(r, new) = <<>>
                      THEN written \cup {r} ELSE written
    BY <1>0, <1>4, <2>r, HeadTailProperties DEF Handle, TypeOK
  <2>2. AmountOf(Edits(r, new)) = mint /\ (r.cmd = "EDIT" => Len(Edits(r, new)) = 1)
    BY <2>1, DecidedAmount
  <2>3. InHand = 0 /\ Pending = 0 /\ Owed = 0
    BY <2>1 DEF InHand, Pending, Unwritten, Owed, AmountOf
  <2>4. job' # NoJob
    <3>1. OutcomeOf(r) \in Outcome /\ E \in Seq(Edit)
      BY <1>0, <2>1, OutcomeType, EditsType, EmptySeq DEF TypeOK
    <3>2. job' \in Job
      BY <1>4, <2>r, <2>1, <3>1 DEF Handle, Job
    <3> QED
      BY <3>2, ConstantsOK
  <2>5. InHand' = 0 /\ Pending' = AmountOf(E)
    BY <2>1, <2>4 DEF InHand, Pending, Unwritten
  <2>6. Owed' = IF r.cmd = "EDIT" /\ E # <<>> THEN r.amount ELSE 0
    BY <2>1, <2>4 DEF Owed
  <2>7. r.amount \in Int
    BY <2>1 DEF Request
  <2>8. AmountOf(<<>>) = 0
    BY DEF AmountOf
  <2>9. Added(written') = Added(written)
    <3>1. CASE Verdict(r) = OK /\ Edits(r, new) = <<>>
      <4>1. r.cmd # "EDIT"
        BY <2>2, <3>1, EmptySeq
      <4>2. \A w \in written : w.id # r.id
        <5>1. r = inbox[1] /\ 1 \in 1..Len(inbox)
          BY <1>0, <1>4, <2>r, HeadTailProperties, EmptySeq DEF TypeOK, Handle
        <5> QED
          BY <1>0, <5>1 DEF FreshOK
      <4>3. r \notin written
        BY <4>2
      <4>4. Added(written \cup {r}) = Added(written) + 0
        BY <1>0, <2>1, <4>1, <4>3, AddedOne DEF TypeOK, FreshOK
      <4> QED
        BY <1>a, <2>1, <3>1, <4>4
    <3>2. CASE ~(Verdict(r) = OK /\ Edits(r, new) = <<>>)
      BY <2>1, <3>2
    <3> QED
      BY <3>1, <3>2
  <2>10. Pending' = Owed'
    <3>1. CASE E = <<>>
      BY <2>5, <2>6, <2>8, <3>1
    <3>2. CASE E # <<>>
      BY <2>2, <2>5, <2>6, <3>2
    <3> QED
      BY <3>1, <3>2
  <2>11. Owed' \in Int
    BY <2>6, <2>7
  <2> QED
    BY <1>a, <2>1, <2>3, <2>5, <2>9, <2>10, <2>11 DEF Gain
<1>5. ASSUME OpenFile
      PROVE  Gain' = Gain
  <2> DEFINE E == job.edits
             a == E[1].acc
             m == E[1].amount
             R == AmountOf(Tail(E))
  <2>1. /\ job # NoJob /\ job \in Job /\ E \in Seq(Edit) /\ E # <<>> /\ ~job.open
        /\ Len(E) <= 2
    BY <1>0, <1>5 DEF OpenFile, TypeOK, Job, HandOK
  <2>2. /\ Head(E) = E[1] /\ a \in Account /\ m \in Int
        /\ Tail(E) \in Seq(Edit) /\ Len(Tail(E)) <= 2
        /\ AmountOf(E) = m + R /\ R \in Int
    <3>1. /\ E[1] \in Edit /\ a \in Account /\ m \in Int /\ Tail(E) \in Seq(Edit)
          /\ Len(Tail(E)) = Len(E) - 1 /\ AmountOf(E) = m + R
      BY <2>1, AmountFacts
    <3>2. Len(Tail(E)) <= 2 /\ Head(E) = E[1]
      BY <2>1, <3>1, HeadTailProperties
    <3> QED
      BY <3>1, <3>2, AmountFacts
  <2> DEFINE s == IF disk[a].st = "ok" THEN disk[a].solde ELSE 0
  <2>3. job' = [job EXCEPT !.open = TRUE, !.value = s + m]
    BY <1>5, <2>2 DEF OpenFile, Current
  <2>4. s \in Int
    BY <1>0, <2>2 DEF TypeOK, File
  <2>5. /\ job' # NoJob /\ job'.open /\ job'.edits = E
        /\ job'.value = s + m /\ job'.req = job.req
    <3>0. s + m \in Int
      BY <2>2, <2>4
    <3> HIDE DEF s, m, E
    <3>1. job' \in Job
      BY <2>1, <2>3, <3>0 DEF Job
    <3> QED
      BY <2>1, <2>3, <3>1, ConstantsOK DEF Job, E
  <2>6. disk' = [disk EXCEPT ![a].st = "torn"] /\ written' = written
    BY <1>5, <2>2 DEF OpenFile
  <2>7. Money(disk') = Money(disk) - s
    BY <1>0, <2>2, <2>6, MoneyOut DEF TypeOK
  <2>8. InHand = 0 /\ Pending = m + R
    BY <2>1, <2>2 DEF InHand, Pending, Unwritten
  <2>9. InHand' = s + m /\ Pending' = R /\ Owed' = Owed
    BY <2>1, <2>5 DEF InHand, Pending, Unwritten, Owed
  <2> HIDE DEF s, m, R, E, a
  <2>10. Minted' = Minted
    BY <1>a, <2>6
  <2>11. Readable' = Readable - s
    BY <1>a, <2>7
  <2>12. /\ Readable \in Int /\ Minted \in Int /\ Owed \in Int
         /\ s \in Int /\ m \in Int /\ R \in Int
    BY <1>a, <2>2, <2>4
  <2> QED
    BY ONLY <2>8, <2>9, <2>10, <2>11, <2>12 DEF Gain
<1>6. ASSUME WriteFile
      PROVE  Gain' = Gain
  <2> DEFINE E == job.edits
             a == E[1].acc
             R == AmountOf(Tail(E))
             n == job.value
             mint == IF job.req.cmd = "EDIT" THEN job.req.amount ELSE 0
  <2>1. /\ job # NoJob /\ job \in Job /\ E \in Seq(Edit) /\ E # <<>> /\ job.open
        /\ Len(E) <= 2 /\ n \in Int /\ job.req \in Request /\ job.req.amount \in Int
        /\ disk[a].st = "torn"
        /\ job.req.cmd = "EDIT" => Len(E) <= 1
    BY <1>0, <1>6 DEF WriteFile, TypeOK, Job, Request, HandOK, OpenForEdit
  <2>2. /\ Head(E) = E[1] /\ a \in Account
        /\ Tail(E) \in Seq(Edit) /\ Len(Tail(E)) = Len(E) - 1
        /\ Len(E) \in {1, 2} /\ R \in Int
    <3>1. /\ a \in Account /\ Tail(E) \in Seq(Edit) /\ Len(Tail(E)) = Len(E) - 1
      BY <2>1, AmountFacts
    <3>2. Head(E) = E[1] /\ Len(E) \in {1, 2}
      BY <1>0, <2>1, Remaining
    <3>3. Len(Tail(E)) <= 2
      <4> DEFINE k == Len(E)
                 t == Len(Tail(E))
      <4>1. k \in {1, 2} /\ t = k - 1
        BY <3>1, <3>2
      <4> HIDE DEF k, t
      <4>2. t <= 2
        BY ONLY <4>1
      <4> QED
        BY <4>2 DEF t
    <3> QED
      BY <3>1, <3>2, <3>3, AmountFacts
  <2>3. job' = [job EXCEPT !.open = FALSE, !.edits = Tail(E)]
    BY <1>6 DEF WriteFile
  <2>4. /\ job' # NoJob /\ ~job'.open /\ job'.edits = Tail(E) /\ job'.req = job.req
    <3>1. job' \in Job
      BY <2>1, <2>2, <2>3 DEF Job
    <3> QED
      BY <2>1, <2>3, <3>1, ConstantsOK DEF Job
  <2>5. /\ disk' = [disk EXCEPT ![a] = [st |-> "ok", solde |-> n]]
        /\ written' = IF Len(E) = 1 THEN written \cup {job.req} ELSE written
    BY <1>6, <2>2 DEF WriteFile
  <2>6. Money(disk') = Money(disk) + n
    <3>1. disk \in [Account -> File] /\ disk[a].st # "ok"
      BY <1>0, <2>1 DEF TypeOK
    <3> HIDE DEF n, a, E
    <3> QED
      BY <2>1, <2>2, <2>5, <3>1, MoneyIn
  <2>7. InHand = n /\ Pending = R /\ Owed = mint
    BY <2>1 DEF InHand, Pending, Unwritten, Owed
  <2>8. InHand' = 0 /\ Pending' = R
    BY <2>4 DEF InHand, Pending, Unwritten
  <2>9. Added(written') - Added(written) = mint - Owed' /\ Added(written') \in Int
        /\ mint \in Int /\ Owed' \in Int
    <3>1. mint \in Int
      BY <2>1
    <3>2. CASE Len(E) = 1
      <4>1. Tail(E) = <<>>
        BY <2>1, <3>2, TailOfOne
      <4>2. Owed' = 0
        BY <2>4, <4>1 DEF Owed
      <4>3. job.req \notin written
        BY <1>0, <2>1 DEF FreshOK
      <4>4. Added(written \cup {job.req}) = Added(written) + mint
        BY <1>0, <2>1, <4>3, AddedOne DEF TypeOK, FreshOK
      <4> HIDE DEF mint
      <4> QED
        BY <1>a, <2>5, <3>1, <3>2, <4>2, <4>4
    <3>3. CASE Len(E) = 2
      <4>1. job.req.cmd # "EDIT"
        BY <2>1, <3>3
      <4>2. mint = 0 /\ Owed' = 0
        BY <2>4, <4>1 DEF Owed
      <4> HIDE DEF mint
      <4> QED
        BY <1>a, <2>5, <3>3, <4>2
    <3> QED
      BY <2>2, <3>2, <3>3
  <2>10. n \in Int /\ R \in Int
    BY <2>1, <2>2
  <2> HIDE DEF mint, n, R, E, a
  <2> QED
    BY <1>a, <2>6, <2>7, <2>8, <2>9, <2>10 DEF Gain
<1> QED
  BY <1>1, <1>2, <1>3, <1>4, <1>5, <1>6 DEF Next

\* and an accident loses what is in hand.
LEMMA GainLost ==
    ASSUME Kept, DiskFails \/ Crash
    PROVE  /\ Gain' = (Gain - (InHand + Pending)) + Owed
           /\ InHand' = 0 /\ Pending' = 0 /\ Owed' = 0
<1>1. disk' = disk /\ written' = written /\ job' = NoJob
  BY DEF DiskFails, Crash
<1>2. InHand' = 0 /\ Pending' = 0 /\ Owed' = 0
  BY <1>1 DEF InHand, Pending, Unwritten, Owed, AmountOf
<1>3. /\ Readable = Money(disk) /\ Readable' = Money(disk)
      /\ Minted = Money(InitialDisk) + Added(written)
      /\ Minted' = Money(InitialDisk) + Added(written)
      /\ Money(disk) \in Int /\ Money(InitialDisk) \in Int /\ Added(written) \in Int
      /\ InHand \in Int /\ Pending \in Int /\ Owed \in Int
  BY <1>1, BankSums, MoneyTypes
<1> QED
  BY <1>2, <1>3 DEF Gain

LEMMA KeptInit == Init => Kept /\ Gain = 0 /\ InHand = 0 /\ Pending = 0 /\ Owed = 0
<1> SUFFICES ASSUME Init
             PROVE  Kept /\ Gain = 0 /\ InHand = 0 /\ Pending = 0 /\ Owed = 0
  OBVIOUS
<1>1. TypeOK /\ OpenForEdit
  BY ConstantsOK, StatusNumbers, EmptySeq DEF Init, TypeOK, OpenForEdit, OK
<1>2. QueueOK /\ FreshOK /\ HandOK
  BY FS_EmptySet DEF Init, QueueOK, FreshOK, HandOK
<1>3. Kept
  BY <1>1, <1>2 DEF Kept
<1>4. InHand = 0 /\ Pending = 0 /\ Owed = 0
  BY DEF Init, InHand, Pending, Unwritten, Owed, AmountOf
<1>5. Added({}) = 0
  <2>1. IsSum(Added({}), Amounts({}), EditsOf({}))
    BY FS_EmptySet, AddedIsSum
  <2>2. EditsOf({}) = {}
    BY DEF EditsOf
  <2>3. PICK g : Adds(g, Amounts({}), {}) /\ Added({}) = g[{}]
    BY <2>1, <2>2 DEF IsSum
  <2>4. {} \in SUBSET {}
    OBVIOUS
  <2> QED
    BY <2>3, <2>4 DEF Adds
<1>6. disk = InitialDisk /\ written = {}
  BY DEF Init
<1>7. /\ Readable = Money(disk) /\ Minted = Money(InitialDisk) + Added(written)
      /\ Money(InitialDisk) \in Int
  BY <1>3, BankSums, MoneyTypes
<1> QED
  BY <1>3, <1>4, <1>5, <1>6, <1>7 DEF Gain

\* Without a crash and a disk error, transactions only move money: between two
\* requests the accounts hold what they held at the start and what granted
\* edits have added, transactions of an account with itself included.
THEOREM MoneyOnlyMoves ==
    ASSUME Undisturbed
    PROVE  Spec => []MoneyConserved
<1> DEFINE Balanced == Kept /\ Gain = 0
<1>1. Init => Balanced
  BY KeptInit
<1>2. Balanced /\ [Next]_vars => Balanced'
  <2> SUFFICES ASSUME Balanced, [Next]_vars PROVE Balanced'
    OBVIOUS
  <2>1. ~DiskFails /\ ~Crash
    BY Undisturbed DEF Undisturbed, DiskFails, Crash
  <2>2. Kept'
    BY KeptStep
  <2>3. Gain' = Gain
    BY <2>1, GainStays
  <2> QED
    BY <2>2, <2>3
<1>3. Balanced => MoneyConserved
  <2> SUFFICES ASSUME Balanced, job = NoJob PROVE Readable = Minted
    BY DEF MoneyConserved
  <2>1. InHand = 0 /\ Pending = 0 /\ Owed = 0
    BY DEF InHand, Pending, Unwritten, Owed, AmountOf
  <2>2. /\ Readable = Money(disk) /\ Minted = Money(InitialDisk) + Added(written)
        /\ Money(disk) \in Int /\ Money(InitialDisk) \in Int /\ Added(written) \in Int
    BY BankSums, MoneyTypes
  <2>3. (Readable + 0 + 0) - (Minted + 0) = 0
    BY <2>1 DEF Gain
  <2> QED
    BY ONLY <2>2, <2>3
<1> HIDE DEF Balanced
<1> QED
  BY <1>1, <1>2, <1>3, PTL DEF Spec

\* No account about to be written is torn, but the one whose file is open.
ReadyOK ==
    job # NoJob =>
        \A i \in 1..Len(job.edits) :
            disk[job.edits[i].acc].st = "torn" =>
                job.open /\ job.edits[i].acc = job.edits[1].acc

LEMMA ReadyStep == Kept /\ ReadyOK /\ [Next]_vars => ReadyOK'
<1> SUFFICES ASSUME Kept, ReadyOK, [Next]_vars PROVE ReadyOK'
  OBVIOUS
<1>0. TypeOK /\ OpenForEdit /\ HandOK
  BY DEF Kept
<1>a. ASSUME job' = job, disk' = disk PROVE ReadyOK'
  BY <1>a DEF ReadyOK
<1>1. ASSUME NEW c \in Client,
             (\E op \in Operations[c] : Call(c, op))
               \/ Answered(c) \/ GivesUp(c) \/ LoseReply(c)
      PROVE  ReadyOK'
  <2>1. job' = job /\ disk' = disk
    BY <1>1 DEF Call, Answered, GivesUp, LoseReply
  <2> QED
    BY <1>a, <2>1
<1>2. ASSUME HandleRaises \/ LoseRequest \/ Start \/ UNCHANGED vars
      PROVE  ReadyOK'
  <2>1. job' = job /\ disk' = disk
    BY <1>2 DEF HandleRaises, LoseRequest, Start, vars
  <2> QED
    BY <1>a, <2>1
<1>3. ASSUME DiskFails \/ Answer \/ Stop \/ Crash
      PROVE  ReadyOK'
  BY <1>3 DEF DiskFails, Answer, Stop, Crash, ReadyOK
<1>4. ASSUME NEW new \in Account, Handle(new)
      PROVE  ReadyOK'
  <2>r. PICK r : r = Head(inbox)
    OBVIOUS
  <2>1. /\ job'.edits = (IF Verdict(r) = OK THEN Edits(r, new) ELSE <<>>)
        /\ disk' = disk
        /\ disk[new].st = "none" \/ Verdict(r) # OK \/ r.cmd # "NEW_ACCOUNT"
    BY <1>4, <2>r DEF Handle
  <2>2. CASE Verdict(r) # OK
    <3>1. Len(job'.edits) = 0
      BY <2>1, <2>2, EmptySeq
    <3> QED
      BY <3>1 DEF ReadyOK
  <2>3. CASE Verdict(r) = OK
    <3>1. /\ r.cmd # "NEW_ACCOUNT" => disk[r.acc].st = "ok"
          /\ r.cmd = "MAKE_TRANSACTION" => disk[r.dst].st = "ok"
      BY <2>3, GrantedFacts
    <3>2. \A i \in 1..Len(Edits(r, new)) : disk[Edits(r, new)[i].acc].st # "torn"
      <4>1. CASE r.cmd = "MAKE_TRANSACTION"
        BY <3>1, <4>1 DEF Edits
      <4>2. CASE r.cmd = "EDIT"
        BY <3>1, <4>2 DEF Edits
      <4>3. CASE r.cmd = "NEW_ACCOUNT"
        BY <2>1, <2>3, <4>3 DEF Edits
      <4>4. CASE r.cmd \notin {"MAKE_TRANSACTION", "EDIT", "NEW_ACCOUNT"}
        BY <4>4 DEF Edits
      <4> QED
        BY <4>1, <4>2, <4>3, <4>4
    <3> QED
      BY <2>1, <2>3, <3>2 DEF ReadyOK
  <2> QED
    BY <2>2, <2>3
<1>5. ASSUME OpenFile
      PROVE  ReadyOK'
  <2>1. job \in Job /\ job # NoJob /\ job.edits # <<>> /\ ~job.open /\ job.edits \in Seq(Edit)
    BY <1>0, <1>5 DEF OpenFile, TypeOK, Job
  <2>2. /\ job'.edits = job.edits /\ job'.open
        /\ Head(job.edits) = job.edits[1]
    BY <1>5, <2>1, HeadTailProperties DEF OpenFile, Job
  <2>3. \A x \in Account : x # job.edits[1].acc => disk'[x] = disk[x]
    BY <1>0, <1>5, <2>2 DEF OpenFile, TypeOK
  <2>4. \A i \in 1..Len(job.edits) : job.edits[i].acc \in Account
    <3>1. \A i \in 1..Len(job.edits) : job.edits[i] \in Edit
      BY <2>1
    <3> QED
      BY <3>1 DEF Edit
  <2> QED
    BY <2>1, <2>2, <2>3, <2>4 DEF ReadyOK
<1>6. ASSUME WriteFile
      PROVE  ReadyOK'
  <2>1. job \in Job /\ job # NoJob /\ job.edits # <<>> /\ job.open /\ job.edits \in Seq(Edit)
    BY <1>0, <1>6 DEF WriteFile, TypeOK, OpenForEdit, Job
  <2>2. /\ job'.edits = Tail(job.edits)
        /\ Head(job.edits) = job.edits[1] /\ job.edits[1] \in Edit
    BY <1>6, <2>1, HeadTailProperties DEF WriteFile, Job
  <2>3. CASE Tail(job.edits) = <<>>
    <3>1. Len(job'.edits) = 0
      BY <2>2, <2>3, EmptySeq
    <3> QED
      BY <3>1 DEF ReadyOK
  <2>4. CASE Tail(job.edits) # <<>>
    <3>1. Len(job.edits) = 2 /\ Len(Tail(job.edits)) = 1
          /\ Tail(job.edits)[1] = job.edits[2]
      BY <1>0, <2>1, <2>4, TailOfPair DEF HandOK
    <3> DEFINE a == job.edits[1].acc
               b == job.edits[2].acc
    <3>2. a \in Account /\ b \in Account
      <4>1. job.edits[2] \in Edit
        BY <2>1, <3>1
      <4> QED
        BY <2>2, <4>1 DEF Edit
    <3>3. disk'[a].st = "ok" /\ (b # a => disk'[b] = disk[b])
      BY <1>0, <1>6, <2>2, <3>2 DEF WriteFile, TypeOK
    <3>4. b # a => disk[b].st # "torn"
      BY <2>1, <3>1 DEF ReadyOK
    <3>5. disk'[b].st # "torn"
      BY <3>3, <3>4
    <3> QED
      BY <2>2, <3>1, <3>5 DEF ReadyOK
  <2> QED
    BY <2>3, <2>4
<1> QED
  BY <1>1, <1>2, <1>3, <1>4, <1>5, <1>6 DEF Next

\* The debt of the account whose file is open: it is in hand, not lost.
DebtInHand == IF job # NoJob /\ job.open THEN DebtOf(disk[job.edits[1].acc]) ELSE 0

\* What is in hand covers what an edit is still to mint.
Covered == Owed <= InHand + Pending + DebtInHand

LEMMA DebtType == Kept => DebtInHand \in Int
<1> SUFFICES ASSUME Kept PROVE DebtInHand \in Int
  OBVIOUS
<1>1. TypeOK /\ OpenForEdit /\ HandOK
  BY DEF Kept
<1>2. ASSUME job # NoJob, job.open PROVE disk[job.edits[1].acc].solde \in Int
  <2>1. job \in Job /\ job.edits \in Seq(Edit) /\ job.edits # <<>>
    BY <1>1, <1>2 DEF TypeOK, OpenForEdit, Job
  <2>2. job.edits[1] \in Edit
    BY <2>1, HeadTailProperties
  <2> QED
    BY <1>1, <2>2 DEF TypeOK, Edit, File
<1> QED
  BY <1>2 DEF DebtInHand, DebtOf

DebtIsInt == DebtInHand \in Int

LEMMA DebtTypeNext == Kept' => DebtInHand' \in Int
<1>1. Kept => DebtIsInt
  BY DebtType DEF DebtIsInt
<1>2. Kept' => DebtIsInt'
  BY <1>1, PTL
<1> QED
  BY <1>2 DEF DebtIsInt

LEMMA CoveredStep ==
    Kept /\ Solvent /\ Solvent' /\ Covered /\ [Next]_vars => Covered'
<1> SUFFICES ASSUME Kept, Solvent, Solvent', Covered, [Next]_vars PROVE Covered'
  OBVIOUS
<1>0. /\ TypeOK /\ OpenForEdit /\ HandOK /\ EditsOK
      /\ EditsOK' /\ TypeOK' /\ OpenForEdit'
      /\ Kept' /\ HandOK'
  BY KeptStep DEF Kept, Solvent
<1>a. /\ InHand \in Int /\ Pending \in Int /\ Owed \in Int /\ DebtInHand \in Int
      /\ Owed <= InHand + Pending + DebtInHand
  BY MoneyTypes, DebtType DEF Covered
<1>b. ASSUME job' = job, disk' = disk PROVE Covered'
  <2>1. InHand' = InHand /\ Pending' = Pending /\ Owed' = Owed /\ DebtInHand' = DebtInHand
    BY <1>b DEF InHand, Pending, Unwritten, Owed, DebtInHand
  <2> QED
    BY <1>a, <2>1 DEF Covered
<1>c. ASSUME job' = NoJob PROVE Covered'
  <2>1. InHand' = 0 /\ Pending' = 0 /\ Owed' = 0 /\ DebtInHand' = 0
    BY <1>c DEF InHand, Pending, Unwritten, Owed, AmountOf, DebtInHand
  <2> QED
    BY <2>1 DEF Covered
<1>1. ASSUME NEW c \in Client,
             (\E op \in Operations[c] : Call(c, op))
               \/ Answered(c) \/ GivesUp(c) \/ LoseReply(c)
      PROVE  Covered'
  <2>1. job' = job /\ disk' = disk
    BY <1>1 DEF Call, Answered, GivesUp, LoseReply
  <2> QED
    BY <1>b, <2>1
<1>2. ASSUME HandleRaises \/ LoseRequest \/ Start \/ UNCHANGED vars
      PROVE  Covered'
  <2>1. job' = job /\ disk' = disk
    BY <1>2 DEF HandleRaises, LoseRequest, Start, vars
  <2> QED
    BY <1>b, <2>1
<1>3. ASSUME DiskFails \/ Answer \/ Stop \/ Crash
      PROVE  Covered'
  <2>1. job' = NoJob
    BY <1>3 DEF DiskFails, Answer, Stop, Crash
  <2> QED
    BY <1>c, <2>1
<1>4. ASSUME NEW new \in Account, Handle(new)
      PROVE  Covered'
  <2>r. PICK r : r = Head(inbox)
    OBVIOUS
  <2>1. /\ r \in Request /\ job'.req = r /\ ~job'.open
        /\ job'.edits = IF Verdict(r) = OK THEN Edits(r, new) ELSE <<>>
    BY <1>0, <1>4, <2>r, HeadTailProperties DEF Handle, TypeOK
  <2>2. AmountOf(Edits(r, new)) = IF r.cmd = "EDIT" THEN r.amount ELSE 0
    BY <2>1, DecidedAmount
  <2>3. CASE job' = NoJob
    BY <1>c, <2>3
  <2>4. CASE job' # NoJob
    <3>1. InHand' = 0 /\ Pending' = AmountOf(job'.edits) /\ DebtInHand' = 0
      BY <2>1, <2>4 DEF InHand, Pending, Unwritten, DebtInHand
    <3>2. Owed' = IF r.cmd = "EDIT" /\ job'.edits # <<>> THEN r.amount ELSE 0
      BY <2>1, <2>4 DEF Owed
    <3>3. AmountOf(<<>>) = 0 /\ r.amount \in Int
      BY <2>1 DEF AmountOf, Request
    <3>4. CASE job'.edits = <<>>
      BY <3>1, <3>2, <3>3, <3>4 DEF Covered
    <3>5. CASE job'.edits # <<>>
      <4>1. Pending' = Owed' /\ Owed' \in Int
        BY <2>1, <2>2, <3>1, <3>2, <3>3, <3>5
      <4>2. \A x \in Int : x <= 0 + x + 0
        OBVIOUS
      <4>3. Owed' <= InHand' + Pending' + DebtInHand'
        BY <3>1, <4>1, <4>2
      <4> QED
        BY ONLY <4>3 DEF Covered
    <3> QED
      BY <3>4, <3>5
  <2> QED
    BY <2>3, <2>4
<1>5. ASSUME OpenFile
      PROVE  Covered'
  <2> DEFINE E == job.edits
             m == E[1].amount
             R == AmountOf(Tail(E))
             s == Current(E[1].acc)
  <2>1. /\ job # NoJob /\ job \in Job /\ E \in Seq(Edit) /\ E # <<>> /\ ~job.open
        /\ Len(E) <= 2
    BY <1>0, <1>5 DEF OpenFile, TypeOK, Job, HandOK
  <2>2. /\ E[1].acc \in Account /\ m \in Int /\ Tail(E) \in Seq(Edit)
        /\ Len(Tail(E)) = Len(E) - 1 /\ AmountOf(E) = m + R
    BY <2>1, AmountFacts
  <2>3. Head(E) = E[1] /\ R \in Int
    <3>1. Len(Tail(E)) <= 2 /\ Head(E) = E[1]
      BY <2>1, <2>2, HeadTailProperties
    <3> QED
      BY <2>2, <3>1, AmountFacts
  <2> DEFINE d == DebtOf(disk[E[1].acc])
  <2>4. s \in Int /\ d \in Int /\ s + d >= 0
    BY <1>0, <2>2 DEF Current, DebtOf, TypeOK, File
  <2>5. job' = [job EXCEPT !.open = TRUE, !.value = s + m]
    BY <1>5, <2>3 DEF OpenFile
  <2>6. /\ job'.open /\ job'.edits = E
        /\ job'.value = s + m /\ job'.req = job.req
    <3> HIDE DEF s, m, E
    <3> QED
      BY <2>1, <2>5 DEF Job, E
  <2>7. InHand = 0 /\ Pending = m + R /\ DebtInHand = 0
    BY <2>1, <2>2 DEF InHand, Pending, Unwritten, DebtInHand
  <2>d. DebtOf(disk'[E[1].acc]) = d
    <3>1. disk' = [disk EXCEPT ![E[1].acc].st = "torn"]
      BY <1>5, <2>3 DEF OpenFile
    <3>2. disk'[E[1].acc].solde = disk[E[1].acc].solde
      BY <1>0, <2>2, <3>1 DEF TypeOK, File
    <3> QED
      BY <3>2 DEF DebtOf
  <2>8. CASE job' = NoJob
    BY <1>c, <2>8
  <2>9. CASE job' # NoJob
    <3>1. InHand' = s + m /\ Pending' = R /\ Owed' = Owed /\ DebtInHand' = d
      BY <2>1, <2>6, <2>9, <2>d DEF InHand, Pending, Unwritten, Owed, DebtInHand
    <3> HIDE DEF s, m, R, E, d
    <3> QED
      BY <1>a, <2>2, <2>3, <2>4, <2>7, <3>1 DEF Covered
  <2> QED
    BY <2>8, <2>9
<1>6. ASSUME WriteFile
      PROVE  Covered'
  <2> DEFINE E == job.edits
  <2>1. /\ job # NoJob /\ job \in Job /\ E \in Seq(Edit) /\ E # <<>>
        /\ Len(E) <= 2 /\ (job.req.cmd = "EDIT" => Len(E) <= 1)
        /\ job'.edits = Tail(E) /\ ~job'.open /\ job'.req = job.req
    BY <1>0, <1>6 DEF WriteFile, TypeOK, Job, HandOK, OpenForEdit
  <2>2. CASE Tail(E) = <<>>
    <3>1. InHand' = 0 /\ Pending' = 0 /\ Owed' = 0 /\ DebtInHand' = 0
      BY <2>1, <2>2 DEF InHand, Pending, Unwritten, Owed, AmountOf, DebtInHand
    <3> QED
      BY <3>1 DEF Covered
  <2>3. CASE Tail(E) # <<>>
    <3>1. Len(E) = 2 /\ Len(Tail(E)) = 1 /\ Tail(E)[1] = E[2]
      BY <2>1, <2>3, TailOfPair
    <3>2. E[2].amount >= 0 /\ job.req.cmd # "EDIT"
      BY <1>0, <2>1, <3>1 DEF EditsOK
    <3>3. CASE job' = NoJob
      BY <1>c, <3>3
    <3>4. CASE job' # NoJob
      <4>1. InHand' = 0 /\ Pending' = E[2].amount /\ Owed' = 0 /\ DebtInHand' = 0
        BY <2>1, <2>3, <3>1, <3>2, <3>4
           DEF InHand, Pending, Unwritten, Owed, AmountOf, DebtInHand
      <4>2. E[2].amount \in Int
        <5>1. E[2] \in Edit
          BY <2>1, <3>1
        <5> QED
          BY <5>1 DEF Edit
      <4> QED
        BY <3>2, <4>1, <4>2 DEF Covered
    <3> QED
      BY <3>3, <3>4
  <2> QED
    BY <2>2, <2>3
<1> QED
  BY <1>1, <1>2, <1>3, <1>4, <1>5, <1>6 DEF Next

\* A step that is no accident loses no debt.
LEMMA DebtsStand ==
    ASSUME Kept, Kept', ReadyOK, [Next]_vars, ~DiskFails, ~Crash
    PROVE  Debts(disk') - DebtInHand' = Debts(disk) - DebtInHand
<1>0. TypeOK /\ OpenForEdit /\ HandOK /\ TypeOK'
  BY DEF Kept
<1>a. /\ disk \in [Account -> File] /\ disk' \in [Account -> File]
      /\ Debts(disk) \in Int /\ Debts(disk') \in Int
  BY <1>0, DebtsAreInt DEF TypeOK
<1>t. DebtInHand \in Int
  BY DebtType
<1>1. ASSUME NEW c \in Client,
             (\E op \in Operations[c] : Call(c, op))
               \/ Answered(c) \/ GivesUp(c) \/ LoseReply(c)
      PROVE  Debts(disk') - DebtInHand' = Debts(disk) - DebtInHand
  <2>1. job' = job /\ disk' = disk
    BY <1>1 DEF Call, Answered, GivesUp, LoseReply
  <2> QED
    BY <2>1 DEF DebtInHand
<1>2. ASSUME HandleRaises \/ LoseRequest \/ Start \/ UNCHANGED vars
      PROVE  Debts(disk') - DebtInHand' = Debts(disk) - DebtInHand
  <2>1. job' = job /\ disk' = disk
    BY <1>2 DEF HandleRaises, LoseRequest, Start, vars
  <2> QED
    BY <2>1 DEF DebtInHand
<1>3. ASSUME Answer \/ Stop \/ \E new \in Account : Handle(new)
      PROVE  Debts(disk') - DebtInHand' = Debts(disk) - DebtInHand
  <2>1. /\ disk' = disk
        /\ job = NoJob \/ job.edits = <<>>
        /\ job' = NoJob \/ ~job'.open
    <3>1. CASE Answer \/ Stop
      BY <3>1 DEF Answer, Stop
    <3>2. CASE \E new \in Account : Handle(new)
      BY <3>2 DEF Handle
    <3> QED
      BY <1>3, <3>1, <3>2
  <2>2. DebtInHand = 0 /\ DebtInHand' = 0
    BY <1>0, <2>1 DEF DebtInHand, OpenForEdit
  <2> QED
    BY <2>1, <2>2
<1>4. ASSUME OpenFile
      PROVE  Debts(disk') - DebtInHand' = Debts(disk) - DebtInHand
  <2> DEFINE a == job.edits[1].acc
  <2>1. /\ job \in Job /\ job # NoJob /\ job.edits # <<>> /\ ~job.open
        /\ job.edits \in Seq(Edit)
    BY <1>0, <1>4 DEF OpenFile, TypeOK, Job
  <2>2. /\ job'.edits = job.edits /\ job'.open
        /\ Head(job.edits) = job.edits[1] /\ job.edits[1] \in Edit
        /\ 1 \in 1..Len(job.edits)
    BY <1>4, <2>1, HeadTailProperties, EmptySeq DEF OpenFile, Job
  <2>3. /\ a \in Account
        /\ disk' = [disk EXCEPT ![a].st = "torn"]
    BY <1>4, <2>2 DEF OpenFile, Edit
  <2> HIDE DEF a
  <2>4. /\ \A x \in Account \ {a} : disk'[x] = disk[x]
        /\ disk'[a].st = "torn" /\ disk'[a].solde = disk[a].solde
    BY <1>a, <2>3 DEF File
  <2>5. disk[a].st # "torn"
    BY <2>1, <2>2 DEF ReadyOK, a
  <2>6. Debts(disk') = Debts(disk) + DebtOf(disk'[a])
    BY <1>a, <2>3, <2>4, <2>5, DebtsDiffer
  <2>7. DebtInHand = 0 /\ DebtOf(disk'[a]) \in Int
        /\ (DebtInHand' = DebtOf(disk'[a]) \/ job' = NoJob)
    BY <1>a, <2>1, <2>2, <2>3 DEF DebtInHand, a, DebtOf, File
  <2>8. job' # NoJob
    <3>1. Current(a) + job.edits[1].amount \in Int
      BY <1>a, <2>2, <2>3, CurrentType DEF Edit
    <3>2. job' \in Job
      BY <1>4, <2>1, <2>2, <3>1 DEF OpenFile, Job, a
    <3> QED
      BY <3>2, ConstantsOK
  <2> QED
    BY <1>a, <2>6, <2>7, <2>8
<1>5. ASSUME WriteFile
      PROVE  Debts(disk') - DebtInHand' = Debts(disk) - DebtInHand
  <2> DEFINE a == job.edits[1].acc
  <2>1. /\ job \in Job /\ job # NoJob /\ job.edits # <<>> /\ job.open
        /\ job.edits \in Seq(Edit)
    BY <1>0, <1>5 DEF WriteFile, TypeOK, OpenForEdit, Job
  <2>2. /\ ~job'.open
        /\ Head(job.edits) = job.edits[1] /\ job.edits[1] \in Edit
    BY <1>5, <2>1, HeadTailProperties DEF WriteFile, Job
  <2>3. /\ a \in Account
        /\ disk' = [disk EXCEPT ![a] = [st |-> "ok", solde |-> job.value]]
    BY <1>5, <2>2 DEF WriteFile, Edit
  <2>4. disk[a].st = "torn"
    BY <1>0, <2>1 DEF HandOK
  <2>5. DebtInHand = DebtOf(disk[a]) /\ DebtInHand' = 0
    BY <2>1, <2>2 DEF DebtInHand
  <2> HIDE DEF a
  <2>6. /\ \A x \in Account \ {a} : disk[x] = disk'[x]
        /\ disk'[a].st # "torn"
    BY <1>a, <2>3
  <2>7. Debts(disk) = Debts(disk') + DebtOf(disk[a])
    BY <1>a, <2>3, <2>4, <2>6, DebtsDiffer
  <2> QED
    BY <1>a, <1>t, <2>5, <2>7
<1> QED
  BY <1>1, <1>2, <1>3, <1>4, <1>5 DEF Next

\* The bank never creates money, whatever crash or full disk cuts a request in
\* two and at whatever point, for amounts of any sign: it can only forget a debt,
\* with the file that held it.
THEOREM NoMoneyFromNothing == Spec => []MoneyNotCreated
<1> DEFINE Safe == /\ Kept /\ Solvent /\ ReadyOK /\ Covered
                   /\ Gain + DebtInHand <= Debts(disk)
<1>1. Init => Safe
  <2> SUFFICES ASSUME Init PROVE Safe
    OBVIOUS
  <2>1. Kept /\ Gain = 0 /\ InHand = 0 /\ Pending = 0 /\ Owed = 0
    BY KeptInit
  <2>2. ReadyOK /\ DebtInHand = 0
    BY DEF Init, ReadyOK, DebtInHand
  <2>3. Debts(disk) = 0
    <3>1. /\ IsSum(Debts(disk), Dues(disk), InDebt(disk))
          /\ disk = InitialDisk
      BY DebtsIsSum DEF Init
    <3>2. InDebt(disk) = {}
      BY <3>1, ConstantsOK DEF InDebt, File
    <3>3. PICK g : Adds(g, Dues(disk), {}) /\ Debts(disk) = g[{}]
      BY <3>1, <3>2 DEF IsSum
    <3>4. {} \in SUBSET {}
      OBVIOUS
    <3> QED
      BY <3>3, <3>4 DEF Adds
  <2> QED
    BY <2>1, <2>2, <2>3, SolventInit DEF Covered
<1>2. Safe /\ [Next]_vars => Safe'
  <2> SUFFICES ASSUME Safe, [Next]_vars PROVE Safe'
    OBVIOUS
  <2>1. Kept' /\ Solvent' /\ ReadyOK'
    BY KeptStep, SolventStep, ReadyStep
  <2>2. Covered'
    BY <2>1, CoveredStep
  <2>t. /\ InHand \in Int /\ Pending \in Int /\ Owed \in Int /\ Gain \in Int
        /\ DebtInHand \in Int /\ Debts(disk) \in Int
    <3>1. InHand \in Int /\ Pending \in Int /\ Owed \in Int /\ Gain \in Int
      BY BankSums, MoneyTypes DEF Gain
    <3>2. disk \in [Account -> File]
      BY DEF Kept, TypeOK
    <3> QED
      BY <3>1, <3>2, DebtType, DebtsAreInt
  <2>u. DebtInHand' \in Int /\ Debts(disk') \in Int
    <3>1. disk' \in [Account -> File]
      BY <2>1 DEF Kept, TypeOK
    <3> QED
      BY <2>1, <3>1, DebtTypeNext, DebtsAreInt
  <2>c. Owed <= InHand + Pending + DebtInHand /\ Gain + DebtInHand <= Debts(disk)
    BY DEF Covered
  <2>3. CASE DiskFails \/ Crash
    <3>1. Gain' = (Gain - (InHand + Pending)) + Owed
      BY <2>3, GainLost
    <3>2. DebtInHand' = 0 /\ Debts(disk') = Debts(disk)
      BY <2>3 DEF DiskFails, Crash, DebtInHand
    <3>3. Gain' + DebtInHand' <= Debts(disk')
      <4> DEFINE g == Gain
                 o == Owed
                 h == InHand
                 p == Pending
                 i == DebtInHand
                 d == Debts(disk)
      <4>1. /\ g \in Int /\ o \in Int /\ h \in Int /\ p \in Int /\ i \in Int /\ d \in Int
            /\ g + i <= d /\ o <= h + p + i
        BY <2>t, <2>c
      <4>2. Gain' = (g - (h + p)) + o /\ DebtInHand' = 0 /\ Debts(disk') = d
        BY <3>1, <3>2
      <4> HIDE DEF g, o, h, p, i, d
      <4>3. (g - (h + p)) + o + 0 <= d
        BY ONLY <4>1
      <4> QED
        BY ONLY <4>2, <4>3
    <3> QED
      BY <2>1, <2>2, <3>3
  <2>4. CASE ~(DiskFails \/ Crash)
    <3>1. Gain' = Gain
      BY <2>4, GainStays
    <3>2. Debts(disk') - DebtInHand' = Debts(disk) - DebtInHand
      BY <2>1, <2>4, DebtsStand
    <3>3. Gain' + DebtInHand' <= Debts(disk')
      <4> DEFINE g == Gain
                 i == DebtInHand
                 d == Debts(disk)
                 i1 == DebtInHand'
                 d1 == Debts(disk')
      <4>1. /\ g \in Int /\ i \in Int /\ d \in Int /\ i1 \in Int /\ d1 \in Int
            /\ g + i <= d /\ d1 - i1 = d - i /\ Gain' = g
        BY <2>t, <2>u, <2>c, <3>1, <3>2
      <4> HIDE DEF g, i, d
      <4>2. g + i1 <= d1
        <5> HIDE DEF i1, d1
        <5> QED
          BY ONLY <4>1
      <4> QED
        BY <4>1, <4>2
    <3> QED
      BY <2>1, <2>2, <3>3
  <2> QED
    BY <2>3, <2>4
<1>3. Safe => MoneyNotCreated
  <2> SUFFICES ASSUME Safe PROVE Readable <= Minted + DebtsLost
    BY DEF MoneyNotCreated
  <2>1. /\ Readable = Money(disk) /\ Minted = Money(InitialDisk) + Added(written)
        /\ DebtsLost = Debts(disk)
        /\ Money(disk) \in Int /\ Money(InitialDisk) \in Int /\ Added(written) \in Int
        /\ InHand \in Int /\ Pending \in Int /\ Owed \in Int
        /\ DebtInHand \in Int /\ Debts(disk) \in Int
    BY BankSums, MoneyTypes, DebtType, DebtsAreInt DEF Kept, TypeOK
  <2>2. Readable \in Int /\ Minted \in Int /\ DebtsLost \in Int
    BY ONLY <2>1
  <2>3. ((Readable + InHand + Pending) - (Minted + Owed)) + DebtInHand <= DebtsLost
    BY <2>1 DEF Gain
  <2>4. Owed <= InHand + Pending + DebtInHand
    BY Covered DEF Covered
  <2> QED
    BY ONLY <2>1, <2>2, <2>3, <2>4
<1> HIDE DEF Safe
<1> QED
  BY <1>1, <1>2, <1>3, PTL DEF Spec
==============================================================================
