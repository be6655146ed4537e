-------------------------------- MODULE Bank --------------------------------
(***************************************************************************)
(* The bank: the server of bank_server/rc.d/bank_server.lua, which keeps   *)
(* one file per account, and the calls of bank_api/lib/bank_api.lua, which *)
(* reach it over UDP.  The server handles one request at a time; handling  *)
(* is split where a crash of the machine or a full disk can interrupt it:  *)
(* before each file is opened for writing (which empties it), before its   *)
(* new content is written, and before the answer is sent.                  *)
(*                                                                         *)
(* Every call of the api opens a UDP socket of its own and closes it when  *)
(* it has an answer or gives up, so a request is named by its client and   *)
(* the number of the call, and an answer to an older call finds no socket. *)
(***************************************************************************)
EXTENDS Integers, Sequences, FiniteSets, FiniteSetsExt

CONSTANTS
    Account,      \* the account numbers
    Client,       \* the programs that call the api, one call at a time
    Trusted,      \* the clients configured with a secret the server signed
    Operations,   \* Operations[c]: the operations client c asks for
    InitialDisk,  \* the account files at the start
    NoJob, NoReply,
    Absent,       \* the balance of an account that cannot be used
    MaxCalls,     \* bound: the calls of each client
    Lossy,        \* datagrams may be lost
    MayCrash,     \* the server's machine may crash
    DiskMayFail   \* a file may fail to open or to be written

Commands == {"GET_CREDIT", "MAKE_TRANSACTION", "NEW_ACCOUNT", "NEW_CB", "EDIT"}

\* cbData as checkCBdata finds it; "absent" is nil or false, as the api
\* passes on when a program never read a card.
Cards == {"valid", "invalid", "absent"}
Operation == [cmd : Commands, acc : Account, dst : Account, amount : Int,
              card : Cards]

\* An account file: there is none, it holds a signed balance, its signature
\* is wrong, or it was emptied for a write that never came; solde is then what
\* it held before, for the properties alone.
File == [st : {"none", "ok", "bad", "torn"}, solde : Int]

\* The status codes of the protocol (PROTOCOLE_... in the code).
OK == 0
NO_ACCOUNT == 1
ERROR_ACCOUNT == 2
ERROR_CB == 3
ERROR_AMOUNT == 4
DENIED == 4
ERROR_RECEIVING_ACCOUNT == 5
ERROR_UNKNOWN == 999
TIMEOUT == -1
Statuses == {TIMEOUT, OK, NO_ACCOUNT, ERROR_ACCOUNT, ERROR_CB, ERROR_AMOUNT,
             DENIED, ERROR_RECEIVING_ACCOUNT}

Request == [id : Client \X Nat, cmd : Commands, acc : Account, dst : Account,
            amount : Int, card : Cards]
Outcome == [id : Client \X Nat, status : Statuses, solde : Int]

Edit == [acc : Account, amount : Int]
Job == [req : Request, outcome : Outcome, edits : Seq(Edit), open : BOOLEAN,
        value : Int]

ASSUME ConstantsOK ==
    /\ Operations \in [Client -> SUBSET Operation]
    /\ InitialDisk \in [Account -> File]
    /\ \A a \in Account : InitialDisk[a].solde >= 0
    /\ NoJob \notin Job
    /\ NoReply \notin Outcome
    /\ Absent \notin Int
    /\ MaxCalls \in [Client -> Nat]
    /\ Lossy \in BOOLEAN
    /\ MayCrash \in BOOLEAN
    /\ DiskMayFail \in BOOLEAN

\* A disk holds a finite number of files.
ASSUME AccountsFinite == IsFiniteSet(Account)

VARIABLES
    disk,    \* disk[a]: the file of account a
    up,      \* the service is started
    inbox,   \* the requests sent and not yet received by the server
    job,     \* the request being handled, or NoJob
    call,    \* call[c]: the newest call of client c
    reply,   \* reply[c]: the answer on its way to the socket of that call
    log,     \* the outcomes the server has decided on
    written  \* the requests granted whose changes are all on the disk

vars == <<disk, up, inbox, job, call, reply, log, written>>

Abs(n) == IF n < 0 THEN -n ELSE n

Init ==
    /\ disk = InitialDisk
    /\ up = TRUE
    /\ inbox = <<>>
    /\ job = NoJob
    /\ call = [c \in Client |-> [n |-> 0, waiting |-> FALSE, status |-> OK,
                                 solde |-> 0]]
    /\ reply = [c \in Client |-> NoReply]
    /\ log = {}
    /\ written = {}

------------------------------------------------------------------------------
(* The callers of the api *)

\* sendRequest up to recieve().  A request sent while the service is stopped
\* finds no socket.
Call(c, op) ==
    LET n == call[c].n + 1
        req == [id |-> <<c, n>>, cmd |-> op.cmd, acc |-> op.acc,
                dst |-> op.dst, amount |-> op.amount, card |-> op.card]
    IN /\ ~call[c].waiting
       /\ call[c].n < MaxCalls[c]
       /\ call' = [call EXCEPT ![c] = [n |-> n, waiting |-> TRUE,
                                       status |-> TIMEOUT, solde |-> 0]]
       /\ inbox' = IF up THEN Append(inbox, req) ELSE inbox
       /\ UNCHANGED <<disk, up, job, reply, log, written>>

\* recieve() returns the answer, and the call its status and balance.
Answered(c) ==
    /\ call[c].waiting
    /\ reply[c] # NoReply
    /\ call' = [call EXCEPT ![c].waiting = FALSE,
                            ![c].status = reply[c].status,
                            ![c].solde = reply[c].solde]
    /\ reply' = [reply EXCEPT ![c] = NoReply]
    /\ UNCHANGED <<disk, up, inbox, job, log, written>>

\* recieve() gives up and the socket is closed.
GivesUp(c) ==
    /\ call[c].waiting
    /\ call' = [call EXCEPT ![c].waiting = FALSE]
    /\ reply' = [reply EXCEPT ![c] = NoReply]
    /\ UNCHANGED <<disk, up, inbox, job, log, written>>

------------------------------------------------------------------------------
(* The server: what it decides about a request *)

UsesCard(r) == r.cmd \in {"GET_CREDIT", "MAKE_TRANSACTION", "EDIT"}
MayAsk(r) == r.cmd \in {"NEW_ACCOUNT", "NEW_CB", "EDIT"} => r.id[1] \in Trusted

\* What loadAccount returns for a file that is not torn.
AccountStatus(a) ==
    IF disk[a].st = "ok" THEN OK
    ELSE IF disk[a].st = "none" THEN NO_ACCOUNT ELSE ERROR_ACCOUNT

\* Mutant of Short: one unit of credit is given.
ShortByOne(r) ==
    CASE r.cmd = "MAKE_TRANSACTION" -> disk[r.acc].solde + 1 < r.amount
      [] r.cmd = "EDIT" -> r.amount < 0 /\ disk[r.acc].solde + 1 < Abs(r.amount)
      [] OTHER -> FALSE

Short(r) ==
    CASE r.cmd = "MAKE_TRANSACTION" -> disk[r.acc].solde < r.amount
      [] r.cmd = "EDIT" -> r.amount < 0 /\ disk[r.acc].solde < Abs(r.amount)
      [] OTHER -> FALSE

\* Mutant of Verdict: a missing receiving account is an unknown error.
VerdictUnknown(r) ==
    IF UsesCard(r) /\ r.card # "valid" THEN ERROR_CB
    ELSE IF ~MayAsk(r) THEN DENIED
    ELSE IF r.cmd # "NEW_ACCOUNT" /\ AccountStatus(r.acc) # OK
         THEN AccountStatus(r.acc)
    ELSE IF Short(r) THEN ERROR_AMOUNT
    ELSE IF r.cmd = "MAKE_TRANSACTION" /\ AccountStatus(r.dst) # OK
         THEN ERROR_UNKNOWN
    ELSE OK

\* The tests of messageHandler and of the handlers, in their order.
Verdict(r) ==
    IF UsesCard(r) /\ r.card # "valid" THEN ERROR_CB
    ELSE IF ~MayAsk(r) THEN DENIED
    ELSE IF r.cmd # "NEW_ACCOUNT" /\ AccountStatus(r.acc) # OK
         THEN AccountStatus(r.acc)
    ELSE IF Short(r) THEN ERROR_AMOUNT
    ELSE IF r.cmd = "MAKE_TRANSACTION" /\ AccountStatus(r.dst) # OK
         THEN ERROR_RECEIVING_ACCOUNT
    ELSE OK

\* The accounts loaded on the way to that verdict.
Loads(r) ==
    IF r.cmd = "NEW_ACCOUNT" \/ ~MayAsk(r) \/ (UsesCard(r) /\ r.card # "valid")
    THEN {}
    ELSE IF r.cmd = "MAKE_TRANSACTION" /\ AccountStatus(r.acc) = OK /\ ~Short(r)
         THEN {r.acc, r.dst} ELSE {r.acc}

\* checkCBdata indexes an absent card, and loadAccount raises an error on a
\* file without content.
Raises(r) ==
    \/ UsesCard(r) /\ r.card = "absent"
    \/ \E a \in Loads(r) : disk[a].st = "torn"

\* Mutant of Edits: the receiving account is credited first.
EditsCreditFirst(r, new) ==
    CASE r.cmd = "MAKE_TRANSACTION" -> <<[acc |-> r.dst, amount |-> Abs(r.amount)],
                                         [acc |-> r.acc, amount |-> -Abs(r.amount)]>>
      [] r.cmd = "EDIT" -> <<[acc |-> r.acc, amount |-> r.amount]>>
      [] r.cmd = "NEW_ACCOUNT" -> <<[acc |-> new, amount |-> 0]>>
      [] OTHER -> <<>>

\* The calls of writeAccount the request leads to, a new account's included.
Edits(r, new) ==
    CASE r.cmd = "MAKE_TRANSACTION" -> <<[acc |-> r.acc, amount |-> -Abs(r.amount)],
                                         [acc |-> r.dst, amount |-> Abs(r.amount)]>>
      [] r.cmd = "EDIT" -> <<[acc |-> r.acc, amount |-> r.amount]>>
      [] r.cmd = "NEW_ACCOUNT" -> <<[acc |-> new, amount |-> 0]>>
      [] OTHER -> <<>>

OutcomeOf(r) ==
    [id |-> r.id, status |-> Verdict(r),
     solde |-> IF r.cmd = "GET_CREDIT" /\ Verdict(r) = OK
               THEN disk[r.acc].solde ELSE 0]

------------------------------------------------------------------------------
(* The server: its steps *)

\* listenSocket takes a datagram and messageHandler decides.
Handle(new) ==
    LET r == Head(inbox)
    IN /\ up /\ job = NoJob
       /\ inbox # <<>>
       /\ ~Raises(r)
       /\ disk[new].st = "none" \/ Verdict(r) # OK \/ r.cmd # "NEW_ACCOUNT"
       /\ job' = [req |-> r, outcome |-> OutcomeOf(r),
                  edits |-> IF Verdict(r) = OK THEN Edits(r, new) ELSE <<>>,
                  open |-> FALSE, value |-> 0]
       /\ log' = log \cup {OutcomeOf(r)}
       /\ inbox' = Tail(inbox)
       /\ written' = IF Verdict(r) = OK /\ Edits(r, new) = <<>>
                     THEN written \cup {r} ELSE written
       /\ UNCHANGED <<disk, up, call, reply>>

\* The error is caught by the pcall of listenSocket: nothing is answered.
HandleRaises ==
    /\ up /\ job = NoJob
    /\ inbox # <<>>
    /\ Raises(Head(inbox))
    /\ inbox' = Tail(inbox)
    /\ UNCHANGED <<disk, up, job, call, reply, log, written>>

\* editAccount loads the account again, and writeAccount opens its file.
Current(a) == IF disk[a].st = "ok" THEN disk[a].solde ELSE 0

\* Mutant of OpenFile: the credit starts from the balance loaded before the
\* debit.
OpenFileStale ==
    /\ job # NoJob
    /\ job.edits # <<>> /\ ~job.open
    /\ LET e == Head(job.edits)
           stale == IF job.req.cmd = "MAKE_TRANSACTION" /\ Len(job.edits) = 1
                       /\ job.req.acc = job.req.dst THEN Abs(job.req.amount) ELSE 0
       IN /\ job' = [job EXCEPT !.open = TRUE,
                                !.value = Current(e.acc) + stale + e.amount]
          /\ disk' = [disk EXCEPT ![e.acc].st = "torn"]
    /\ UNCHANGED <<up, inbox, call, reply, log, written>>

OpenFile ==
    /\ job # NoJob
    /\ job.edits # <<>> /\ ~job.open
    /\ LET e == Head(job.edits)
       IN /\ job' = [job EXCEPT !.open = TRUE,
                                !.value = Current(e.acc) + e.amount]
          /\ disk' = [disk EXCEPT ![e.acc].st = "torn"]
    /\ UNCHANGED <<up, inbox, call, reply, log, written>>

WriteFile ==
    /\ job # NoJob
    /\ job.open
    /\ disk' = [disk EXCEPT ![Head(job.edits).acc] =
                               [st |-> "ok", solde |-> job.value]]
    /\ job' = [job EXCEPT !.open = FALSE, !.edits = Tail(@)]
    /\ written' = IF Len(job.edits) = 1 THEN written \cup {job.req} ELSE written
    /\ UNCHANGED <<up, inbox, call, reply, log>>

\* io.open returned nil, or write did (the disk is full): the chained call
\* raises an error, and nothing is answered.
DiskFails ==
    /\ DiskMayFail
    /\ job # NoJob
    /\ job.edits # <<>>
    /\ job' = NoJob
    /\ UNCHANGED <<disk, up, inbox, call, reply, log, written>>

\* Mutant of WaitsFor: the answer to any call of the client is taken.
WaitsForAny(c, id) == call[c].waiting

\* The datagram of sendMsg reaches its client if that very call still waits: a
\* later call has a port of its own, one of 16384 drawn at random, and the model
\* leaves out that it draws the same one again.
WaitsFor(c, id) == call[c].waiting /\ <<c, call[c].n>> = id

\* Mutant of Answer: sent before the last write.
AnswerEarly ==
    LET c == job.req.id[1]
    IN /\ job # NoJob
       /\ Len(job.edits) <= 1 /\ ~job.open
       /\ job' = NoJob
       /\ reply' = IF WaitsFor(c, job.req.id)
                   THEN [reply EXCEPT ![c] = job.outcome] ELSE reply
       /\ UNCHANGED <<disk, up, inbox, call, log, written>>

Answer ==
    LET c == job.req.id[1]
    IN /\ job # NoJob
       /\ job.edits = <<>>
       /\ job' = NoJob
       /\ reply' = IF WaitsFor(c, job.req.id)
                   THEN [reply EXCEPT ![c] = job.outcome] ELSE reply
       /\ UNCHANGED <<disk, up, inbox, call, log, written>>

------------------------------------------------------------------------------
(* The environment *)

LoseRequest ==
    /\ Lossy
    /\ inbox # <<>>
    /\ inbox' = Tail(inbox)
    /\ UNCHANGED <<disk, up, job, call, reply, log, written>>

LoseReply(c) ==
    /\ Lossy
    /\ reply[c] # NoReply
    /\ reply' = [reply EXCEPT ![c] = NoReply]
    /\ UNCHANGED <<disk, up, inbox, job, call, log, written>>

\* stop() kills the thread where it sleeps: between two requests, or in the
\* address resolution of an answer.
Stop ==
    /\ up
    /\ job # NoJob => job.edits = <<>>
    /\ up' = FALSE
    /\ job' = NoJob
    /\ inbox' = <<>>
    /\ UNCHANGED <<disk, call, reply, log, written>>

Start ==
    /\ ~up
    /\ up' = TRUE
    /\ UNCHANGED <<disk, inbox, job, call, reply, log, written>>

Crash ==
    /\ MayCrash
    /\ up
    /\ up' = FALSE
    /\ job' = NoJob
    /\ inbox' = <<>>
    /\ UNCHANGED <<disk, call, reply, log, written>>

------------------------------------------------------------------------------
Next ==
    \/ \E c \in Client :
          \/ \E op \in Operations[c] : Call(c, op)
          \/ Answered(c) \/ GivesUp(c) \/ LoseReply(c)
    \/ \E new \in Account : Handle(new)
    \/ HandleRaises \/ OpenFile \/ WriteFile \/ DiskFails \/ Answer
    \/ LoseRequest \/ Stop \/ Start \/ Crash

Spec == Init /\ [][Next]_vars

------------------------------------------------------------------------------
\* Every variable keeps its type.
TypeOK ==
    /\ disk \in [Account -> File]
    /\ up \in BOOLEAN
    /\ inbox \in Seq(Request)
    /\ job \in Job \cup {NoJob}
    /\ call \in [Client -> [n : Nat, waiting : BOOLEAN, status : Statuses,
                            solde : Int]]
    /\ reply \in [Client -> Outcome \cup {NoReply}]
    /\ log \subseteq Outcome
    /\ written \subseteq Request

\* A transaction whose amount is negative: the balance is compared with the
\* amount, and debited by its magnitude.
IsNegative(r) == r.cmd = "MAKE_TRANSACTION" /\ r.amount < 0

\* A file is opened for a balance below zero only to credit it, or for a
\* negative transaction: the test made when a request is decided still covers
\* its debit when it is written, whatever was written in between, and a stop,
\* crash or full disk before it leaves no debit behind for a later request.
DebitsAreCovered ==
    [][LET opened == job' # NoJob /\ job'.open /\ (job # NoJob => ~job.open)
       IN opened => \/ job'.value >= 0
                    \/ job'.value >= Current(Head(job'.edits).acc)
                    \/ IsNegative(job'.req)]_vars

\* No account file holds a negative balance, as the documentation of the api
\* has it: "A account can't have a negative balance."  A negative transaction
\* of an account that holds less than its magnitude makes it one.
NoOverdraft == \A a \in Account : disk[a].st = "ok" => disk[a].solde >= 0

\* The money in the accounts that can be read, and the money there would be
\* if the edits written were the only changes.
Readable == MapThenSumSet(LAMBDA a : disk[a].solde,
                          {a \in Account : disk[a].st = "ok"})
Minted == MapThenSumSet(LAMBDA a : InitialDisk[a].solde,
                        {a \in Account : InitialDisk[a].st = "ok"})
          + MapThenSumSet(LAMBDA r : r.amount,
                          {r \in written : r.cmd = "EDIT"})

\* The debts that went with the files a crash or a full disk has left empty.
DebtsLost == MapThenSumSet(LAMBDA a : -disk[a].solde,
                           {a \in Account : disk[a].st = "torn" /\ disk[a].solde < 0})

\* Whatever crash, full disk or loss interrupts the server, it creates no
\* money: a transaction cut in two loses the amount, it never doubles it.  Only
\* a debt can be lost to the bank's cost, with the file that held it.
MoneyNotCreated == Readable <= Minted + DebtsLost

\* Between two requests of an undisturbed server transactions have moved
\* money and neither created nor destroyed any, the ones from an account to
\* itself included.
MoneyConserved == job = NoJob => Readable = Minted

\* A client told that its request was granted can rely on it: the change is
\* on the disk, and it is the change of that call and not of an older one.
OkIsDurable ==
    \A c \in Client :
        (~call[c].waiting /\ call[c].n > 0 /\ call[c].status = OK) =>
            \E r \in written : r.id = <<c, call[c].n>>

\* The balance of an account once the request being handled is through.
Unwritten == IF job = NoJob THEN <<>>
             ELSE IF job.open THEN Tail(job.edits) ELSE job.edits
Touched(a, i) == i <= Len(Unwritten) /\ Unwritten[i].acc = a
Due(a, i) == IF Touched(a, i) THEN Unwritten[i].amount ELSE 0
BeingWritten(a) == job # NoJob /\ job.open /\ Head(job.edits).acc = a
Balance(a) ==
    IF disk[a].st = "ok" \/ BeingWritten(a) \/ Touched(a, 1) \/ Touched(a, 2)
    THEN (IF BeingWritten(a) THEN job.value ELSE Current(a)) + Due(a, 1) + Due(a, 2)
    ELSE Absent

Told(c) == IF call[c].n = 0 \/ call[c].waiting \/ call[c].status = TIMEOUT
           THEN NoReply
           ELSE [id |-> <<c, call[c].n>>, status |-> call[c].status,
                 solde |-> call[c].solde]

\* While it runs without a crash or a disk error, the bank is the ledger of
\* BankLedger: requests take effect atomically, and every answer is that of
\* the newest call, also after calls that timed out.
Ledger == INSTANCE BankLedger WITH
              NoOutcome <- NoReply,
              balance <- [a \in Account |-> Balance(a)],
              newest <- [c \in Client |-> call[c].n],
              asked <- {inbox[i] : i \in 1..Len(inbox)},
              executed <- log,
              told <- [c \in Client |-> Told(c)]
LedgerSpec == Ledger!Spec

==============================================================================
