----------------------------- MODULE Processing -----------------------------
(***************************************************************************)
(* The requests of several actions at once: the endpoints of the broker    *)
(* service that record and begin them, and the tx-processor that runs      *)
(* through all that are incomplete.  What an execution does inside is the  *)
(* subject of TxStateMachine; here an action is at one of a few stages:    *)
(*   initial  - nothing was submitted                                      *)
(*   locked   - an execution died between the lock and the stored result   *)
(*   refused  - the contract refused an uber transfer, for the first time  *)
(*   erred    - an error is stored, no admin has been called yet           *)
(*   failed   - an admin has been called                                   *)
(*   stuck    - an error is stored in a state that handles none, or as the *)
(*              last delta of all: nobody is called, no override helps     *)
(*   sent     - the client's coin, or the client's request, was taken      *)
(*   reverted - the transfer was submitted and mined as failed, which      *)
(*              waitCoin takes for not mined yet, at every run             *)
(*   jammed   - its history matches no path, no execution changes it again *)
(*   complete - all is done                                                *)
(* A transfer that one execution submits is mined after that execution has *)
(* paused.                                                                 *)
(***************************************************************************)
EXTENDS Integers

CONSTANTS
    Arrivals,     \* HTTP requests and e-transfer mails, each of which may create an action
    Mailings,     \* the requests they may carry: functions from Arrivals to Request
    MaxMishaps,   \* calls that fail and executions that die
    MaxOverrides  \* decisions of an admin

Kinds == {"Bill", "Uber", "Sell", "Plugin", "Buy"}

\* Two arrivals with one record are one signed request sent twice.
ASSUME MailingsAssumption ==
    \A m \in Mailings : \A a \in Arrivals : m[a].kind \in Kinds /\ m[a].at \in Nat \ {0}
ASSUME BoundsAssumption ==
    MaxMishaps \in Nat /\ MaxOverrides \in Nat

VARIABLES
    request,   \* what each arrival carries
    created,   \* the arrivals that have become actions
    elders,    \* of each action, those that were there when it was created
    listed,    \* the collections of incomplete references
    stage,     \* how far the stored history of each action goes
    erroneous, \* the actions whose history holds an error
    cooled,    \* the refused ones that were refused a quarter of an hour ago
    pc,        \* where the handler of each arrival is
    lastTx,    \* lastTxTimestamp of each user, in the contract
    taken,     \* how often the contract has accepted each request
    phase,     \* of the processor: the collection it reads next
    todo,      \* its list: the history it read of each action
    blocked,   \* usersWithFailedTxs
    mishaps, overrides

records == <<created, elders, listed, stage, erroneous>>
chain == <<lastTx, taken>>
processor == <<phase, todo, blocked>>
bounds == <<mishaps, overrides>>
vars == <<request, records, cooled, pc, chain, processor, bounds>>

Users == {m[a].user : m \in Mailings, a \in Arrivals}
Requests == UNION {{m[a] : a \in Arrivals} : m \in Mailings}
Stages == {"initial", "locked", "refused", "erred", "failed", "stuck", "sent", "reverted",
           "jammed", "complete"}

User(d) == request[d].user
Kind(d) == request[d].kind
At(d) == request[d].at
NotListed == "none"

\* Bills of both kinds share a collection.
Collection(d) == IF Kind(d) = "Uber" THEN "Bill" ELSE Kind(d)

\* Mutant: the sales are read before the bills.
SalesFirst == <<"Sell", "Plugin", "Bill", "Buy">>

\* The order in which fetchTransfers reads the collections.
FetchOrder == <<"Bill", "Plugin", "Sell", "Buy">>
Running == 5

NoTodo == [d \in Arrivals |-> NotListed]

Init ==
    /\ request \in Mailings
    /\ created = {} /\ elders = [a \in Arrivals |-> {}]
    /\ listed = {} /\ erroneous = {} /\ cooled = {}
    /\ stage = [a \in Arrivals |-> "initial"]
    /\ pc = [a \in Arrivals |-> "out"]
    /\ lastTx = [u \in Users |-> 0]
    /\ taken = [r \in Requests |-> 0]
    /\ phase = 1 /\ todo = NoTodo /\ blocked = {}
    /\ mishaps = 0 /\ overrides = 0

\* createAction: the action and its incomplete reference in one batch.
CreateAction(D) ==
    /\ created' = created \cup D
    /\ elders' = [d \in Arrivals |-> IF d \in D THEN created ELSE elders[d]]
    /\ listed' = listed \cup D
    /\ UNCHANGED <<stage, erroneous>>

(***************************************************************************)
(* One execution from the lock on.  It began with the history at stage     *)
(* `seen', and whoever has written to the action since then has left a     *)
(* history to which no further delta fits.                                 *)
(***************************************************************************)
Stored(d, seen, s) == IF stage[d] = seen THEN s ELSE "jammed"

Reaches(d, seen, s) ==
    /\ stage' = [stage EXCEPT ![d] = Stored(d, seen, s)]
    /\ erroneous' = erroneous \cup (IF s \in {"refused", "erred", "failed", "stuck"} THEN {d} ELSE {})
    /\ UNCHANGED <<created, elders, listed>>

\* Mutant: a timestamp may be used again.
TimestampNotLower(d) == Kind(d) = "Buy" \/ At(d) >= lastTx[User(d)]

\* The modifier timestampIncreases of the contract; deposits are not signed.
TimestampIncreases(d) == Kind(d) = "Buy" \/ At(d) > lastTx[User(d)]

Accepted(d) ==
    /\ TimestampIncreases(d)
    /\ taken' = [taken EXCEPT ![request[d]] = @ + 1]
    /\ lastTx' = IF Kind(d) = "Buy" THEN lastTx ELSE [lastTx EXCEPT ![User(d)] = At(d)]

\* What retryRegisterTx makes of a refusal, and what everything else does.
Refused(d, failure) ==
    IF Kind(d) = "Uber" /\ d \notin erroneous THEN "refused" ELSE failure

Mishap == mishaps < MaxMishaps /\ mishaps' = mishaps + 1
AllWell == UNCHANGED mishaps

\* The transfer is submitted and the execution ends at stage s.  `failure' is
\* that of an error: the service stops before it calls an admin.
Submit(d, failure, s) ==
    \/ s = "sent" /\ Accepted(d) /\ AllWell
    \/ /\ s = Refused(d, failure) /\ UNCHANGED chain
       /\ \/ ~TimestampIncreases(d) /\ AllWell
          \/ Kind(d) # "Buy" /\ Mishap        \* the balance is too low, for now
    \/ \* The call fails, and the contract may have accepted it all the same.
       s = failure /\ Mishap /\ (Accepted(d) \/ UNCHANGED chain)
    \/ \* No transfer yet: the deposit's mail cannot be labelled.
       s = "stuck" /\ Kind(d) = "Buy" /\ Mishap /\ UNCHANGED chain
    \/ \* What the contract would have taken it refuses when the block is mined.
       s = "reverted" /\ Kind(d) # "Buy" /\ Mishap /\ UNCHANGED chain

\* The execution dies between the lock and the stored result.
Interrupted(d) ==
    /\ Mishap
    /\ Accepted(d) \/ UNCHANGED chain

(***************************************************************************)
(* The endpoints.                                                          *)
(***************************************************************************)
Goes(a, from, to) == pc[a] = from /\ pc' = [pc EXCEPT ![a] = to]
Others == <<request, cooled, processor, overrides>>

\* Bills, uber bills and plugin requests are recorded as they arrive.
Record(a) ==
    /\ Kind(a) \in {"Bill", "Uber", "Plugin"}
    /\ Goes(a, "out", CASE Kind(a) = "Bill" -> "ready"
                        [] Kind(a) = "Uber" -> "asking"
                        [] Kind(a) = "Plugin" -> "over")
    /\ CreateAction({a})
    /\ UNCHANGED <<Others, chain, mishaps>>

\* getActionFromInitial for a sale.  An action that is found has another
\* date than the one the endpoint passes, and the request is turned down.
FindSale(a) ==
    /\ Kind(a) = "Sell"
    /\ Goes(a, "out", IF \E d \in created : request[d] = request[a] THEN "over" ELSE "absent")
    /\ UNCHANGED <<Others, records, chain, mishaps>>

RecordSale(a) ==
    /\ Goes(a, "absent", "ready")
    /\ CreateAction({a})
    /\ UNCHANGED <<Others, chain, mishaps>>

\* hasPendingTransactions, one collection after the other.
Pending(a, collection) ==
    \E d \in listed : /\ Collection(d) = collection /\ User(d) = User(a)
                      /\ request[d] # request[a]

AskBills(a) ==
    /\ Goes(a, "asking", IF Pending(a, "Bill") THEN "over" ELSE "asked")
    /\ UNCHANGED <<Others, records, chain, mishaps>>

AskSales(a) ==
    /\ Goes(a, "asked", IF Pending(a, "Sell") THEN "over" ELSE "ready")
    /\ UNCHANGED <<Others, records, chain, mishaps>>

\* The service executes what it has just created, with an empty history.
Serve(a) ==
    /\ Goes(a, "ready", "over")
    /\ \/ \E s \in Stages : Submit(a, "erred", s) /\ Reaches(a, "initial", s)
       \/ Interrupted(a) /\ Reaches(a, "initial", "locked")
    /\ UNCHANGED Others

\* A user without plugins, an instance that goes away, a query that fails.
Abandon(a) ==
    /\ pc[a] \in {"absent", "asking", "asked", "ready"}
    /\ pc' = [pc EXCEPT ![a] = "over"]
    /\ UNCHANGED <<Others, records, chain, mishaps>>

(***************************************************************************)
(* The tx-processor.                                                       *)
(***************************************************************************)
Outside == <<request, cooled, pc, overrides>>

\* A run ends, by itself or with its process; the next begins from nothing.
NextRun == phase' = 1 /\ todo' = NoTodo /\ blocked' = {}

\* The deposits' mails found now; each becomes an action if it was none.
NewMails(D) == D \subseteq {a \in Arrivals \ created : Kind(a) = "Buy"}

\* One collection is read, with the histories of its actions.
Fetch ==
    /\ phase < Running
    /\ \E D \in SUBSET Arrivals :
          /\ NewMails(D)
          /\ FetchOrder[phase] = "Buy" \/ D = {}
          /\ CreateAction(D)
    /\ todo' = [d \in Arrivals |->
                  IF d \in listed' /\ Collection(d) = FetchOrder[phase] THEN stage[d] ELSE todo[d]]
    /\ phase' = phase + 1
    /\ UNCHANGED <<Outside, chain, blocked, mishaps>>

\* The list is sorted by the date of signing, or of the mail.
IsNext(d) ==
    /\ phase = Running /\ todo[d] # NotListed
    /\ \A e \in Arrivals : todo[e] # NotListed => At(d) <= At(e)

Takes(d) == IsNext(d) /\ todo' = [todo EXCEPT ![d] = NotListed] /\ UNCHANGED phase

Skip(d) ==
    /\ User(d) \in blocked /\ Takes(d)
    /\ UNCHANGED <<Outside, records, chain, blocked, mishaps>>


\* After an error the later actions of the user wait; one of a deposit does
\* not count.
Blocks(d, s) ==
    IF s \in {"refused", "failed", "stuck"} /\ Kind(d) # "Buy"
    THEN blocked \cup {User(d)} ELSE blocked

Process(d) == User(d) \notin blocked /\ Takes(d) /\ UNCHANGED Outside

\* A lock less than two minutes old is still open.
MaySubmit(d) == todo[d] \in {"initial", "locked"} \/ (todo[d] = "refused" /\ d \in cooled)

ProcessSubmit(d) ==
    /\ Process(d) /\ MaySubmit(d)
    /\ \E s \in Stages : /\ Submit(d, "failed", s) /\ Reaches(d, todo[d], s)
                         /\ blocked' = Blocks(d, s)

\* The result cannot be stored: the error reaches processActions.
ProcessInterrupted(d) ==
    /\ Process(d) /\ MaySubmit(d)
    /\ Interrupted(d) /\ Reaches(d, todo[d], "locked")
    /\ blocked' = blocked \cup {User(d)}

\* The process dies there, and the next run begins.
ProcessDies(d) ==
    /\ IsNext(d) /\ User(d) \notin blocked /\ MaySubmit(d)
    /\ Interrupted(d) /\ Reaches(d, todo[d], "locked")
    /\ NextRun
    /\ UNCHANGED Outside

\* An old lock, or an error that nobody has handled: an admin is called.
ProcessError(d) ==
    /\ Process(d) /\ todo[d] \in {"erred", "locked"}
    /\ Reaches(d, todo[d], "failed")
    /\ blocked' = Blocks(d, "failed")
    /\ UNCHANGED <<chain, mishaps>>

\* Nothing to be done now: the execution pauses where it was.
ProcessPaused(d) ==
    /\ Process(d)
    /\ \/ todo[d] \in {"failed", "stuck", "sent", "reverted", "jammed"}
       \/ todo[d] = "refused" /\ d \notin cooled
    /\ blocked' = Blocks(d, todo[d])
    /\ UNCHANGED <<records, chain, mishaps>>

\* Mutant: the reference is left in the collection.
RestUnlisted(d) ==
    /\ Process(d) /\ todo[d] = "sent"
    /\ stage' = [stage EXCEPT ![d] = Stored(d, "sent", "complete")]
    /\ UNCHANGED <<created, elders, listed, erroneous, chain, blocked, mishaps>>

\* All that follows the client's transfer, with the end of the reference; the
\* reply that it has ended may be lost.
ProcessRest(d) ==
    /\ Process(d) /\ todo[d] = "sent"
    /\ stage' = [stage EXCEPT ![d] = Stored(d, "sent", "complete")]
    /\ listed' = listed \ {d}
    /\ UNCHANGED <<created, elders, erroneous, chain>>
    /\ \/ AllWell /\ UNCHANGED blocked
       \/ Mishap /\ blocked' = Blocks(d, "stuck")

\* An error that is handled, or one on entering tcWaitToFinalize or complete;
\* the transaction that an uber bill, a deposit or a refund needs is reverted.
ProcessRestFails(d) ==
    /\ Process(d) /\ todo[d] = "sent"
    /\ Mishap /\ UNCHANGED chain
    /\ \E s \in {"failed", "stuck", "reverted"} :
          /\ s = "reverted" => Kind(d) \in {"Uber", "Sell", "Buy"}
          /\ Reaches(d, "sent", s)
          /\ blocked' = Blocks(d, s)

EndRun ==
    /\ phase = Running /\ todo = NoTodo
    /\ NextRun
    /\ UNCHANGED <<Outside, records, chain, mishaps>>

CrashRun ==
    /\ phase > 1 /\ Mishap
    /\ NextRun
    /\ UNCHANGED <<Outside, records, chain>>

(***************************************************************************)
(* The clock and the admin.                                                *)
(***************************************************************************)
CoolDown(d) ==
    /\ d \notin cooled /\ stage[d] = "refused"
    /\ cooled' = cooled \cup {d}
    /\ UNCHANGED <<request, records, pc, chain, processor, bounds>>

\* An admin who was called starts the action again or puts it further on.
Override(d) ==
    /\ d \in listed /\ stage[d] = "failed"
    /\ overrides < MaxOverrides /\ overrides' = overrides + 1
    /\ \E s \in {"initial", "sent"} : stage' = [stage EXCEPT ![d] = s]
    /\ UNCHANGED <<request, created, elders, listed, erroneous, cooled, pc, chain,
                   processor, mishaps>>

Service(a) == \/ Record(a) \/ FindSale(a) \/ RecordSale(a) \/ AskBills(a) \/ AskSales(a)
              \/ Serve(a) \/ Abandon(a)

Processor == \/ Fetch \/ EndRun
             \/ \E d \in Arrivals : \/ Skip(d) \/ ProcessSubmit(d) \/ ProcessError(d)
                                    \/ ProcessPaused(d) \/ ProcessRest(d)

Next == \/ \E a \in Arrivals : Service(a) \/ CoolDown(a) \/ Override(a)
        \/ Processor \/ CrashRun
        \/ \E d \in Arrivals : ProcessInterrupted(d) \/ ProcessDies(d) \/ ProcessRestFails(d)

Spec == Init /\ [][Next]_vars

\* The processor's runs are started by a timer, and a quarter of an hour
\* passes; transactions are mined and the bank answers, sooner or later.
FairSpec == /\ Spec
            /\ WF_vars(Processor)
            /\ \A d \in Arrivals : WF_vars(CoolDown(d)) /\ SF_vars(ProcessRest(d))

(***************************************************************************)
(* What is expected of the requests together.                              *)
(***************************************************************************)
\* The variables have their types; what has a reference has been created,
\* and what is complete has none.
TypeOK ==
    /\ request \in Mailings
    /\ created \subseteq Arrivals /\ elders \in [Arrivals -> SUBSET created]
    /\ listed \subseteq created /\ erroneous \subseteq created /\ cooled \subseteq created
    /\ stage \in [Arrivals -> Stages]
    /\ pc \in [Arrivals -> {"out", "absent", "asking", "asked", "ready", "over"}]
    /\ lastTx \in [Users -> Nat] /\ taken \in [Requests -> Nat]
    /\ phase \in 1 .. Running
    /\ todo \in [Arrivals -> Stages \cup {NotListed}]
    /\ blocked \subseteq Users
    /\ mishaps \in 0 .. MaxMishaps /\ overrides \in 0 .. MaxOverrides
    /\ \A d \in listed : stage[d] # "complete"

\* A signed request is accepted by the contract at most once: sent twice,
\* recorded twice, executed by service and processor at once, or again after
\* a crash, a lost reply or an override.
TakenOnce == \A r \in Requests : r.kind # "Buy" => taken[r] <= 1

\* Actions whose transfer could still be submitted.
Unsubmitted == {d \in listed : stage[d] \in {"initial", "locked", "refused"}}

\* r is accepted in this step while an older request of the user, recorded
\* before and signed before, still waits to be submitted.
Overtakes(r, kinds) ==
    /\ r.kind = "Uber" /\ taken'[r] > taken[r]
    /\ \E e \in Unsubmitted :
          /\ Kind(e) \in kinds /\ User(e) = r.user /\ At(e) < r.at
          /\ \A d \in created : request[d] = r => e \in elders[d]

\* An uber transfer never overtakes a bill or a sale of the same user, which
\* the contract would refuse from then on.
UbersInOrder == [][\A r \in Requests : ~Overtakes(r, {"Bill", "Uber", "Sell"})]_vars

\* Nor any other request that the user signed.
AllInOrder == [][\A r \in Requests : ~Overtakes(r, Kinds \ {"Buy"})]_vars

\* Something that no later run can change: the action is in the hands of an
\* admin, stuck without one, waiting for a transaction that has failed, or its
\* history was spoilt by two executors at once; or an action of the user that
\* comes before it has an error.  Deposits wait for those too.
Hindered(d) ==
    \/ stage[d] \in {"failed", "stuck", "reverted", "jammed"}
    \/ \E e \in listed : /\ User(e) = User(d) /\ At(e) <= At(d)
                         /\ stage[e] \in {"failed", "stuck"} /\ Kind(e) # "Buy"

=============================================================================
