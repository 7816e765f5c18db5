---------------------------- MODULE TxProperties ----------------------------
(***************************************************************************)
(* What is expected of any graph, and of the graphs of the repository.     *)
(***************************************************************************)
EXTENDS TxGraphs

\* The variables have their types, and an executor at work is in some state.
TypeOK ==
    /\ txs \in Seq(TxRecord)
    /\ bank \in Seq(BankRecord)
    /\ settled \in BOOLEAN
    /\ stored \in Seq(Delta)
    /\ listed \in BOOLEAN
    /\ fresh \subseteq 1 .. Len(stored)
    /\ pc \in [Executors -> {"idle", "running", "storing"}]
    /\ loaded \in [Executors -> Nat]
    /\ hist \in [Executors -> Seq(Snapshot)]
    /\ delta \in [Executors -> Delta]
    /\ kind \in DOMAIN Graphs
    /\ crashes \in 0 .. MaxCrashes
    /\ overrides \in 0 .. MaxOverrides
    /\ \A p \in Executors : pc[p] # "idle" => hist[p] # << >>

\* At most one transaction was sent under each lock: a preTransfer stored in
\* the history opens the way for one call, whatever crashes and is run again.
OneTxPerLock ==
    \A g, h \in DOMAIN txs : g # h /\ txs[g].lock = txs[h].lock => txs[g].lock = 0

\* No balance an execution computes is below zero.
NoOverdraft ==
    \A p \in Executors : \A i \in DOMAIN hist[p] :
       hist[p][i].coin >= Absent /\ hist[p][i].fiat >= Absent

\* At most one movement of money at the bank under each lock.
OnePaymentPerLock ==
    \A i, j \in DOMAIN bank : bank[i].lock = bank[j].lock => i = j

(***************************************************************************)
(* Why a lock opens the way once.  Locks in use are places of preTransfers *)
(* in the history.  An execution begins when no lock is fresh, so a fresh  *)
(* one was stored by the only executor whose container ends in it; and     *)
(* nothing has been done under it while that executor is not storing.      *)
(***************************************************************************)
LocksBeforePaying ==
    \A k \in DOMAIN Graphs : \A s \in DOMAIN Graphs[k] :
       /\ Graphs[k][s].next.run # "sendETransfer"
       /\ Graphs[k][s].onError.run # "sendETransfer"

LockPlace(i) == i \in DOMAIN stored /\ stored[i].type = "preTransfer"

FreshLocks == \A i \in fresh : LockPlace(i)

LocksStored ==
    /\ \A h \in DOMAIN txs : txs[h].lock # 0 => LockPlace(txs[h].lock)
    /\ LocksBeforePaying => \A i \in DOMAIN bank : LockPlace(bank[i].lock)

Working(p) == pc[p] # "idle"

LockAge ==
    \A p \in Executors : Working(p) => /\ loaded[p] <= Len(stored)
                                      /\ Current(p).at <= Len(stored)
                                      /\ \A i \in fresh : i > loaded[p]

LockOwned ==
    \A p, q \in Executors :
       p # q /\ Working(p) /\ Working(q) /\ Current(p).at \in fresh
          => Current(q).at # Current(p).at

LockUnused ==
    \A p \in Executors :
       pc[p] = "running" /\ Current(p).at \in fresh =>
          /\ \A h \in DOMAIN txs : txs[h].lock # Current(p).at
          /\ LocksBeforePaying => \A i \in DOMAIN bank : bank[i].lock # Current(p).at

\* The inductive invariant: a lock that is fresh and unused belongs to one
\* executor, and every lock has been used at most once.
LockInv == /\ FreshLocks /\ LocksStored /\ LockAge /\ LockOwned /\ LockUnused
           /\ OneTxPerLock
           /\ LocksBeforePaying => OnePaymentPerLock

\* The coin of the client's request has reached the broker.
CoinReceived == Moved("certifiedTransfer") \/ Moved("uberTransfer")
                \/ Moved("processPending")

Payments == {i \in DOMAIN bank : bank[i].kind \in {"payBill", "sendETransfer"}}
Deposits == {i \in DOMAIN bank : bank[i].kind = "depositETransfer"}

\* The broker pays a third party only what the client's mined transfer is
\* worth: never on a transaction that is merely sent, whatever an admin does.
PaidOnlyAfterCoin ==
    \A i \in Payments :
       \E h \in DOMAIN txs : /\ txs[h].kind # "exactTransfer"
                             /\ txs[h].status = "mined"
                             /\ \E r \in Rates : bank[i].amount = txs[h].moved * r

\* The client's coin moves to the broker at most once for one request.
CoinTakenOnce ==
    \A g, h \in DOMAIN txs :
       /\ txs[g].moved > 0 /\ txs[g].kind # "exactTransfer"
       /\ txs[h].moved > 0 /\ txs[h].kind # "exactTransfer"
       => g = h

\* Some state of the graph of kind k runs the callback t.
Runs(k, t) == \E s \in DOMAIN Graphs[k] :
                 t \in {Graphs[k][s].next.run, Graphs[k][s].onError.run}

\* No graph asks for both a certified and an uber transfer of one request.
OneRequest ==
    \A k \in DOMAIN Graphs : ~ (Runs(k, "depositCoin") /\ Runs(k, "uberDepositCoin"))

\* A graph of kind k that pays has no fiat but what the client's coin is worth:
\* it takes no deposit, sends no coin back and reverts no payment.
CoinFunded(k) == \A t \in {"toCoin", "sendCoin", "depositFiat", "depositFiatManual",
                            "handleWaitError"} : ~ Runs(k, t)
PaysFromCoin(k) == Runs(k, "payBill") \/ Runs(k, "sendETransfer") => CoinFunded(k)

\* A graph that sends coin to the client buys it with the fiat of one deposit:
\* no coin is taken, no other fiat accepted and no payment reverted.
FiatFunded(k) == \A t \in {"depositCoin", "uberDepositCoin", "uberClearPending",
                            "toFiat", "depositFiatManual", "handleWaitError"} :
                    ~ Runs(k, t)
SendsForFiat(k) == Runs(k, "sendCoin") => FiatFunded(k)

\* Coin is sent to a client only for fiat in the bank: no transfer is even
\* submitted before the deposit, and none of more coin than it buys.
CoinOnlyAfterFiat ==
    \A h \in DOMAIN txs :
       txs[h].kind = "exactTransfer" =>
          \E i \in Deposits, r \in Rates : txs[h].amount = bank[i].amount \div r

\* An admin writes to an action only when it has asked for one.
AdminsAsked == AdminUnasked => MaxOverrides = 0

\* Whoever asks for an admin waits for one in the state that this leads to.
AskingWaits ==
    \A k \in DOMAIN Graphs : \A s \in DOMAIN Graphs[k] :
       \A e \in {Graphs[k][s].next, Graphs[k][s].onError} :
          e.run = "requestManual" =>
             /\ e.to \in DOMAIN Graphs[k] \ {"complete", ""}
             /\ Graphs[k][e.to].next.run = "manualOverride"

\* After an error an admin is asked or a handler runs, or nothing does.
ErrorsHandled ==
    \A k \in DOMAIN Graphs : \A s \in DOMAIN Graphs[k] :
       Graphs[k][s].onError.run \in {"", "requestManual", "retryRegisterTx",
                                     "handleWaitError"}

\* An execution that runs to the end consumes all of the history it loaded:
\* no state ends the replay early and no delta meets the wrong transition.
HistoryReplays ==
    \A p \in Executors :
       pc[p] = "running" /\ Replaying(p) /\ BreakOn[p] = "" => ~ Halted(p) /\ Fits(p)

\* Errors of the history that nothing has dealt with since.
OpenErrors ==
    {i \in DOMAIN stored :
        /\ stored[i].error # ""
        /\ ~ \E j \in (i + 1) .. Len(stored) :
               /\ stored[j].type \in {"manualOverride", "retryRegisterTx",
                                      "handleWaitError"}
               /\ stored[j].error = ""}

\* With an error open in the history, no money moves: neither a transaction
\* nor the bank, until an admin or a handler has dealt with the error.
OurTxs == {h \in DOMAIN txs : txs[h].lock # 0}
NoEffectAfterError == [][OpenErrors # {} => bank' = bank /\ OurTxs' = OurTxs]_vars

(***************************************************************************)
(* What each kind of action receives and delivers.  A sale has delivered   *)
(* once an e-transfer was sent (whether one too many is OnePaymentPerLock) *)
(* and stays closed when that is returned and the action is listed again.  *)
(***************************************************************************)
Received ==
    CASE kind \in {"Bill", "Uber", "Sell"} -> CoinReceived
      [] kind = "Buy"    -> Deposits # {}
      [] kind = "Manual" -> \E i \in DOMAIN stored : stored[i].type = "depositFiatManual"
      [] kind = "Plugin" -> \E i \in DOMAIN stored : stored[i].type = "preTransfer"

Delivered ==
    CASE kind \in {"Bill", "Uber"}  -> Cardinality(Payments)
      [] kind = "Sell"              -> IF Payments = {} THEN 0 ELSE 1
      [] kind \in {"Buy", "Manual"} -> Cardinality(Mined("exactTransfer"))
      [] kind = "Plugin"            -> Cardinality(Mined("pluginRequest"))

Returned == \E i \in DOMAIN stored : stored[i].error = "returned"

Order == INSTANCE TransferOrder
            WITH received <- Received,
                 delivered <- Delivered,
                 closed <- ~ listed \/ Returned

\* Every graph implements the order: what the client sends arrives first, what
\* the client is owed is delivered at most once, and then the action is done.
ImplementsOrder == Order!Spec

\* E-transfers are sent, and so returned, in the graph of a sale alone.
OnlySalesReturn == \A k \in DOMAIN Graphs :
                      Runs(k, "waitETransfer") => Graphs[k] = SellGraph

\* A sale whose e-transfer was returned is done only when the coin is back at
\* the client; an admin's override may lead the action elsewhere.
RefundCompleted == Returned /\ ~ listed => Moved("exactTransfer")

-----------------------------------------------------------------------------
(***************************************************************************)
(* The timers that start executions keep doing so; a block includes what   *)
(* is pending; dates pass and locks age; mail works now and then, and so   *)
(* does a registration that is tried again.                                *)
(***************************************************************************)
Outside(A) == A /\ UNCHANGED <<store, run, limits>>

Fairness ==
    /\ \A p \in Executors :
          /\ WF_vars(Execute(p))
          /\ SF_vars(RequestManual(p) /\ pc'[p] = "storing")
          /\ SF_vars(RetryRegisterTx(p) /\ pc'[p] = "storing")
    /\ WF_vars(Outside(\E h \in DOMAIN txs : Mine(h)))
    /\ WF_vars(Outside(Settle))
    /\ WF_vars(\E i \in fresh : LockExpires(i))

FairSpec == Spec /\ Fairness

\* Two failures are silent.  waitCoin takes a transaction that was mined and
\* reverted for one that is pending; and when the database refuses to unlist an
\* action, the error is stored in the state named complete, where all runs end.
Silenced ==
    \/ \E h \in DOMAIN txs : txs[h].status = "failed"
    \/ \E i \in DOMAIN stored : stored[i].error = "database"

\* Every action is eventually completed or in the hands of an admin: no other
\* failure leaves it waiting in silence.
EventuallyHandled == [] ~ Silenced => <>(~ listed \/ AwaitingAdmin)

\* The bills and the sales are, whatever else fails or crashes.
BillsAndSalesHandled == kind \in {"Bill", "Sell"} => EventuallyHandled
=============================================================================
