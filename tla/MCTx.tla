-------------------------------- MODULE MCTx --------------------------------
(***************************************************************************)
(* Executors for the runs: the tx-processor runs to the end, the broker    *)
(* service stops once the first transaction has been sent.                 *)
(***************************************************************************)
EXTENDS TxProperties

CONSTANTS processor, service

Alone == [p \in {processor} |-> ""]
WithService == [p \in {processor, service} |->
                   IF p = service THEN "tcWaiting" ELSE ""]

Only(kinds) == [k \in kinds |-> GraphOf[k]]

AllGraphs == GraphOf
LockingGraphs == Only({"Bill", "Uber", "Buy", "Plugin"})
Bills == Only({"Bill"})
Sales == Only({"Sell"})
Unhandled == Only({"Uber"})

\* The admin's form takes every bill for one with an uber transfer: it looks for
\* the fields of a transfer in what contains the transfer.  It offers every state
\* of a graph; of the uber graph, which has most, only those where a transaction
\* or a payment is sent, the one that leads back to the start, and the last.
Form == [k \in DOMAIN GraphOf |-> DOMAIN GraphOf[IF k = "Bill" THEN "Uber" ELSE k]]
Offers == [Form EXCEPT !["Uber"] = {"tcRegisterReady", "tcFinalizeReady", "billReady",
                                    "retryRegisterTx", "complete"}]

\* The conditions of the theorems, true of the code's graphs; a sale can be
\* reverted, and a manual deposit credits fiat no bank has confirmed.
ASSUME GraphsAssumption ==
    /\ OneRequest /\ AskingWaits /\ ErrorsHandled /\ OnlySalesReturn
    /\ \A k \in DOMAIN Graphs \ {"Sell"} : PaysFromCoin(k)
    /\ \A k \in DOMAIN Graphs \ {"Sell", "Manual"} : SendsForFiat(k)
=============================================================================
