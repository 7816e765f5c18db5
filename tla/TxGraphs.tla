------------------------------ MODULE TxGraphs ------------------------------
(***************************************************************************)
(* The graphs of the repository as data: for every state the transition    *)
(* that leaves it and the one that handles an error found on entering it.  *)
(***************************************************************************)
EXTENDS TxTransitions

Leads(t, s) == [run |-> t, to |-> s]

\* A state that nobody watches, and one that calls an admin on an error.
Plainly(t, s) == [next |-> Leads(t, s), onError |-> NoEdge]
Watched(t, s) == [next |-> Leads(t, s), onError |-> Leads("requestManual", "error")]

Override == Plainly("manualOverride", "")
Final == [next |-> NoEdge, onError |-> NoEdge]

BillGraph ==
    [initial    |-> Plainly("preTransfer", "tcReady"),
     tcReady    |-> Watched("depositCoin", "tcWaiting"),
     tcWaiting  |-> Watched("waitCoin", "tcResult"),
     tcResult   |-> Watched("toFiat", "converted"),
     converted  |-> Watched("preTransfer", "billReady"),
     billReady  |-> Plainly("payBill", "billResult"),
     billResult |-> Watched("markComplete", "complete"),
     error      |-> Override,
     cancelled  |-> Plainly("markComplete", "complete"),
     complete   |-> Final]

\* The uber graph names the state an error leads to after the handler.
Handled(t, s, handler) == [next |-> Leads(t, s), onError |-> Leads(handler, handler)]

UberGraph ==
    [initial              |-> Plainly("preTransfer", "tcRegisterReady"),
     tcRegisterReady      |-> Handled("uberDepositCoin", "tcRegisterWaiting", "retryRegisterTx"),
     tcRegisterWaiting    |-> Handled("waitCoin", "tcWaitToFinalize", "retryRegisterTx"),
     retryRegisterTx      |-> Handled("retryRegisterTx", "initial", "requestManual"),
     tcWaitToFinalize     |-> Plainly("uberWaitPending", "tcFinalizeInitial"),
     tcFinalizeInitial    |-> Handled("preTransfer", "tcFinalizeReady", "requestManual"),
     tcFinalizeReady      |-> Handled("uberClearPending", "tcFinalizeWaiting", "requestManual"),
     tcFinalizeWaiting    |-> Handled("waitCoin", "coinTransferComplete", "requestManual"),
     coinTransferComplete |-> Handled("toFiat", "billInitial", "requestManual"),
     billInitial          |-> Handled("preTransfer", "billReady", "requestManual"),
     billReady            |-> Handled("payBill", "billResult", "requestManual"),
     billResult           |-> Handled("markComplete", "complete", "requestManual"),
     requestManual        |-> Override,
     cancelled            |-> Plainly("markComplete", "complete"),
     complete             |-> Final]

SellGraph ==
    [initial           |-> Plainly("preTransfer", "tcReady"),
     tcReady           |-> Watched("depositCoin", "tcWaiting"),
     tcWaiting         |-> Watched("waitCoin", "tcResult"),
     tcResult          |-> Watched("toFiat", "converted"),
     converted         |-> Watched("preTransfer", "eTransferReady"),
     eTransferReady    |-> Plainly("sendETransfer", "eTransferSent"),
     eTransferSent     |-> Watched("waitETransfer", "eTransferComplete"),
     eTransferComplete |-> [next    |-> Leads("markComplete", "complete"),
                            onError |-> Leads("handleWaitError", "revertBegin")],
     revertBegin       |-> Watched("toCoin", "revertConverted"),
     revertConverted   |-> Watched("preTransfer", "revertReady"),
     revertReady       |-> Watched("sendCoin", "revertWaiting"),
     revertWaiting     |-> Watched("waitCoin", "revertComplete"),
     revertComplete    |-> Watched("markComplete", "complete"),
     error             |-> Override,
     cancelled         |-> Plainly("markComplete", "complete"),
     complete          |-> Final]

DepositGraph ==
    [initial           |-> Plainly("labelEmailETransfer", "labelledETransfer"),
     labelledETransfer |-> Plainly("preTransfer", "depositReady"),
     depositReady      |-> Plainly("depositFiat", "depositResult"),
     depositResult     |-> Watched("labelEmailDeposited", "deposited"),
     deposited         |-> Watched("toCoin", "converted"),
     converted         |-> Watched("preTransfer", "tcReady"),
     tcReady           |-> Watched("sendCoin", "tcWaiting"),
     tcWaiting         |-> Watched("waitCoin", "tcResult"),
     tcResult          |-> Watched("markComplete", "complete"),
     error             |-> Override,
     cancelled         |-> Plainly("markComplete", "complete"),
     complete          |-> Final]

ManualDepositGraph ==
    [initial   |-> Plainly("depositFiatManual", "deposited"),
     deposited |-> Plainly("toCoin", "converted"),
     converted |-> Watched("preTransfer", "tcReady"),
     tcReady   |-> Watched("sendCoin", "tcWaiting"),
     tcWaiting |-> Watched("waitCoin", "tcResult"),
     tcResult  |-> Watched("markComplete", "complete"),
     error     |-> Override,
     complete  |-> Final]

PluginGraph ==
    [initial   |-> Plainly("preTransfer", "tcReady"),
     tcReady   |-> Watched("handleRequest", "tcWaiting"),
     tcWaiting |-> Watched("waitCoin", "tcResult"),
     tcResult  |-> Watched("markComplete", "complete"),
     error     |-> Override,
     complete  |-> Final]

\* The graph of each kind of action.
GraphOf == [Bill |-> BillGraph, Uber |-> UberGraph, Sell |-> SellGraph,
            Buy |-> DepositGraph, Manual |-> ManualDepositGraph,
            Plugin |-> PluginGraph]
=============================================================================
