--------------------------- MODULE TxTransitions ----------------------------
(***************************************************************************)
(* The transitions graphs are built from (tx-statemachine, tx-bill,        *)
(* tx-etransfer, tx-deposit, tx-plugins): one action for each callback,    *)
(* from the side effects it has to the delta it returns, or null.          *)
(***************************************************************************)
EXTENDS TxStateMachine

Positive(a) == a > 0
Outstanding(a) == a \notin {0, Absent}
Balance(a) == IF a = Absent THEN 0 ELSE a

\* Only executors that run to the end have access to the bank.
HasBank(p) == BreakOn[p] = ""

\* Mutant: the age of the lock is not compared.
LockHeldForever(p) == Current(p).delta.type = "preTransfer"

\* verifyPreTransfer: the last delta is a preTransfer of the last 2 minutes.
LockHeld(p) == /\ Current(p).delta.type = "preTransfer"
               /\ Current(p).at \in fresh

\* The callback returns an error, and has done nothing.
Fails(p, t, e) == /\ Returns(p, Failed(t, e))
                  /\ UNCHANGED <<world, listed>>

\* A callback that locks first: without a fresh lock it must do nothing.
Verified(p, t, Body) == /\ Calls(p, t)
                        /\ \/ ~ LockHeld(p) /\ Fails(p, t, "other")
                           \/ LockHeld(p) /\ Body

(***************************************************************************)
(* Send a transaction.  The node may refuse it when it estimates the gas;  *)
(* the connection may drop before or after it is broadcast.                *)
(***************************************************************************)
Submits(p, t, call, amount) ==
    /\ \/ /\ Executable(call)
          /\ txs' = Submitted(call, amount, Current(p).at)
          /\ \/ Returns(p, [Plain(t) EXCEPT !.hash = Len(txs) + 1])
             \/ Returns(p, Failed(t, "other"))
       \/ /\ ~ Executable(call) \/ TxMayFail
          /\ txs' = txs
          /\ Returns(p, Failed(t, "reverted"))
       \/ /\ txs' = txs
          /\ Returns(p, Failed(t, "other"))
    /\ UNCHANGED <<bank, settled, listed>>

(***************************************************************************)
(* Have the bank move `amount'.  It confirms, or refuses, or the session   *)
(* breaks after the money has moved.                                       *)
(***************************************************************************)
BankMoves(p, order, amount, t, confirmed) ==
    /\ \/ /\ bank' = Append(bank, [kind |-> order, amount |-> amount,
                                   lock |-> Current(p).at])
          /\ Returns(p, confirmed) \/ Returns(p, Failed(t, "other"))
       \/ /\ bank' = bank
          /\ Returns(p, Failed(t, "other"))
    /\ UNCHANGED <<txs, settled, listed>>

-----------------------------------------------------------------------------
(* tx-statemachine/transitions                                             *)

\* Open the lock: the time at which this delta is stored.
PreTransfer(p) == /\ Calls(p, "preTransfer")
                  /\ Returns(p, Plain("preTransfer"))
                  /\ UNCHANGED <<world, listed>>

\* Take the client's coin.  A balance below the request fails without sending,
\* which is one of the outcomes of Submits.
DepositCoin(p) ==
    Verified(p, "depositCoin",
        \/ Positive(Current(p).coin) /\ Fails(p, "depositCoin", "other")
        \/ ~ Positive(Current(p).coin)
           /\ Submits(p, "depositCoin", "certifiedTransfer", Value))

UberDepositCoin(p) ==
    Verified(p, "uberDepositCoin",
        \/ Positive(Current(p).coin) /\ Fails(p, "uberDepositCoin", "other")
        \/ ~ Positive(Current(p).coin)
           /\ Submits(p, "uberDepositCoin", "uberTransfer", Value))

UberWaitPending(p) ==
    /\ Calls(p, "uberWaitPending")
    /\ \/ settled /\ Returns(p, Plain("uberWaitPending"))
       \/ ~ settled /\ ReturnsNull(p)
    /\ UNCHANGED <<world, listed>>

UberClearPending(p) ==
    Verified(p, "uberClearPending",
        \/ Positive(Current(p).coin) /\ Fails(p, "uberClearPending", "other")
        \/ ~ Positive(Current(p).coin)
           /\ Submits(p, "uberClearPending", "processPending", Value))

\* Send the whole coin balance to the client.
SendCoin(p) ==
    Verified(p, "sendCoin",
        \/ ~ Positive(Current(p).coin) /\ Fails(p, "sendCoin", "other")
        \/ Positive(Current(p).coin)
           /\ Submits(p, "sendCoin", "exactTransfer", Current(p).coin))

HandleRequest(p) ==
    Verified(p, "handleRequest", Submits(p, "handleRequest", "pluginRequest", 0))

\* Mutant: the direction of the transfer is not looked at.
CoinSpent(s, tx) == IF tx.moved = 0 THEN Absent ELSE Balance(s.coin) - tx.moved

\* The coin balance after the ExactTransfer of a receipt; without one, the
\* delta leaves the balance alone.
CoinAfter(s, tx) ==
    IF tx.moved = 0 THEN Absent
    ELSE IF tx.kind = "exactTransfer" THEN Balance(s.coin) - tx.moved
                                      ELSE Balance(s.coin) + tx.moved

\* Mutant: the amount that was sent is booked before the block is there.
WaitCoinSent(p) ==
    /\ Calls(p, "waitCoin")
    /\ LET h == Current(p).delta.hash
       IN  \/ h = 0 /\ Returns(p, Plain("waitCoin"))
           \/ h # 0 /\ Returns(p, [Plain("waitCoin") EXCEPT
                                    !.coin = CoinAfter(Current(p), [txs[h] EXCEPT !.moved = txs[h].amount])])
    /\ UNCHANGED <<world, listed>>

\* Wait for the transaction of the delta just before.  Pending and failed
\* are not told apart: both pause the action.
WaitCoin(p) ==
    /\ Calls(p, "waitCoin")
    /\ LET h == Current(p).delta.hash
       IN  \/ h = 0 /\ Returns(p, Plain("waitCoin"))
           \/ h # 0 /\ txs[h].status = "mined"
              /\ \/ Returns(p, [Plain("waitCoin") EXCEPT
                                  !.coin = CoinAfter(Current(p), txs[h])])
                 \/ Returns(p, Failed("waitCoin", "other"))
           \/ h # 0 /\ txs[h].status # "mined" /\ ReturnsNull(p)
    /\ UNCHANGED <<world, listed>>

\* Convert all of one balance into the other at the settlement date's rate, once
\* that date has passed; finding the date or the rate may fail.
Converts(p, t, from, converted) ==
    /\ Calls(p, t)
    /\ \/ Returns(p, Failed(t, "other"))
       \/ Outstanding(from) /\ ~ settled /\ ReturnsNull(p)
       \/ Outstanding(from) /\ settled /\ \E d \in converted : Returns(p, d)
    /\ UNCHANGED <<world, listed>>

ToFiat(p) ==
    Converts(p, "toFiat", Current(p).coin,
             {[Plain("toFiat") EXCEPT !.coin = 0, !.fiat = Current(p).coin * r]
                : r \in Rates})

ToCoin(p) ==
    Converts(p, "toCoin", Current(p).fiat,
             {[Plain("toCoin") EXCEPT !.fiat = 0, !.coin = Current(p).fiat \div r]
                : r \in Rates})

\* Outstanding balances throw; else the action leaves the incomplete list,
\* before the delta that says so is stored.  That may throw too, and be done.
MarkComplete(p) ==
    /\ Calls(p, "markComplete")
    /\ LET s == Current(p)
       IN  \/ /\ Outstanding(s.coin) \/ Outstanding(s.fiat)
              /\ Returns(p, Failed("markComplete", "other"))
              /\ listed' = listed
           \/ /\ ~ Outstanding(s.coin) /\ ~ Outstanding(s.fiat)
              /\ \/ Returns(p, Plain("markComplete")) /\ listed' = FALSE
                 \/ /\ Returns(p, Failed("markComplete", "database"))
                    /\ listed' \in {listed, FALSE}
    /\ UNCHANGED world

\* Mail the administrators; a mail that fails is tried again at the next run.
RequestManual(p) ==
    /\ Calls(p, "requestManual")
    /\ \/ Returns(p, Plain("requestManual"))
       \/ ReturnsNull(p)
    /\ UNCHANGED <<world, listed>>

\* An override is never run, only replayed.
ManualOverride(p) ==
    /\ Calls(p, "manualOverride")
    /\ ReturnsNull(p)
    /\ UNCHANGED <<world, listed>>

-----------------------------------------------------------------------------
(* tx-bill                                                                 *)

\* Pay the bill with the whole fiat balance.
PayBill(p) ==
    Verified(p, "payBill",
        \/ /\ ~ Positive(Current(p).fiat) \/ ~ HasBank(p)
           /\ Fails(p, "payBill", "other")
        \/ /\ Positive(Current(p).fiat) /\ HasBank(p)
           /\ BankMoves(p, "payBill", Current(p).fiat, "payBill",
                        [Plain("payBill") EXCEPT !.fiat = 0]))

\* After one refused registration, and no other error, begin again; but not
\* within 15 minutes of it.
RetryRegisterTx(p) ==
    /\ Calls(p, "retryRegisterTx")
    /\ LET errors == {i \in DOMAIN hist[p] : hist[p][i].delta.error # ""}
       IN  \/ /\ \/ Cardinality(errors) # 1
                 \/ \E i \in errors : hist[p][i].delta.error # "reverted"
              /\ Returns(p, Failed("retryRegisterTx", "other"))
           \/ /\ Cardinality(errors) = 1
              /\ \A i \in errors : hist[p][i].delta.error = "reverted"
              /\ ReturnsNull(p) \/ Returns(p, Plain("retryRegisterTx"))
    /\ UNCHANGED <<world, listed>>

-----------------------------------------------------------------------------
(* tx-etransfer                                                            *)

\* Send the whole fiat balance; this callback does not verify a lock.
SendETransfer(p) ==
    /\ Calls(p, "sendETransfer")
    /\ \/ /\ ~ Positive(Current(p).fiat) \/ ~ HasBank(p)
          /\ Fails(p, "sendETransfer", "other")
       \/ /\ Positive(Current(p).fiat) /\ HasBank(p)
          /\ BankMoves(p, "sendETransfer", Current(p).fiat, "sendETransfer",
                       [Plain("sendETransfer") EXCEPT !.fiat = 0])

WaitETransfer(p) == /\ Calls(p, "waitETransfer")
                    /\ Returns(p, Plain("waitETransfer"))
                    /\ UNCHANGED <<world, listed>>

\* A returned e-transfer gives its fiat back to the action: the amount of
\* the one delta that ever set a positive fiat balance.
HandleWaitError(p) ==
    /\ Calls(p, "handleWaitError")
    /\ LET s == Current(p)
           paidIn == {i \in DOMAIN hist[p] : Positive(hist[p][i].delta.fiat)}
           canHandle == /\ s.coin = 0
                        /\ s.delta.error = "returned"
                        /\ Cardinality(paidIn) = 1
       IN  \/ ~ canHandle /\ Returns(p, Failed("handleWaitError", "other"))
           \/ /\ canHandle
              /\ \E i \in paidIn :
                    Returns(p, [Plain("handleWaitError") EXCEPT
                                  !.fiat = hist[p][i].delta.fiat])
    /\ UNCHANGED <<world, listed>>

-----------------------------------------------------------------------------
(* tx-deposit                                                              *)

\* Label the mail; the mail service may throw.
LabelEmail(p) ==
    \E t \in {"labelEmailETransfer", "labelEmailDeposited"} :
       /\ Calls(p, t)
       /\ Returns(p, Plain(t)) \/ Returns(p, Failed(t, "other"))
       /\ UNCHANGED <<world, listed>>

\* Mutant: the balance is credited whatever the bank answers.
DepositFiatAnyway(p) ==
    Verified(p, "depositFiat",
             LET credited == [Plain("depositFiat") EXCEPT !.fiat = Value]
             IN  \/ BankMoves(p, "depositETransfer", Value, "depositFiat", credited)
                 \/ Returns(p, credited) /\ UNCHANGED <<world, listed>>)

\* Deposit the client's e-transfer in the broker's bank.
DepositFiat(p) ==
    Verified(p, "depositFiat",
        \/ /\ Balance(Current(p).fiat) # 0 \/ ~ HasBank(p)
           /\ Fails(p, "depositFiat", "other")
        \/ /\ Balance(Current(p).fiat) = 0 /\ HasBank(p)
           /\ BankMoves(p, "depositETransfer", Value, "depositFiat",
                        [Plain("depositFiat") EXCEPT !.fiat = Value]))

\* A deposit an administrator has already made.
DepositFiatManual(p) ==
    /\ Calls(p, "depositFiatManual")
    /\ Returns(p, [Plain("depositFiatManual") EXCEPT !.fiat = Value])
    /\ UNCHANGED <<world, listed>>

-----------------------------------------------------------------------------
\* Run the transition the current state calls for.
Transition(p) ==
    \/ PreTransfer(p)    \/ DepositCoin(p)      \/ UberDepositCoin(p)
    \/ UberWaitPending(p) \/ UberClearPending(p) \/ SendCoin(p)
    \/ HandleRequest(p)  \/ WaitCoin(p)         \/ ToFiat(p)
    \/ ToCoin(p)         \/ MarkComplete(p)     \/ RequestManual(p)
    \/ ManualOverride(p) \/ PayBill(p)          \/ RetryRegisterTx(p)
    \/ SendETransfer(p)  \/ WaitETransfer(p)    \/ HandleWaitError(p)
    \/ LabelEmail(p)     \/ DepositFiat(p)      \/ DepositFiatManual(p)

Execute(p) == Start(p) \/ Replay(p) \/ Transition(p) \/ Store(p) \/ Leave(p)

\* The receiver returns an e-transfer of a completed action: the delta of
\* waitETransfer becomes an error, and the action is listed again.  The history
\* is then what the graph's test seeds; revertTransfer, the tool that is to edit
\* it, throws at its first statement.
ETransferReturned ==
    LET n == Len(stored)
    IN  /\ n > 2
        /\ [i \in 1 .. 3 |-> stored[n - 3 + i].type]
               = << "sendETransfer", "waitETransfer", "markComplete" >>
        /\ stored[n].error = "" /\ stored[n - 2].error = ""
        /\ \A p \in Executors : pc[p] = "idle"
        /\ stored' = Append(SubSeq(stored, 1, n - 2),
                            Failed("waitETransfer", "returned"))
        /\ listed' = TRUE
        /\ settled' = FALSE
        /\ UNCHANGED <<txs, bank, fresh, run, limits>>

Environment ==
    \/ WorldNext /\ UNCHANGED <<store, run, limits>>
    \/ \E i \in fresh : LockExpires(i)
    \/ \E s \in Offered[kind] : AdminOverride(s)
    \/ ETransferReturned

\* Completed: nothing executes the action again.
Finished == /\ ~ listed
            /\ \A p \in Executors : pc[p] = "idle"
            /\ UNCHANGED vars

Next == \/ \E p \in Executors : Execute(p) \/ Crash(p)
        \/ Environment
        \/ Finished

Spec == Init /\ [][Next]_vars
=============================================================================
