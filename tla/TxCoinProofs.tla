---------------------------- MODULE TxCoinProofs ----------------------------
(***************************************************************************)
(* What the client's coin and the broker's bank go through, for any        *)
(* executors, crashes, reverted transactions and overrides, locks of any   *)
(* age, and strangers who process what is registered: the coin moves to    *)
(* the broker once, in every graph that asks for it in one way, and a      *)
(* graph whose fiat comes from that coin pays out only what it is worth.   *)
(*                                                                         *)
(* Both rest on what a callback may do (TransitionEffect), where TxProofs  *)
(* only needed the lock it does it under.                                  *)
(***************************************************************************)
EXTENDS TxProofs

-----------------------------------------------------------------------------
(* What a callback returns, and what it has done.                          *)

\* The callback that sends a transaction of each kind, and those that move
\* money or coin; the ones that never fail.
Caller == [certifiedTransfer |-> "depositCoin", uberTransfer |-> "uberDepositCoin",
           processPending |-> "uberClearPending", exactTransfer |-> "sendCoin",
           pluginRequest |-> "handleRequest"]
Movers == {"depositCoin", "uberDepositCoin", "uberClearPending", "sendCoin",
           "handleRequest", "payBill", "sendETransfer", "depositFiat"}
Unfailing == {"preTransfer", "uberWaitPending", "requestManual", "waitETransfer",
              "depositFiatManual"}

Sets(d, coin, fiat) == d.coin = coin /\ d.fiat = fiat

\* No error, and no delta on its way.
Ok(d) == d.error = ""
NoDelta == Plain("")

\* The amounts in the delta d that p has computed.
Books(p, d) ==
    LET s == Current(p)
    IN  \/ Sets(d, Absent, Absent)
        \/ /\ Ok(d) /\ d.type = "waitCoin"
           /\ s.delta.hash # 0 /\ txs[s.delta.hash].status = "mined"
           /\ Sets(d, CoinAfter(s, txs[s.delta.hash]), Absent)
        \/ /\ Ok(d) /\ d.type = "toFiat" /\ Outstanding(s.coin)
           /\ \E r \in Rates : Sets(d, 0, s.coin * r)
        \/ /\ Ok(d) /\ d.type = "toCoin" /\ Outstanding(s.fiat)
           /\ \E r \in Rates : Sets(d, s.fiat \div r, 0)
        \/ /\ Ok(d) /\ d.type \in {"payBill", "sendETransfer"}
           /\ Sets(d, Absent, 0)
        \/ /\ Ok(d) /\ d.type = "handleWaitError"
           /\ \E i \in DOMAIN hist[p] : /\ Positive(hist[p][i].delta.fiat)
                                        /\ Sets(d, Absent, hist[p][i].delta.fiat)
        \/ /\ Ok(d) /\ d.type \in {"depositFiat", "depositFiatManual"}
           /\ Sets(d, Absent, Value)

\* Nothing has moved, unless a transaction was sent or the bank moved money.
MovesNone(d) == /\ UNCHANGED <<txs, bank>>
                /\ d.hash = 0
                /\ Ok(d) => d.type \notin Movers

SendsFor(p, d) ==
    \E tx \in TxRecord :
       /\ txs' = Append(txs, tx) /\ bank' = bank
       /\ d.type = Caller[tx.kind]
       /\ d.hash = IF Ok(d) THEN Len(txs) + 1 ELSE 0
       /\ tx.moved = 0 /\ tx.status = "pending"
       /\ tx.lock = Current(p).at /\ tx.lock # 0
       /\ tx.kind = "exactTransfer" => /\ Positive(Current(p).coin)
                                      /\ tx.amount = Current(p).coin
       /\ tx.kind \in {"certifiedTransfer", "uberTransfer", "processPending"}
             => ~ Positive(Current(p).coin)

PaysFor(p, d) ==
    \E b \in BankRecord :
       /\ bank' = Append(bank, b) /\ txs' = txs
       /\ d.hash = 0
       /\ \/ d.type = "depositFiat" /\ b.kind = "depositETransfer" /\ b.amount = Value
          \/ /\ d.type \in {"payBill", "sendETransfer"} /\ b.kind = d.type
             /\ Positive(Current(p).fiat) /\ b.amount = Current(p).fiat

\* markComplete alone closes the action, with nothing outstanding.
Closes(p, d) ==
    \/ listed' = listed /\ (d.type = "markComplete" => ~ Ok(d))
    \/ /\ d.type = "markComplete" /\ listed' = FALSE
       /\ ~ Outstanding(Current(p).coin) /\ ~ Outstanding(Current(p).fiat)

\* A wait that ends without an error has found the transaction in a block.
Awaited(p) == LET h == Current(p).delta.hash
              IN  h = 0 \/ txs[h].status = "mined"

Answer(p, d) ==
    /\ Calls(p, d.type)
    /\ d.type \in Callbacks \ {"manualOverride"}
    /\ d.type \in Unfailing => Ok(d)
    /\ d.error # "returned"
    /\ d.type = "waitCoin" /\ Ok(d) => Awaited(p)
    /\ Books(p, d)
    /\ MovesNone(d) \/ SendsFor(p, d) \/ PaysFor(p, d)
    /\ Closes(p, d)
    /\ settled' = settled

Effect(p) == \/ ReturnsNull(p) /\ UNCHANGED <<world, listed>>
             \/ \E d \in Delta : Returns(p, d) /\ Answer(p, d)

LEMMA ReturnedDelta ==
    ASSUME TypeInv, NEW p \in Executors, Transition(p), NEW d, Returns(p, d)
    PROVE  d \in Delta
<1>1. Answers(p)
  BY TransitionShape DEF Shape
<1>2. pc \in [Executors -> {"idle", "running", "storing"}] /\ delta \in [Executors -> Delta]
  BY DEF TypeInv, TypeOK
<1>3. ~ ReturnsNull(p)
  BY <1>2 DEF ReturnsNull, Idle, Returns
<1>4. PICK e \in Delta : Returns(p, e)
  BY <1>1, <1>3 DEF Answers
<1>5. delta'[p] = e /\ delta'[p] = d
  BY <1>2, <1>4 DEF Returns
<1> QED
  BY <1>5

LEMMA PlainEffect ==
    ASSUME TypeInv, NEW p \in Executors, Transition(p), NEW t \in Callbacks,
           t \notin Movers, t \notin {"manualOverride", "markComplete"}, Calls(p, t),
           Returns(p, Plain(t)), UNCHANGED <<world, listed>>,
           t = "waitCoin" => Awaited(p)
    PROVE  Effect(p)
<1> DEFINE d == Plain(t)
<1>1. d \in Delta
  BY ReturnedDelta
<1>2. d.type = t /\ d.error = "" /\ d.hash = 0 /\ Sets(d, Absent, Absent)
  BY DEF Plain, Sets
<1> HIDE DEF d
<1>3. Books(p, d)
  BY <1>2 DEF Books, Ok
<1>4. MovesNone(d) /\ settled' = settled
  BY <1>2 DEF MovesNone, world, Ok
<1>5. Closes(p, d)
  BY <1>2 DEF Closes, Ok
<1>6. Answer(p, d)
  BY <1>2, <1>3, <1>4, <1>5 DEF Answer, Ok
<1> QED
  BY <1>1, <1>6 DEF Effect, d

LEMMA FailEffect ==
    ASSUME TypeInv, NEW p \in Executors, Transition(p), NEW t \in Callbacks,
           t \notin Unfailing, t # "manualOverride", Calls(p, t),
           NEW e \in {"reverted", "other"}, Returns(p, Failed(t, e)),
           UNCHANGED <<txs, bank, settled, listed>>
    PROVE  Effect(p)
<1> DEFINE d == Failed(t, e)
<1>1. d \in Delta
  BY ReturnedDelta
<1>2. d.type = t /\ d.error = e /\ d.hash = 0 /\ Sets(d, Absent, Absent)
  BY DEF Plain, Failed, Sets
<1> HIDE DEF d
<1>3. Books(p, d)
  BY <1>2 DEF Books, Ok
<1>4. MovesNone(d)
  BY <1>2 DEF MovesNone, Ok
<1>5. Closes(p, d)
  BY <1>2 DEF Closes, Ok
<1>6. Answer(p, d)
  BY <1>2, <1>3, <1>4, <1>5 DEF Answer, Ok
<1> QED
  BY <1>1, <1>6 DEF Effect, d

LEMMA SubmitEffect ==
    ASSUME TypeInv, NEW p \in Executors, Transition(p), LockHeld(p),
           NEW call \in TxKinds, NEW t, t = Caller[call], Calls(p, t),
           NEW amount \in Nat, Submits(p, t, call, amount),
           call = "exactTransfer" => Positive(Current(p).coin) /\ amount = Current(p).coin,
           call \in {"certifiedTransfer", "uberTransfer", "processPending"}
              => ~ Positive(Current(p).coin)
    PROVE  Effect(p)
<1> DEFINE tx == [kind |-> call, amount |-> amount, moved |-> 0,
                  status |-> "pending", lock |-> Current(p).at]
           sent == [Plain(t) EXCEPT !.hash = Len(txs) + 1]
           lost == Failed(t, "other")
<1>1. /\ t \in Movers /\ t \in Callbacks /\ t \notin Unfailing
      /\ t \notin {"manualOverride", "markComplete", "waitCoin"}
  BY DEF TxKinds, Caller, Movers, Callbacks, Unfailing
<1>2. pc[p] = "running"
  BY DEF Calls
<1>3. Current(p).at \in Nat /\ Current(p).at # 0
  <2>1. fresh \subseteq 1 .. Len(stored) /\ Len(stored) \in Nat
    BY DEF TypeInv, TypeOK
  <2>2. Current(p).at \in 1 .. Len(stored)
    BY <2>1 DEF LockHeld
  <2> HIDE DEF tx, sent, lost
  <2> QED
    BY <2>1, <2>2
<1>4. /\ tx \in TxRecord /\ tx.kind = call /\ tx.amount = amount /\ tx.moved = 0
      /\ tx.status = "pending" /\ tx.lock = Current(p).at
  BY <1>3 DEF TxRecord
<1>5. bank' = bank /\ settled' = settled /\ listed' = listed
  BY DEF Submits
<1>6. CASE txs' = Append(txs, tx) /\ Returns(p, sent)
  <2>1. sent \in Delta
    BY <1>6, ReturnedDelta
  <2>2. sent.type = t /\ sent.error = "" /\ sent.hash = Len(txs) + 1 /\ Sets(sent, Absent, Absent)
    BY DEF Plain, Sets
  <2> HIDE DEF sent, tx
  <2>3. Books(p, sent) /\ Closes(p, sent)
    BY <1>1, <1>5, <2>2 DEF Books, Closes, Ok
  <2>4. SendsFor(p, sent)
    BY <1>3, <1>4, <1>5, <1>6, <2>2 DEF SendsFor, Ok
  <2>5. Answer(p, sent)
    BY <1>1, <1>5, <2>2, <2>3, <2>4 DEF Answer, Ok
  <2> QED
    BY <1>6, <2>1, <2>5 DEF Effect
<1>7. CASE txs' = Append(txs, tx) /\ Returns(p, lost)
  <2>1. lost \in Delta
    BY <1>7, ReturnedDelta
  <2>2. lost.type = t /\ lost.error = "other" /\ lost.hash = 0 /\ Sets(lost, Absent, Absent)
    BY DEF Plain, Failed, Sets
  <2> HIDE DEF lost, tx
  <2>3. Books(p, lost) /\ Closes(p, lost)
    BY <1>1, <1>5, <2>2 DEF Books, Closes, Ok
  <2>4. SendsFor(p, lost)
    BY <1>3, <1>4, <1>5, <1>7, <2>2 DEF SendsFor, Ok
  <2>5. Answer(p, lost)
    BY <1>1, <1>5, <2>2, <2>3, <2>4 DEF Answer, Ok
  <2> QED
    BY <1>7, <2>1, <2>5 DEF Effect
<1>8. CASE txs' = txs /\ \E e \in {"other", "reverted"} : Returns(p, Failed(t, e))
  BY <1>1, <1>5, <1>8, FailEffect
<1> QED
  BY <1>6, <1>7, <1>8 DEF Submits, Submitted

LEMMA BankEffect ==
    ASSUME TypeInv, NEW p \in Executors, Transition(p),
           NEW t \in {"payBill", "sendETransfer", "depositFiat"}, Calls(p, t),
           NEW order, NEW amount \in Nat, NEW d,
           d.type = t, d.error = "", d.hash = 0, d.coin = Absent,
           BankMoves(p, order, amount, t, d),
           \/ /\ t = "depositFiat" /\ order = "depositETransfer"
              /\ amount = Value /\ d.fiat = Value
           \/ /\ t # "depositFiat" /\ order = t /\ d.fiat = 0
              /\ Positive(Current(p).fiat) /\ amount = Current(p).fiat
    PROVE  Effect(p)
<1> DEFINE b == [kind |-> order, amount |-> amount, lock |-> Current(p).at]
           lost == Failed(t, "other")
<1>1. /\ t \in Callbacks /\ t \notin Unfailing
      /\ t \notin {"manualOverride", "markComplete", "waitCoin"}
  BY DEF Callbacks, Unfailing
<1>2. pc[p] = "running"
  BY DEF Calls
<1>3. b \in BankRecord /\ b.kind = order /\ b.amount = amount
  <2>1. Current(p).at \in Nat
    BY <1>2, AtWork
  <2> QED
    BY <2>1 DEF BankRecord
<1>4. txs' = txs /\ settled' = settled /\ listed' = listed
  BY DEF BankMoves
<1>5. CASE bank' = Append(bank, b) /\ Returns(p, d)
  <2> HIDE DEF b
  <2>1. d \in Delta
    BY <1>5, ReturnedDelta
  <2>2. Books(p, d) /\ Closes(p, d)
    BY <1>1, <1>4 DEF Books, Closes, Sets, Ok
  <2>3. PaysFor(p, d)
    BY <1>3, <1>4, <1>5 DEF PaysFor
  <2>4. Answer(p, d)
    BY <1>1, <1>4, <2>2, <2>3 DEF Answer, Ok
  <2> QED
    BY <1>5, <2>1, <2>4 DEF Effect
<1>6. CASE bank' = Append(bank, b) /\ Returns(p, lost)
  <2>1. lost \in Delta
    BY <1>6, ReturnedDelta
  <2>2. lost.type = t /\ lost.error = "other" /\ lost.hash = 0 /\ Sets(lost, Absent, Absent)
    BY DEF Plain, Failed, Sets
  <2> HIDE DEF b, lost
  <2>3. Books(p, lost) /\ Closes(p, lost)
    BY <1>1, <1>4, <2>2 DEF Books, Closes, Ok
  <2>4. PaysFor(p, lost)
    BY <1>3, <1>4, <1>6, <2>2 DEF PaysFor
  <2>5. Answer(p, lost)
    BY <1>1, <1>4, <2>2, <2>3, <2>4 DEF Answer, Ok
  <2> QED
    BY <1>6, <2>1, <2>5 DEF Effect
<1>7. CASE bank' = bank /\ Returns(p, lost)
  BY <1>1, <1>4, <1>7, FailEffect
<1> QED
  BY <1>5, <1>6, <1>7 DEF BankMoves

\* A delta that sets amounts, from a callback that moves nothing.
LEMMA BooksEffect ==
    ASSUME TypeInv, NEW p \in Executors, Transition(p), NEW t \in Callbacks,
           t \notin Movers, t \notin {"manualOverride", "markComplete"}, Calls(p, t),
           NEW d, d.type = t, d.error = "", d.hash = 0,
           Returns(p, d), Books(p, d), UNCHANGED <<world, listed>>,
           t = "waitCoin" => Awaited(p)
    PROVE  Effect(p)
<1>1. d \in Delta
  BY ReturnedDelta
<1>2. MovesNone(d) /\ Closes(p, d) /\ settled' = settled
  BY DEF MovesNone, Closes, world
<1>3. Answer(p, d)
  BY <1>2 DEF Answer, Ok
<1> QED
  BY <1>1, <1>3 DEF Effect

LEMMA NullEffect ==
    ASSUME NEW p \in Executors, ReturnsNull(p), UNCHANGED <<world, listed>>
    PROVE  Effect(p)
  BY DEF Effect

LEMMA ConvertsEffect ==
    ASSUME TypeInv, NEW p \in Executors, Transition(p), NEW t \in {"toFiat", "toCoin"},
           NEW from, NEW converted, Converts(p, t, from, converted),
           \A d \in converted :
              Outstanding(from) => /\ d.type = t /\ d.error = "" /\ d.hash = 0
                                   /\ Books(p, d)
    PROVE  Effect(p)
<1>1. /\ t \in Callbacks /\ t \notin Movers /\ t \notin Unfailing
      /\ t \notin {"manualOverride", "markComplete"}
  BY DEF Callbacks, Movers, Unfailing
<1>2. Calls(p, t) /\ UNCHANGED <<world, listed>>
  BY DEF Converts
<1>3. UNCHANGED <<txs, bank, settled, listed>>
  BY <1>2 DEF world
<1>4. CASE Returns(p, Failed(t, "other"))
  BY <1>1, <1>2, <1>3, <1>4, FailEffect
<1>5. CASE ReturnsNull(p)
  BY <1>2, <1>5, NullEffect
<1>6. CASE Outstanding(from) /\ \E d \in converted : Returns(p, d)
  BY <1>1, <1>2, <1>6, BooksEffect
<1> QED
  BY <1>4, <1>5, <1>6 DEF Converts

LEMMA FailsEffect ==
    ASSUME TypeInv, NEW p \in Executors, Transition(p), NEW t \in Callbacks,
           t \notin Unfailing, t # "manualOverride", Calls(p, t),
           NEW e \in {"reverted", "other"}, Fails(p, t, e)
    PROVE  Effect(p)
  BY FailEffect DEF Fails, world

LEMMA CompleteEffect ==
    ASSUME TypeInv, NEW p \in Executors, Transition(p), MarkComplete(p)
    PROVE  Effect(p)
<1> DEFINE d == Plain("markComplete")
<1>1. /\ "markComplete" \in Callbacks /\ "markComplete" \notin Movers
      /\ "markComplete" \notin Unfailing
  BY DEF Callbacks, Movers, Unfailing
<1>2. Calls(p, "markComplete") /\ UNCHANGED world
  BY DEF MarkComplete
<1>3. CASE Returns(p, Failed("markComplete", "other")) /\ listed' = listed
  BY <1>1, <1>2, <1>3, FailEffect DEF world
<1>4. CASE /\ ~ Outstanding(Current(p).coin) /\ ~ Outstanding(Current(p).fiat)
           /\ Returns(p, d) /\ listed' = FALSE
  <2>1. d \in Delta
    BY <1>4, ReturnedDelta
  <2>2. d.type = "markComplete" /\ d.error = "" /\ d.hash = 0 /\ Sets(d, Absent, Absent)
    BY DEF Plain, Sets
  <2> HIDE DEF d
  <2>3. Books(p, d) /\ MovesNone(d) /\ settled' = settled
    BY <1>1, <1>2, <2>2 DEF Books, MovesNone, world, Ok
  <2>4. Closes(p, d)
    BY <1>4, <2>2 DEF Closes, Ok
  <2>5. Answer(p, d)
    BY <1>1, <1>2, <2>2, <2>3, <2>4 DEF Answer, Ok
  <2> QED
    BY <1>4, <2>1, <2>5 DEF Effect
<1>5. CASE /\ ~ Outstanding(Current(p).coin) /\ ~ Outstanding(Current(p).fiat)
           /\ Returns(p, Failed("markComplete", "database"))
           /\ listed' \in {listed, FALSE}
  <2> DEFINE f == Failed("markComplete", "database")
  <2>1. f \in Delta
    BY <1>5, ReturnedDelta
  <2>2. /\ f.type = "markComplete" /\ f.error = "database" /\ f.hash = 0
        /\ Sets(f, Absent, Absent)
    BY DEF Plain, Failed, Sets
  <2> HIDE DEF f
  <2>3. Books(p, f) /\ MovesNone(f) /\ settled' = settled
    BY <1>1, <1>2, <2>2 DEF Books, MovesNone, world, Ok
  <2>4. Closes(p, f)
    BY <1>5, <2>2 DEF Closes, Ok
  <2>5. Answer(p, f)
    BY <1>1, <1>2, <2>2, <2>3, <2>4 DEF Answer, Ok
  <2> QED
    BY <1>5, <2>1, <2>5 DEF Effect, f
<1> QED
  BY <1>3, <1>4, <1>5 DEF MarkComplete

LEMMA TransitionEffect ==
    ASSUME TypeInv, NEW p \in Executors, Transition(p)
    PROVE  Effect(p)
<1>1. Value \in Nat /\ Absent = -1
  BY WorldAssumption DEF WorldAssumption, Absent
<1> USE DEF Callbacks, Movers, Unfailing
<1>2. CASE PreTransfer(p)
  BY <1>2, PlainEffect DEF PreTransfer
<1>3. CASE UberWaitPending(p)
  BY <1>3, PlainEffect, NullEffect DEF UberWaitPending
<1>4. CASE RequestManual(p)
  BY <1>4, PlainEffect, NullEffect DEF RequestManual
<1>5. CASE ManualOverride(p)
  BY <1>5, NullEffect DEF ManualOverride
<1>6. CASE WaitETransfer(p)
  BY <1>6, PlainEffect DEF WaitETransfer
<1>7. CASE LabelEmail(p)
  <2>1. PICK t \in {"labelEmailETransfer", "labelEmailDeposited"} :
          /\ Calls(p, t)
          /\ Returns(p, Plain(t)) \/ Returns(p, Failed(t, "other"))
          /\ UNCHANGED <<world, listed>>
    BY <1>7 DEF LabelEmail
  <2> QED
    BY <2>1, PlainEffect, FailEffect DEF world
<1>8. CASE MarkComplete(p)
  BY <1>8, CompleteEffect
<1>9. CASE RetryRegisterTx(p)
  BY <1>9, PlainEffect, NullEffect, FailEffect DEF RetryRegisterTx, world
<1>10. CASE DepositFiatManual(p)
  <2> DEFINE d == [Plain("depositFiatManual") EXCEPT !.fiat = Value]
  <2>1. /\ d.type = "depositFiatManual" /\ d.error = "" /\ d.hash = 0
        /\ Sets(d, Absent, Value)
    BY DEF Plain, Sets
  <2> HIDE DEF d
  <2>2. Books(p, d)
    BY <2>1 DEF Books, Ok
  <2> QED
    BY <1>10, <2>1, <2>2, BooksEffect DEF DepositFiatManual, d
<1>11. CASE ToFiat(p)
  <2> DEFINE c == Current(p).coin
             converted == {[Plain("toFiat") EXCEPT !.coin = 0, !.fiat = c * r] : r \in Rates}
  <2>1. ASSUME Outstanding(c), NEW r \in Rates,
               NEW d, d = [Plain("toFiat") EXCEPT !.coin = 0, !.fiat = c * r]
        PROVE  d.type = "toFiat" /\ d.error = "" /\ d.hash = 0 /\ Books(p, d)
    <3>1. d.type = "toFiat" /\ d.error = "" /\ d.hash = 0 /\ Sets(d, 0, c * r)
      BY <2>1 DEF Plain, Sets
    <3> QED
      BY <2>1, <3>1 DEF Books, Ok
  <2>2. Converts(p, "toFiat", c, converted)
    BY <1>11 DEF ToFiat
  <2>3. \A d \in converted : Outstanding(c) => /\ d.type = "toFiat" /\ d.error = ""
                                               /\ d.hash = 0 /\ Books(p, d)
    BY <2>1
  <2> HIDE DEF converted, c
  <2> QED
    BY <2>2, <2>3, ConvertsEffect
<1>12. CASE ToCoin(p)
  <2> DEFINE f == Current(p).fiat
             converted == {[Plain("toCoin") EXCEPT !.fiat = 0, !.coin = f \div r] : r \in Rates}
  <2>1. ASSUME Outstanding(f), NEW r \in Rates,
               NEW d, d = [Plain("toCoin") EXCEPT !.fiat = 0, !.coin = f \div r]
        PROVE  d.type = "toCoin" /\ d.error = "" /\ d.hash = 0 /\ Books(p, d)
    <3>1. d.type = "toCoin" /\ d.error = "" /\ d.hash = 0 /\ Sets(d, f \div r, 0)
      BY <2>1 DEF Plain, Sets
    <3> QED
      BY <2>1, <3>1 DEF Books, Ok
  <2>2. Converts(p, "toCoin", f, converted)
    BY <1>12 DEF ToCoin
  <2>3. \A d \in converted : Outstanding(f) => /\ d.type = "toCoin" /\ d.error = ""
                                               /\ d.hash = 0 /\ Books(p, d)
    BY <2>1
  <2> HIDE DEF converted, f
  <2> QED
    BY <2>2, <2>3, ConvertsEffect
<1>13. CASE WaitCoin(p)
  <2> DEFINE h == Current(p).delta.hash
             d == [Plain("waitCoin") EXCEPT !.coin = CoinAfter(Current(p), txs[h])]
  <2>1. Calls(p, "waitCoin") /\ UNCHANGED <<world, listed>>
    BY <1>13 DEF WaitCoin
  <2>2. CASE h = 0 /\ Returns(p, Plain("waitCoin"))
    BY <2>1, <2>2, PlainEffect DEF Awaited
  <2>3. CASE Returns(p, Failed("waitCoin", "other"))
    BY <2>1, <2>3, FailEffect DEF world
  <2>4. CASE ReturnsNull(p)
    BY <2>1, <2>4, NullEffect
  <2>5. CASE h # 0 /\ txs[h].status = "mined" /\ Returns(p, d)
    <3>1. /\ d.type = "waitCoin" /\ d.error = "" /\ d.hash = 0
          /\ Sets(d, CoinAfter(Current(p), txs[h]), Absent)
      BY DEF Plain, Sets
    <3> HIDE DEF d
    <3>2. Books(p, d)
      BY <2>5, <3>1 DEF Books, Ok
    <3> QED
      BY <2>1, <2>5, <3>1, <3>2, BooksEffect DEF Awaited
  <2> QED
    BY <1>13, <2>2, <2>3, <2>4, <2>5 DEF WaitCoin
<1>14. CASE HandleWaitError(p)
  <2>1. Calls(p, "handleWaitError") /\ UNCHANGED <<world, listed>>
    BY <1>14 DEF HandleWaitError
  <2>2. CASE Returns(p, Failed("handleWaitError", "other"))
    BY <2>1, <2>2, FailEffect DEF world
  <2>3. ASSUME NEW i \in DOMAIN hist[p], Positive(hist[p][i].delta.fiat),
               NEW d, d = [Plain("handleWaitError") EXCEPT !.fiat = hist[p][i].delta.fiat],
               Returns(p, d)
        PROVE  Effect(p)
    <3>1. /\ d.type = "handleWaitError" /\ d.error = "" /\ d.hash = 0
          /\ Sets(d, Absent, hist[p][i].delta.fiat)
      BY <2>3 DEF Plain, Sets
    <3>2. Books(p, d)
      BY <2>3, <3>1 DEF Books, Ok
    <3> QED
      BY <2>1, <2>3, <3>1, <3>2, BooksEffect
  <2> QED
    BY <1>14, <2>2, <2>3 DEF HandleWaitError
<1>15. CASE DepositCoin(p)
  BY <1>1, <1>15, FailsEffect, SubmitEffect DEF DepositCoin, Verified, TxKinds, Caller
<1>16. CASE UberDepositCoin(p)
  BY <1>1, <1>16, FailsEffect, SubmitEffect DEF UberDepositCoin, Verified, TxKinds, Caller
<1>17. CASE UberClearPending(p)
  BY <1>1, <1>17, FailsEffect, SubmitEffect DEF UberClearPending, Verified, TxKinds, Caller
<1>18. CASE SendCoin(p)
  <2>1. CASE Fails(p, "sendCoin", "other") /\ Calls(p, "sendCoin")
    BY <2>1, FailsEffect
  <2>2. CASE /\ Calls(p, "sendCoin") /\ LockHeld(p) /\ Positive(Current(p).coin)
             /\ Submits(p, "sendCoin", "exactTransfer", Current(p).coin)
    <3>1. Current(p).coin \in Nat
      BY <2>2, AtWork DEF Calls, Positive
    <3> QED
      BY <2>2, <3>1, SubmitEffect DEF TxKinds, Caller
  <2> QED
    BY <1>18, <2>1, <2>2 DEF SendCoin, Verified
<1>19. CASE HandleRequest(p)
  BY <1>19, FailsEffect, SubmitEffect DEF HandleRequest, Verified, TxKinds, Caller
<1>20. CASE PayBill(p)
  <2>1. CASE Fails(p, "payBill", "other") /\ Calls(p, "payBill")
    BY <2>1, FailsEffect
  <2>2. CASE /\ Calls(p, "payBill") /\ Positive(Current(p).fiat)
             /\ BankMoves(p, "payBill", Current(p).fiat, "payBill",
                          [Plain("payBill") EXCEPT !.fiat = 0])
    <3> DEFINE d == [Plain("payBill") EXCEPT !.fiat = 0]
    <3>1. d.type = "payBill" /\ d.error = "" /\ d.hash = 0 /\ d.coin = Absent /\ d.fiat = 0
      BY DEF Plain
    <3>2. Current(p).fiat \in Nat
      BY <2>2, AtWork DEF Calls, Positive
    <3> HIDE DEF d
    <3>3. BankMoves(p, "payBill", Current(p).fiat, "payBill", d)
      BY <2>2 DEF d
    <3> QED
      BY <2>2, <3>1, <3>2, <3>3, BankEffect
  <2> QED
    BY <1>20, <2>1, <2>2 DEF PayBill, Verified
<1>21. CASE SendETransfer(p)
  <2>1. CASE Fails(p, "sendETransfer", "other") /\ Calls(p, "sendETransfer")
    BY <2>1, FailsEffect
  <2>2. CASE /\ Calls(p, "sendETransfer") /\ Positive(Current(p).fiat)
             /\ BankMoves(p, "sendETransfer", Current(p).fiat, "sendETransfer",
                          [Plain("sendETransfer") EXCEPT !.fiat = 0])
    <3> DEFINE d == [Plain("sendETransfer") EXCEPT !.fiat = 0]
    <3>1. d.type = "sendETransfer" /\ d.error = "" /\ d.hash = 0 /\ d.coin = Absent /\ d.fiat = 0
      BY DEF Plain
    <3>2. Current(p).fiat \in Nat
      BY <2>2, AtWork DEF Calls, Positive
    <3> HIDE DEF d
    <3>3. BankMoves(p, "sendETransfer", Current(p).fiat, "sendETransfer", d)
      BY <2>2 DEF d
    <3> QED
      BY <2>2, <3>1, <3>2, <3>3, BankEffect
  <2> QED
    BY <1>21, <2>1, <2>2 DEF SendETransfer
<1>22. CASE DepositFiat(p)
  <2>1. CASE Fails(p, "depositFiat", "other") /\ Calls(p, "depositFiat")
    BY <2>1, FailsEffect
  <2>2. CASE /\ Calls(p, "depositFiat")
             /\ BankMoves(p, "depositETransfer", Value, "depositFiat",
                          [Plain("depositFiat") EXCEPT !.fiat = Value])
    <3> DEFINE d == [Plain("depositFiat") EXCEPT !.fiat = Value]
    <3>1. d.type = "depositFiat" /\ d.error = "" /\ d.hash = 0 /\ d.coin = Absent /\ d.fiat = Value
      BY DEF Plain
    <3> HIDE DEF d
    <3>2. BankMoves(p, "depositETransfer", Value, "depositFiat", d)
      BY <2>2 DEF d
    <3> QED
      BY <1>1, <2>2, <3>1, <3>2, BankEffect
  <2> QED
    BY <1>22, <2>1, <2>2 DEF DepositFiat, Verified
<1> QED
  BY <1>2, <1>3, <1>4, <1>5, <1>6, <1>7, <1>8, <1>9, <1>10, <1>11, <1>12, <1>13, <1>14,
     <1>15, <1>16, <1>17, <1>18, <1>19, <1>20, <1>21, <1>22 DEF Transition

-----------------------------------------------------------------------------
(* Every step, by what it changes.                                         *)

Same(q) == /\ pc'[q] = pc[q] /\ loaded'[q] = loaded[q]
           /\ hist'[q] = hist[q] /\ delta'[q] = delta[q]
OthersSame(p) == \A q \in Executors \ {p} : Same(q)

\* An execution ends, and nothing happens outside.
Ends(p) == Idle(p) /\ UNCHANGED <<world, store, kind>>
Answered(p, d) == pc[p] = "running" /\ Returns(p, d) /\ Answer(p, d)
OutsideStep == Environment \/ UNCHANGED vars

LEMMA StepCases ==
    ASSUME TypeInv, [Next]_vars
    PROVE  \/ \E p \in Executors : Start(p) \/ Replay(p) \/ Store(p) \/ Ends(p)
           \/ \E p \in Executors : \E d \in Delta : Answered(p, d)
           \/ OutsideStep
<1>1. ASSUME NEW p \in Executors, Transition(p)
      PROVE  Ends(p) \/ \E d \in Delta : Answered(p, d)
  <2>1. Effect(p)
    BY <1>1, TransitionEffect
  <2>2. ReturnsNull(p) /\ UNCHANGED <<world, listed>> => Ends(p)
    BY DEF ReturnsNull, Ends, store, limits
  <2>3. ASSUME NEW d \in Delta, Returns(p, d) /\ Answer(p, d)
        PROVE  Answered(p, d)
    BY <2>3 DEF Answer, Calls, Answered
  <2> QED
    BY <2>1, <2>2, <2>3 DEF Effect
<1>2. ASSUME NEW p \in Executors, Leave(p) \/ Crash(p)
      PROVE  Ends(p)
  BY <1>2 DEF Leave, Crash, Ends, limits
<1> QED
  BY <1>1, <1>2 DEF Next, Execute, Finished, OutsideStep

LEMMA IdleStep ==
    ASSUME TypeInv, NEW p \in Executors, Idle(p)
    PROVE  /\ pc'[p] = "idle" /\ loaded'[p] = 0 /\ hist'[p] = << >>
           /\ delta'[p] = NoDelta
           /\ OthersSame(p)
  BY DEF Idle, NoDelta, TypeInv, TypeOK, OthersSame, Same

LEMMA StartStep ==
    ASSUME TypeInv, NEW p \in Executors, Start(p)
    PROVE  /\ pc[p] = "idle" /\ pc'[p] = "running"
           /\ loaded'[p] = Len(stored)
           /\ hist'[p] = << InitialSnapshot >>
           /\ Current(p)' = InitialSnapshot /\ Len(hist'[p]) = 1
           /\ delta' = delta
           /\ OthersSame(p)
           /\ UNCHANGED <<world, store, limits>>
<1>1. /\ hist' = [hist EXCEPT ![p] = << InitialSnapshot >>]
      /\ pc' = [pc EXCEPT ![p] = "running"]
      /\ loaded' = [loaded EXCEPT ![p] = Len(stored)]
      /\ delta' = delta /\ pc[p] = "idle"
      /\ UNCHANGED <<world, store, limits>>
  BY DEF Start
<1>2. hist'[p] = << InitialSnapshot >>
  BY <1>1 DEF TypeInv, TypeOK
<1>3. Len(hist'[p]) = 1 /\ hist'[p][1] = InitialSnapshot
  BY <1>2
<1> QED
  BY <1>1, <1>2, <1>3 DEF TypeInv, TypeOK, OthersSame, Same, Current

LEMMA EnterStep ==
    ASSUME TypeInv, NEW p \in Executors, pc[p] # "idle",
           NEW name \in States, NEW d \in Delta, NEW i \in Nat,
           Enter(p, name, d, i)
    PROVE  /\ Current(p)' = Reduced(Current(p), name, d, i)
           /\ hist'[p] = Append(hist[p], Reduced(Current(p), name, d, i))
           /\ Len(hist'[p]) = Len(hist[p]) + 1
           /\ \A q \in Executors : q # p => hist'[q] = hist[q]
<1> DEFINE s == Reduced(Current(p), name, d, i)
<1>1. hist \in [Executors -> Seq(Snapshot)] /\ Current(p) \in Snapshot
  BY AtWork DEF TypeInv, TypeOK
<1>2. s \in Snapshot
  BY <1>1, ReducedType
<1>3. hist' = [hist EXCEPT ![p] = Append(hist[p], s)]
  BY DEF Enter
<1> HIDE DEF s
<1>4. hist'[p] = Append(hist[p], s) /\ hist[p] \in Seq(Snapshot)
  BY <1>1, <1>3
<1>5. Len(hist'[p]) = Len(hist[p]) + 1 /\ hist'[p][Len(hist[p]) + 1] = s
  BY <1>2, <1>4, Appended
<1>6. \A q \in Executors : q # p => hist'[q] = hist[q]
  BY <1>1, <1>3
<1>7. Current(p)' = s
  BY <1>5 DEF Current
<1> QED
  BY <1>4, <1>5, <1>6, <1>7 DEF s

LEMMA ReplayStep ==
    ASSUME TypeInv, NEW p \in Executors, Replay(p)
    PROVE  \E i \in DOMAIN stored : \E name \in States :
              /\ i = Len(hist[p]) /\ i <= loaded[p] /\ stored[i] = Replayed(p)
              /\ name = IF Overrides(p) THEN Replayed(p).meta ELSE Chosen(p).to
              /\ Fits(p) /\ ~ Halted(p)
              /\ pc[p] = "running" /\ pc' = pc /\ loaded' = loaded /\ delta' = delta
              /\ Current(p)' = Reduced(Current(p), name, stored[i], i)
              /\ hist'[p] = Append(hist[p], Reduced(Current(p), name, stored[i], i))
              /\ Len(hist'[p]) = i + 1
              /\ OthersSame(p)
              /\ UNCHANGED <<world, store, limits>>
<1> DEFINE i == Len(hist[p])
           d == Replayed(p)
           name == IF Overrides(p) THEN d.meta ELSE Chosen(p).to
<1>1. /\ pc[p] = "running" /\ i <= loaded[p] /\ Fits(p) /\ ~ Halted(p)
      /\ Enter(p, name, d, i)
      /\ UNCHANGED <<world, store, pc, loaded, delta, limits>>
  BY DEF Replay, Replaying
<1>2. /\ stored \in Seq(Delta) /\ Len(stored) \in Nat /\ Chosen(p) \in Edge
      /\ hist[p] \in Seq(Snapshot) /\ i \in Nat /\ hist[p] # << >>
      /\ loaded[p] \in Nat /\ loaded[p] <= Len(stored)
  BY <1>1, AtWork DEF TypeInv, TypeOK, LoadedStored, Working
<1>3. i \in DOMAIN stored
  BY <1>1, <1>2
<1>4. d \in Delta /\ d = stored[i]
  BY <1>2, <1>3 DEF Replayed
<1>5. name \in States
  BY <1>2, <1>4, EdgeType DEF Delta
<1> HIDE DEF d, name
<1>6. /\ Current(p)' = Reduced(Current(p), name, d, i)
      /\ hist'[p] = Append(hist[p], Reduced(Current(p), name, d, i))
      /\ Len(hist'[p]) = i + 1
      /\ \A q \in Executors : q # p => hist'[q] = hist[q]
  BY <1>1, <1>2, <1>4, <1>5, EnterStep
<1>7. OthersSame(p)
  BY <1>1, <1>6 DEF OthersSame, Same
<1> QED
  BY <1>1, <1>3, <1>4, <1>5, <1>6, <1>7 DEF name, d

LEMMA StoreStep ==
    ASSUME TypeInv, NEW p \in Executors, Store(p)
    PROVE  \E n \in Nat : \E d \in Delta : \E name \in States :
              /\ pc[p] = "storing" /\ pc'[p] = "running" /\ loaded' = loaded
              /\ name = Chosen(p).to /\ n = Len(stored) + 1
              /\ d = delta[p] /\ delta'[p] = NoDelta
              /\ Len(stored) \in Nat /\ Len(stored') = n
              /\ stored' = Append(stored, d)
              /\ DOMAIN stored = 1 .. n - 1 /\ DOMAIN stored' = 1 .. n
              /\ \A i \in DOMAIN stored : stored'[i] = stored[i]
              /\ stored'[n] = d
              /\ Current(p)' = Reduced(Current(p), name, d, n)
              /\ hist'[p] = Append(hist[p], Reduced(Current(p), name, d, n))
              /\ Len(hist[p]) \in Nat /\ Len(hist'[p]) = Len(hist[p]) + 1
              /\ OthersSame(p)
              /\ UNCHANGED <<world, listed, limits>>
<1>1. /\ pc[p] = "storing" /\ pc' = [pc EXCEPT ![p] = "running"]
      /\ stored' = Append(stored, delta[p])
      /\ Enter(p, Chosen(p).to, delta[p], Len(stored) + 1)
      /\ delta' = [delta EXCEPT ![p] = Plain("")]
      /\ UNCHANGED <<world, listed, loaded, limits>>
  BY DEF Store
<1>2. /\ stored \in Seq(Delta) /\ Len(stored) \in Nat
      /\ hist[p] \in Seq(Snapshot)
  BY <1>1, AtWork
<1>3. PICK n \in Nat, d \in Delta, name \in States :
         n = Len(stored) + 1 /\ d = delta[p] /\ name = Chosen(p).to
  <2>1. Chosen(p).to \in States
    BY <1>1, AtWork, EdgeType
  <2>2. delta[p] \in Delta /\ Len(stored) + 1 \in Nat
    BY <1>2 DEF TypeInv, TypeOK
  <2> QED
    BY <2>1, <2>2
<1>4. stored' = Append(stored, d)
  BY <1>1, <1>3
<1>5. /\ DOMAIN stored = 1 .. n - 1 /\ DOMAIN stored' = 1 .. n
      /\ Len(stored') = n
      /\ \A i \in DOMAIN stored : stored'[i] = stored[i]
      /\ stored'[n] = d
  <2>1. /\ DOMAIN stored = 1 .. Len(stored) /\ DOMAIN stored' = 1 .. Len(stored) + 1
        /\ Len(stored') = Len(stored) + 1
        /\ \A i \in 1 .. Len(stored) : stored'[i] = stored[i]
        /\ stored'[Len(stored) + 1] = d
    BY <1>2, <1>4, Appended
  <2> QED
    BY <1>2, <1>3, <2>1
<1>6. /\ Current(p)' = Reduced(Current(p), name, d, n)
      /\ hist'[p] = Append(hist[p], Reduced(Current(p), name, d, n))
      /\ Len(hist'[p]) = Len(hist[p]) + 1
      /\ \A q \in Executors : q # p => hist'[q] = hist[q]
  <2>1. Enter(p, name, d, n) /\ pc[p] # "idle"
    BY <1>1, <1>3
  <2> QED
    BY <2>1, EnterStep
<1>7. /\ pc'[p] = "running" /\ delta'[p] = NoDelta
      /\ \A q \in Executors : q # p => pc'[q] = pc[q] /\ delta'[q] = delta[q]
  BY <1>1 DEF NoDelta, TypeInv, TypeOK
<1>8. OthersSame(p)
  BY <1>1, <1>6, <1>7 DEF OthersSame, Same
<1>9. Len(hist[p]) \in Nat
  BY <1>2
<1> QED
  BY <1>1, <1>2, <1>3, <1>4, <1>5, <1>6, <1>7, <1>8, <1>9

LEMMA ReturnStep ==
    ASSUME TypeInv, NEW p \in Executors, NEW d, Returns(p, d)
    PROVE  /\ pc'[p] = "storing" /\ delta'[p] = d
           /\ hist' = hist /\ loaded' = loaded
           /\ stored' = stored /\ fresh' = fresh /\ kind' = kind
           /\ OthersSame(p)
  BY DEF Returns, limits, TypeInv, TypeOK, OthersSame, Same

\* What the environment does to the history.
LEMMA OutsideHistory ==
    ASSUME TypeInv, OutsideStep
    PROVE  /\ run' = run /\ bank' = bank /\ kind' = kind
           /\ \A q \in Executors : Same(q)
           /\ \/ stored' = stored
              \/ \E d \in Delta :
                    /\ d.type = "manualOverride" /\ d.hash = 0 /\ d.error = ""
                    /\ d.coin = Absent /\ d.fiat = Absent
                    /\ AdminsAsked => AwaitingAdmin
                    /\ stored' = Append(stored, d)
              \/ ETransferReturned
<1>1. CASE UNCHANGED vars
  BY <1>1 DEF vars, world, store, run, limits, Same
<1>2. CASE WorldNext /\ UNCHANGED <<store, run, limits>>
  BY <1>2, WorldEffect DEF store, run, limits, Same
<1>3. CASE \E i \in fresh : LockExpires(i)
  BY <1>3 DEF LockExpires, world, run, limits, Same
<1>4. CASE ETransferReturned
  BY <1>4 DEF ETransferReturned, run, limits, Same
<1>5. ASSUME NEW s \in Offered[kind], AdminOverride(s)
      PROVE  /\ run' = run /\ bank' = bank /\ kind' = kind
             /\ \A q \in Executors : Same(q)
             /\ \E d \in Delta :
                    /\ d.type = "manualOverride" /\ d.hash = 0 /\ d.error = ""
                    /\ d.coin = Absent /\ d.fiat = Absent
                    /\ AdminsAsked => AwaitingAdmin
                    /\ stored' = Append(stored, d)
  <2> DEFINE z == Plain("manualOverride")
             d == [z EXCEPT !.meta = s]
  <2>1. z \in Delta /\ s \in States
    BY PlainType, GraphType DEF Types, Callbacks, TypeInv, TypeOK
  <2>2. /\ z.type = "manualOverride" /\ z.hash = 0 /\ z.error = ""
        /\ z.coin = Absent /\ z.fiat = Absent
    BY DEF Plain
  <2> HIDE DEF z
  <2>3. /\ d \in Delta /\ d.type = "manualOverride" /\ d.hash = 0 /\ d.error = ""
        /\ d.coin = Absent /\ d.fiat = Absent /\ d.meta = s
    BY <2>1, <2>2 DEF Delta
  <2>4. /\ stored' = Append(stored, d) /\ (AdminsAsked => AwaitingAdmin)
        /\ UNCHANGED <<run, bank, kind>>
    BY <1>5 DEF AdminOverride, AdminsAsked, world, z, TypeInv, TypeOK
  <2> HIDE DEF d
  <2>5. \A q \in Executors : Same(q)
    BY <2>4 DEF run, Same
  <2> QED
    BY <2>3, <2>4, <2>5
<1> QED
  BY <1>1, <1>2, <1>3, <1>4, <1>5 DEF OutsideStep, Environment


\* What is left of the history is its beginning, and one error at its end.
LEMMA ReturnedTail ==
    ASSUME TypeInv, ETransferReturned
    PROVE  /\ Len(stored') = Len(stored) - 1 /\ Len(stored) > 2
           /\ DOMAIN stored' = 1 .. Len(stored) - 1
           /\ \A i \in 1 .. Len(stored) - 2 : i \in DOMAIN stored /\ stored'[i] = stored[i]
           /\ LET d == stored'[Len(stored) - 1]
              IN  /\ d.type = "waitETransfer" /\ d.error = "returned" /\ d.hash = 0
                  /\ d.coin = Absent /\ d.fiat = Absent
           /\ \A i \in DOMAIN stored' :
                 \/ stored'[i].hash = 0
                 \/ i \in DOMAIN stored /\ stored'[i].hash = stored[i].hash
<1> DEFINE n == Len(stored)
           kept == SubSeq(stored, 1, n - 2)
           d == Failed("waitETransfer", "returned")
<1>1. stored \in Seq(Delta) /\ n \in Nat /\ n > 2 /\ DOMAIN stored = 1 .. n
  <2>1. stored \in Seq(Delta)
    BY DEF TypeInv, TypeOK
  <2>2. n > 2
    BY DEF ETransferReturned
  <2> QED
    BY <2>1, <2>2
<1>2. d \in Delta
  BY PlainType DEF Types, Callbacks, Errors
<1>3. /\ d.type = "waitETransfer" /\ d.error = "returned" /\ d.hash = 0
      /\ d.coin = Absent /\ d.fiat = Absent
  BY DEF Failed, Plain
<1>4. stored' = Append(kept, d)
  BY DEF ETransferReturned
<1> HIDE DEF d
<1>5. /\ kept \in Seq(Delta) /\ Len(kept) = n - 2
      /\ \A i \in 1 .. n - 2 : kept[i] = stored[i]
  BY <1>1
<1> HIDE DEF kept
<1>6. /\ Len(stored') = n - 1 /\ DOMAIN stored' = 1 .. n - 1
      /\ \A i \in 1 .. n - 2 : stored'[i] = stored[i]
      /\ stored'[n - 1] = d
  <2>1. /\ Len(stored') = Len(kept) + 1 /\ DOMAIN stored' = 1 .. Len(kept) + 1
        /\ \A i \in 1 .. Len(kept) : stored'[i] = kept[i]
        /\ stored'[Len(kept) + 1] = d
    BY <1>2, <1>4, <1>5, Appended
  <2>2. Len(kept) + 1 = n - 1
    BY <1>1, <1>5
  <2> QED
    BY <1>5, <2>1, <2>2
<1>7. \A i \in 1 .. n - 2 : i \in DOMAIN stored
  BY <1>1
<1>8. \A i \in DOMAIN stored' : i \in 1 .. n - 2 \/ i = n - 1
  BY <1>1, <1>6
<1> QED
  BY <1>1, <1>3, <1>6, <1>7, <1>8

-----------------------------------------------------------------------------
(***************************************************************************)
(* The inductive invariant: a transaction that was sent is one the graph   *)
(* asks for, unless a stranger could send it; of what the client has signed each kind is mined once; processing  *)
(* has moved coin once, and only what an uber transfer left registered.    *)
(***************************************************************************)
AskedFor ==
    \A h \in DOMAIN txs :
       Runs(kind, Caller[txs[h].kind]) \/ txs[h].kind = "processPending"

MovedMined ==
    \A h \in DOMAIN txs : txs[h].moved > 0 => /\ txs[h].status = "mined"
                                             /\ txs[h].kind # "pluginRequest"

SignedMinedOnce ==
    \A g, h \in DOMAIN txs :
       /\ txs[g].kind \in SignedByClient /\ txs[h].kind = txs[g].kind
       /\ txs[g].status = "mined" /\ txs[h].status = "mined"
       => g = h

Clears(h) == txs[h].kind = "processPending" /\ txs[h].moved > 0
LeavesPending(h) == /\ txs[h].kind = "uberTransfer" /\ txs[h].status = "mined"
                    /\ txs[h].moved = 0

ClearedOnce == \A g, h \in DOMAIN txs : Clears(g) /\ Clears(h) => g = h
ClearedPending ==
    (\E h \in DOMAIN txs : Clears(h)) => \E h \in DOMAIN txs : LeavesPending(h)

CoinInv == /\ AskedFor /\ MovedMined /\ SignedMinedOnce
           /\ ClearedOnce /\ ClearedPending

-----------------------------------------------------------------------------
(* What a step does to the chain.                                          *)

\* A transaction is sent, and waits to be mined.
SendsOne ==
    \E tx \in TxRecord :
       /\ txs' = Append(txs, tx)
       /\ tx.moved = 0 /\ tx.status = "pending"
       /\ Runs(kind, Caller[tx.kind])

LEMMA CallRuns ==
    ASSUME TypeInv, NEW p \in Executors, NEW t, t # "", Calls(p, t)
    PROVE  Runs(kind, t)
<1>1. Chosen(p).run = t /\ kind \in DOMAIN Graphs
  BY DEF Calls, TypeInv, TypeOK
<1>2. Chosen(p) # NoEdge
  <2>1. NoEdge.run = ""
    BY DEF NoEdge
  <2> QED
    BY <1>1, <2>1
<1>3. /\ Current(p).name \in DOMAIN Graphs[kind]
      /\ \/ Chosen(p) = Graphs[kind][Current(p).name].next
         \/ Chosen(p) = Graphs[kind][Current(p).name].onError
  BY <1>2 DEF Chosen, Graph
<1> QED
  BY <1>1, <1>3 DEF Runs

LEMMA StepTxs ==
    ASSUME TypeInv, [Next]_vars
    PROVE  /\ kind' = kind
           /\ \/ txs' = txs \/ SendsOne \/ StrangerProcesses
              \/ \E h \in DOMAIN txs : Mine(h) \/ Revert(h)
<1>1. ASSUME NEW p \in Executors, Start(p) \/ Replay(p) \/ Store(p) \/ Ends(p)
      PROVE  kind' = kind /\ txs' = txs
  BY <1>1 DEF Start, Replay, Store, Ends, world, limits
<1>2. ASSUME NEW p \in Executors, NEW d \in Delta, Answered(p, d)
      PROVE  kind' = kind /\ (txs' = txs \/ SendsOne)
  <2>1. kind' = kind
    BY <1>2, ReturnStep DEF Answered
  <2>2. CASE MovesNone(d) \/ PaysFor(p, d)
    BY <2>1, <2>2 DEF MovesNone, PaysFor
  <2>3. CASE SendsFor(p, d)
    <3>1. PICK tx \in TxRecord : /\ txs' = Append(txs, tx)
                                /\ d.type = Caller[tx.kind]
                                /\ tx.moved = 0 /\ tx.status = "pending"
      BY <2>3 DEF SendsFor
    <3>2. Runs(kind, d.type)
      BY <1>2, CallRuns DEF Answered, Answer, Callbacks
    <3> QED
      BY <2>1, <3>1, <3>2 DEF SendsOne
  <2> QED
    BY <1>2, <2>2, <2>3 DEF Answered, Answer
<1>3. ASSUME OutsideStep
      PROVE  /\ kind' = kind
             /\ \/ txs' = txs \/ StrangerProcesses
                \/ \E h \in DOMAIN txs : Mine(h) \/ Revert(h)
  <2>1. kind' = kind
    BY <1>3, OutsideHistory
  <2>2. \/ txs' = txs \/ StrangerProcesses
        \/ \E h \in DOMAIN txs : Mine(h) \/ Revert(h)
    BY <1>3 DEF OutsideStep, Environment, WorldNext, Settle, LockExpires,
       AdminOverride, ETransferReturned, vars, world
  <2> QED
    BY <2>1, <2>2
<1> QED
  BY <1>1, <1>2, <1>3, StepCases

-----------------------------------------------------------------------------
(* Each of these preserves the invariant.                                  *)

LEMMA CoinInit == Init => CoinInv
<1> SUFFICES ASSUME Init PROVE CoinInv
  OBVIOUS
<1>1. txs = << >>
  BY DEF Init, WorldInit
<1>2. DOMAIN txs = {}
  BY <1>1
<1> QED
  BY <1>2 DEF CoinInv, AskedFor, MovedMined, SignedMinedOnce, ClearedOnce,
     ClearedPending

LEMMA CoinUnmoved ==
    ASSUME CoinInv, kind' = kind, txs' = txs
    PROVE  CoinInv'
<1>1. AskedFor' /\ MovedMined' /\ SignedMinedOnce'
  BY DEF CoinInv, AskedFor, MovedMined, SignedMinedOnce, Runs
<1>2. ClearedOnce' /\ ClearedPending'
  BY DEF CoinInv, ClearedOnce, ClearedPending, Clears, LeavesPending
<1> QED
  BY <1>1, <1>2 DEF CoinInv

\* The transaction at the end of the chain is new, the others are as they were.
LEMMA Extended ==
    ASSUME TypeInv, NEW tx \in TxRecord, txs' = Append(txs, tx)
    PROVE  \E n \in Nat :
              /\ n \notin DOMAIN txs /\ DOMAIN txs' = DOMAIN txs \cup {n}
              /\ txs'[n] = tx
              /\ \A h \in DOMAIN txs : txs'[h] = txs[h]
<1>1. txs \in Seq(TxRecord)
  BY DEF TypeInv, TypeOK
<1>2. Len(txs) + 1 \in Nat /\ Len(txs) + 1 \notin DOMAIN txs
  BY <1>1
<1>3. /\ DOMAIN txs' = DOMAIN txs \cup {Len(txs) + 1}
      /\ txs'[Len(txs) + 1] = tx
      /\ \A h \in DOMAIN txs : txs'[h] = txs[h]
  BY <1>1
<1> QED
  BY <1>2, <1>3

LEMMA SendKeepsCoin ==
    ASSUME TypeInv, CoinInv, kind' = kind, SendsOne
    PROVE  CoinInv'
<1>1. PICK tx \in TxRecord :
         /\ txs' = Append(txs, tx)
         /\ tx.moved = 0 /\ tx.status = "pending"
         /\ Runs(kind, Caller[tx.kind])
  BY DEF SendsOne
<1>2. PICK n \in Nat :
         /\ n \notin DOMAIN txs /\ DOMAIN txs' = DOMAIN txs \cup {n}
         /\ txs'[n] = tx
         /\ \A h \in DOMAIN txs : txs'[h] = txs[h]
  BY <1>1, Extended
<1>3. AskedFor'
  BY <1>1, <1>2 DEF CoinInv, AskedFor, Runs
<1>4. MovedMined' /\ SignedMinedOnce'
  BY <1>1, <1>2 DEF CoinInv, MovedMined, SignedMinedOnce
<1>5. ClearedOnce' /\ ClearedPending'
  BY <1>1, <1>2 DEF CoinInv, ClearedOnce, ClearedPending, Clears, LeavesPending
<1> QED
  BY <1>3, <1>4, <1>5 DEF CoinInv

LEMMA StrangerKeepsCoin ==
    ASSUME TypeInv, CoinInv, kind' = kind, StrangerProcesses
    PROVE  CoinInv'
<1> DEFINE tx == [kind |-> "processPending", amount |-> Value,
                  moved |-> Value, status |-> "mined", lock |-> 0]
<1>1. /\ tx \in TxRecord /\ txs' = Append(txs, tx) /\ tx.status = "mined"
      /\ tx.kind = "processPending"
  BY WorldAssumption DEF WorldAssumption, TxRecord, TxKinds, StrangerProcesses
<1> HIDE DEF tx
<1>2. PICK n \in Nat :
         /\ n \notin DOMAIN txs /\ DOMAIN txs' = DOMAIN txs \cup {n}
         /\ txs'[n] = tx
         /\ \A h \in DOMAIN txs : txs'[h] = txs[h]
  BY <1>1, Extended
<1>3. (\E h \in DOMAIN txs : LeavesPending(h)) /\ ~ (\E h \in DOMAIN txs : Clears(h))
  BY DEF StrangerProcesses, Registered, Mined, Moved, LeavesPending, Clears,
     CoinInv, MovedMined
<1>4. AskedFor'
  BY <1>1, <1>2 DEF CoinInv, AskedFor, Runs
<1>5. MovedMined'
  BY <1>1, <1>2 DEF CoinInv, MovedMined
<1>6. SignedMinedOnce'
  BY <1>1, <1>2 DEF CoinInv, SignedMinedOnce, SignedByClient
<1>7. ClearedOnce' /\ ClearedPending'
  BY <1>1, <1>2, <1>3 DEF CoinInv, ClearedOnce, ClearedPending, Clears, LeavesPending
<1> QED
  BY <1>4, <1>5, <1>6, <1>7 DEF CoinInv

LEMMA MineKeepsCoin ==
    ASSUME TypeInv, CoinInv, kind' = kind, NEW h \in DOMAIN txs, Mine(h)
    PROVE  CoinInv'
<1>1. /\ txs \in Seq(TxRecord) /\ txs[h] \in TxRecord
      /\ \A g \in DOMAIN txs : txs[g] \in TxRecord
  BY DEF TypeInv, TypeOK
<1>2. /\ txs[h].status = "pending" /\ Executable(txs[h].kind)
      /\ DOMAIN txs' = DOMAIN txs
      /\ txs'[h].kind = txs[h].kind /\ txs'[h].status = "mined"
      /\ txs'[h].moved = Moves(txs[h])
      /\ \A g \in DOMAIN txs \ {h} : txs'[g] = txs[g]
  BY <1>1 DEF Mine, TxRecord
<1>3. AskedFor'
  BY <1>2 DEF CoinInv, AskedFor, Runs
<1>4. MovedMined'
  <2>1. txs[h].kind = "pluginRequest" => Moves(txs[h]) = 0
    BY DEF Moves
  <2> QED
    BY <1>2, <2>1 DEF CoinInv, MovedMined
<1>5. SignedMinedOnce'
  <2>1. txs[h].kind \in SignedByClient =>
           \A g \in DOMAIN txs : txs[g].kind = txs[h].kind => txs[g].status # "mined"
    BY <1>2 DEF Executable, Mined
  <2> QED
    BY <1>2, <2>1 DEF CoinInv, SignedMinedOnce
<1>6. ClearedOnce' /\ ClearedPending'
  <2>1. ~ Clears(h)
    BY <1>2 DEF Clears, CoinInv, MovedMined
  <2>2. \A g \in DOMAIN txs \ {h} : Clears(g)' <=> Clears(g)
    BY <1>2 DEF Clears
  <2>3. \A g \in DOMAIN txs : LeavesPending(g) => LeavesPending(g)'
    BY <1>2 DEF LeavesPending
  <2>4. CASE ~ Clears(h)'
    BY <1>2, <2>1, <2>2, <2>3, <2>4 DEF CoinInv, ClearedOnce, ClearedPending
  <2>5. CASE Clears(h)'
    <3>1. txs[h].kind = "processPending" /\ Moves(txs[h]) > 0
      BY <1>2, <2>5 DEF Clears
    <3>2. Registered
      BY <3>1 DEF Moves
    <3>3. /\ \E g \in DOMAIN txs : LeavesPending(g)
          /\ ~ (\E g \in DOMAIN txs : Clears(g))
      BY <3>2 DEF Registered, Mined, Moved, LeavesPending, Clears, CoinInv, MovedMined
    <3> QED
      BY <1>2, <2>2, <2>3, <3>3 DEF ClearedOnce, ClearedPending
  <2> QED
    BY <2>4, <2>5
<1> QED
  BY <1>3, <1>4, <1>5, <1>6 DEF CoinInv

LEMMA RevertKeepsCoin ==
    ASSUME TypeInv, CoinInv, kind' = kind, NEW h \in DOMAIN txs, Revert(h)
    PROVE  CoinInv'
<1>1. /\ txs \in Seq(TxRecord) /\ txs[h] \in TxRecord
  BY DEF TypeInv, TypeOK
<1>2. /\ txs[h].status = "pending"
      /\ DOMAIN txs' = DOMAIN txs
      /\ txs'[h].kind = txs[h].kind /\ txs'[h].status = "failed"
      /\ txs'[h].moved = txs[h].moved
      /\ \A g \in DOMAIN txs \ {h} : txs'[g] = txs[g]
  BY <1>1 DEF Revert, TxRecord
<1>3. AskedFor'
  BY <1>2 DEF CoinInv, AskedFor, Runs
<1>4. MovedMined'
  BY <1>2 DEF CoinInv, MovedMined
<1>5. SignedMinedOnce'
  BY <1>2 DEF CoinInv, SignedMinedOnce
<1>6. \A g \in DOMAIN txs : /\ Clears(g)' <=> Clears(g)
                            /\ LeavesPending(g)' <=> LeavesPending(g)
  BY <1>2 DEF Clears, LeavesPending
<1>7. ClearedOnce' /\ ClearedPending'
  BY <1>2, <1>6 DEF CoinInv, ClearedOnce, ClearedPending
<1> QED
  BY <1>3, <1>4, <1>5, <1>7 DEF CoinInv

LEMMA CoinStep == ASSUME TypeInv, CoinInv, [Next]_vars PROVE CoinInv'
<1>1. kind' = kind
  BY StepTxs
<1>2. CASE txs' = txs
  BY <1>1, <1>2, CoinUnmoved
<1>3. CASE SendsOne
  BY <1>1, <1>3, SendKeepsCoin
<1>4. CASE StrangerProcesses
  BY <1>1, <1>4, StrangerKeepsCoin
<1>5. CASE \E h \in DOMAIN txs : Mine(h) \/ Revert(h)
  BY <1>1, <1>5, MineKeepsCoin, RevertKeepsCoin
<1> QED
  BY <1>2, <1>3, <1>4, <1>5, StepTxs

-----------------------------------------------------------------------------
\* Two transfers that moved the client's coin are the same one: two of one
\* kind by the contract's checks, an uber transfer and a processing because
\* only a transfer that moved nothing is left to process, and a certified one
\* and the others because no graph asks for both.
LEMMA CoinImplies ==
    ASSUME OneRequest, TypeInv, CoinInv
    PROVE  CoinTakenOnce
<1> SUFFICES ASSUME NEW g \in DOMAIN txs, NEW h \in DOMAIN txs,
                    txs[g].moved > 0, txs[g].kind # "exactTransfer",
                    txs[h].moved > 0, txs[h].kind # "exactTransfer"
             PROVE  g = h
  BY DEF CoinTakenOnce
<1> DEFINE Taking == {"certifiedTransfer", "uberTransfer", "processPending"}
<1>1. /\ txs[g].status = "mined" /\ txs[g].kind \in Taking
      /\ txs[h].status = "mined" /\ txs[h].kind \in Taking
  <2>1. txs[g] \in TxRecord /\ txs[h] \in TxRecord
    BY DEF TypeInv, TypeOK
  <2>2. txs[g].kind \in TxKinds /\ txs[h].kind \in TxKinds
    BY <2>1 DEF TxRecord
  <2> QED
    BY <2>2 DEF TxKinds, CoinInv, MovedMined
<1>2. ~ ((\E a \in DOMAIN txs : txs[a].kind = "certifiedTransfer")
         /\ \E b \in DOMAIN txs : txs[b].kind = "uberTransfer")
  <2>1. /\ Caller["certifiedTransfer"] = "depositCoin"
        /\ Caller["uberTransfer"] = "uberDepositCoin"
    BY DEF Caller
  <2>2. kind \in DOMAIN Graphs
    BY DEF TypeInv, TypeOK
  <2> QED
    BY <2>1, <2>2 DEF CoinInv, AskedFor, OneRequest
<1>3. (\E a \in DOMAIN txs : Clears(a)) => \E u \in DOMAIN txs : LeavesPending(u)
  BY DEF CoinInv, ClearedPending
<1>4. \A a, u \in DOMAIN txs :
         LeavesPending(u) /\ txs[a].kind = "uberTransfer" /\ txs[a].status = "mined"
         => a = u /\ txs[a].moved = 0
  BY DEF CoinInv, SignedMinedOnce, SignedByClient, LeavesPending
<1>5. txs[g].kind = txs[h].kind
  BY <1>1, <1>2, <1>3, <1>4 DEF Clears, LeavesPending
<1>6. CASE txs[g].kind = "processPending"
  BY <1>5, <1>6 DEF CoinInv, ClearedOnce, Clears
<1>7. CASE txs[g].kind \in SignedByClient
  BY <1>1, <1>5, <1>7 DEF CoinInv, SignedMinedOnce
<1> QED
  BY <1>1, <1>6, <1>7 DEF SignedByClient

\* In a system whose graphs ask for the client's coin in one way each, as the
\* code's do, the coin is taken at most once for one request, whoever executes
\* the action and however often, and whoever processes what it registers.
THEOREM RequestTakenOnce == OneRequest => (Spec => []CoinTakenOnce)
<1> SUFFICES ASSUME OneRequest PROVE Spec => []CoinTakenOnce
  OBVIOUS
<1>1. Init => TypeInv /\ CoinInv
  BY TypeInit, CoinInit
<1>2. TypeInv /\ CoinInv /\ [Next]_vars => (TypeInv /\ CoinInv)'
  BY TypeStep, CoinStep
<1>3. TypeInv /\ CoinInv => CoinTakenOnce
  BY CoinImplies
<1> QED
  BY <1>1, <1>2, <1>3, PTL DEF Spec

-----------------------------------------------------------------------------
(* Places in the history.                                                  *)

\* A transaction is in the history, or on its way there, once.
HashOnce ==
    /\ \A i, j \in DOMAIN stored :
          stored[i].hash # 0 /\ stored[i].hash = stored[j].hash => i = j
    /\ \A p \in Executors : \A i \in DOMAIN stored :
          delta[p].hash # 0 => stored[i].hash # delta[p].hash
    /\ \A p, q \in Executors :
          delta[p].hash # 0 /\ delta[p].hash = delta[q].hash => p = q

\* The snapshot an executor is in came from a delta at its place, and the
\* places it replays are behind it.
Placed(p) ==
    /\ pc[p] # "storing" => delta[p] = NoDelta
    /\ Working(p) =>
          /\ Current(p).at \in 0 .. Len(stored)
          /\ Current(p).delta.hash # 0 =>
                /\ Current(p).at \in DOMAIN stored
                /\ stored[Current(p).at].hash = Current(p).delta.hash
          /\ Replaying(p) => Current(p).at < Len(hist[p]) /\ pc[p] = "running"

PlaceInv == HashOnce /\ \A p \in Executors : Placed(p)

StoredKept == \A i \in DOMAIN stored : i \in DOMAIN stored' /\ stored'[i] = stored[i]

LEMMA PlaceInit == Init => PlaceInv
<1> SUFFICES ASSUME Init PROVE PlaceInv
  OBVIOUS
<1>1. /\ stored = << >>
      /\ \A p \in Executors : pc[p] = "idle" /\ delta[p] = NoDelta
  BY DEF Init, NoDelta
<1>2. NoDelta.hash = 0
  BY DEF Plain, NoDelta
<1>3. HashOnce
  BY <1>1, <1>2 DEF HashOnce
<1>4. \A p \in Executors : Placed(p)
  BY <1>1 DEF Placed, Working
<1> QED
  BY <1>3, <1>4 DEF PlaceInv

\* Where an executor is does not change when others write.
LEMMA PlacedKept ==
    ASSUME TypeInv, TypeInv', NEW q \in Executors, Placed(q), Same(q), StoredKept
    PROVE  Placed(q)'
<1>1. /\ pc'[q] = pc[q] /\ delta'[q] = delta[q] /\ hist'[q] = hist[q]
      /\ loaded'[q] = loaded[q]
  BY DEF Same
<1>2. Current(q)' = Current(q)
  BY <1>1 DEF Current
<1>3. /\ Len(stored) \in Nat /\ Len(stored') \in Nat
      /\ DOMAIN stored = 1 .. Len(stored) /\ DOMAIN stored' = 1 .. Len(stored')
  BY DEF TypeInv, TypeOK
<1>4. Len(stored) <= Len(stored')
  BY <1>3 DEF StoredKept
<1>5. (pc[q] # "storing" => delta[q] = NoDelta)'
  BY <1>1 DEF Placed
<1>6. ASSUME Working(q)'
      PROVE  /\ Current(q)'.at \in 0 .. Len(stored')
             /\ Current(q)'.delta.hash # 0 =>
                   /\ Current(q)'.at \in DOMAIN stored'
                   /\ stored'[Current(q)'.at].hash = Current(q)'.delta.hash
             /\ Replaying(q)' => Current(q)'.at < Len(hist'[q]) /\ pc'[q] = "running"
  <2>1. Working(q)
    BY <1>1, <1>6 DEF Working
  <2>2. Replaying(q)' <=> Replaying(q)
    BY <1>1 DEF Replaying
  <2>3. /\ Current(q).at \in 0 .. Len(stored)
        /\ Current(q).delta.hash # 0 =>
              /\ Current(q).at \in DOMAIN stored
              /\ stored[Current(q).at].hash = Current(q).delta.hash
        /\ Replaying(q) => Current(q).at < Len(hist[q]) /\ pc[q] = "running"
    BY <2>1 DEF Placed
  <2>4. Current(q).at \in 0 .. Len(stored')
    BY <1>3, <1>4, <2>3
  <2>5. Current(q).delta.hash # 0 =>
           /\ Current(q).at \in DOMAIN stored'
           /\ stored'[Current(q).at].hash = Current(q).delta.hash
    BY <2>3 DEF StoredKept
  <2> QED
    BY <1>1, <1>2, <2>2, <2>3, <2>4, <2>5
<1> QED
  BY <1>5, <1>6 DEF Placed

\* No new transaction reaches the history.
LEMMA HashesKept ==
    ASSUME HashOnce,
           \A i \in DOMAIN stored' :
              \/ stored'[i].hash = 0
              \/ i \in DOMAIN stored /\ stored'[i].hash = stored[i].hash,
           \A p \in Executors : delta'[p].hash \in {0, delta[p].hash}
    PROVE  HashOnce'
<1>1. ASSUME NEW i \in DOMAIN stored', NEW j \in DOMAIN stored',
             stored'[i].hash # 0, stored'[i].hash = stored'[j].hash
      PROVE  i = j
  BY <1>1 DEF HashOnce
<1>2. ASSUME NEW p \in Executors, NEW i \in DOMAIN stored', delta'[p].hash # 0
      PROVE  stored'[i].hash # delta'[p].hash
  BY <1>2 DEF HashOnce
<1>3. ASSUME NEW p \in Executors, NEW q \in Executors,
             delta'[p].hash # 0, delta'[p].hash = delta'[q].hash
      PROVE  p = q
  BY <1>3 DEF HashOnce
<1> QED
  BY <1>1, <1>2, <1>3 DEF HashOnce

LEMMA PlaceStart ==
    ASSUME TypeInv, TypeInv', PlaceInv, NEW p \in Executors, Start(p)
    PROVE  PlaceInv'
<1>1. /\ pc[p] = "idle" /\ pc'[p] = "running" /\ loaded'[p] = Len(stored)
      /\ Current(p)' = InitialSnapshot /\ Len(hist'[p]) = 1
      /\ delta' = delta /\ OthersSame(p) /\ stored' = stored
  BY StartStep DEF store
<1>2. InitialSnapshot.at = 0 /\ InitialSnapshot.delta.hash = 0
  BY DEF InitialSnapshot, Plain
<1>3. Len(stored) \in Nat
  BY DEF TypeInv, TypeOK
<1>4. Placed(p)'
  <2>1. delta'[p] = NoDelta
    BY <1>1 DEF PlaceInv, Placed
  <2>2. /\ Current(p)'.at \in 0 .. Len(stored')
        /\ Current(p)'.delta.hash = 0
        /\ Current(p)'.at < Len(hist'[p])
    BY <1>1, <1>2, <1>3
  <2> QED
    BY <1>1, <2>1, <2>2 DEF Placed
<1>5. \A q \in Executors \ {p} : Placed(q)'
  BY <1>1, PlacedKept DEF PlaceInv, OthersSame, StoredKept
<1>6. HashOnce'
  BY <1>1, HashesKept DEF PlaceInv
<1> QED
  BY <1>4, <1>5, <1>6 DEF PlaceInv

LEMMA PlaceReplay ==
    ASSUME TypeInv, TypeInv', PlaceInv, NEW p \in Executors, Replay(p)
    PROVE  PlaceInv'
<1>1. PICK i \in DOMAIN stored, name \in States :
         /\ pc[p] = "running" /\ pc' = pc /\ loaded' = loaded /\ delta' = delta
         /\ Current(p)' = Reduced(Current(p), name, stored[i], i)
         /\ Len(hist'[p]) = i + 1
         /\ OthersSame(p) /\ stored' = stored
  BY ReplayStep DEF store
<1>2. Current(p)'.at = i /\ Current(p)'.delta = stored[i]
  BY <1>1 DEF Reduced
<1>3. Len(stored) \in Nat /\ DOMAIN stored = 1 .. Len(stored)
  BY DEF TypeInv, TypeOK
<1>4. Placed(p)'
  <2>1. delta'[p] = NoDelta /\ pc'[p] = "running"
    BY <1>1 DEF PlaceInv, Placed
  <2>2. /\ Current(p)'.at \in 0 .. Len(stored') /\ Current(p)'.at \in DOMAIN stored'
        /\ stored'[Current(p)'.at].hash = Current(p)'.delta.hash
        /\ Current(p)'.at < Len(hist'[p])
    BY <1>1, <1>2, <1>3
  <2> QED
    BY <2>1, <2>2 DEF Placed
<1>5. \A q \in Executors \ {p} : Placed(q)'
  BY <1>1, PlacedKept DEF PlaceInv, OthersSame, StoredKept
<1>6. HashOnce'
  BY <1>1, HashesKept DEF PlaceInv
<1> QED
  BY <1>4, <1>5, <1>6 DEF PlaceInv

LEMMA PlaceStore ==
    ASSUME TypeInv, TypeInv', PlaceInv, NEW p \in Executors, Store(p)
    PROVE  PlaceInv'
<1>1. PICK n \in Nat, d \in Delta, name \in States :
         /\ pc[p] = "storing" /\ pc'[p] = "running" /\ loaded' = loaded
         /\ d = delta[p] /\ delta'[p] = NoDelta
         /\ n = Len(stored) + 1 /\ Len(stored) \in Nat /\ Len(hist[p]) \in Nat
         /\ Len(stored') = n /\ DOMAIN stored = 1 .. n - 1 /\ DOMAIN stored' = 1 .. n
         /\ \A i \in DOMAIN stored : stored'[i] = stored[i]
         /\ stored'[n] = d
         /\ Current(p)' = Reduced(Current(p), name, d, n)
         /\ Len(hist'[p]) = Len(hist[p]) + 1
         /\ OthersSame(p)
  BY StoreStep
<1>2. Current(p)'.at = n /\ Current(p)'.delta = d
  BY <1>1 DEF Reduced
<1>3. StoredKept
  BY <1>1 DEF StoredKept
<1>4. Placed(p)'
  <2>1. ~ Replaying(p)
    BY <1>1 DEF PlaceInv, Placed, Working
  <2>2. ~ Replaying(p)'
    <3>1. loaded[p] \in Nat
      BY DEF TypeInv, TypeOK
    <3> QED
      BY <1>1, <2>1, <3>1 DEF Replaying
  <2> QED
    BY <1>1, <1>2, <2>2 DEF Placed
<1>5. \A q \in Executors \ {p} : Placed(q)'
  BY <1>1, <1>3, PlacedKept DEF PlaceInv, OthersSame
<1>6. HashOnce'
  <2>1. NoDelta.hash = 0
    BY DEF Plain, NoDelta
  <2>2. \A q \in Executors : delta'[q].hash = IF q = p THEN 0 ELSE delta[q].hash
    BY <1>1, <2>1 DEF OthersSame, Same
  <2>3. \A i \in DOMAIN stored' : \/ i \in DOMAIN stored /\ stored'[i] = stored[i]
                                  \/ i = n /\ stored'[i] = d
    BY <1>1
  <2>4. /\ \A i \in DOMAIN stored : d.hash # 0 => stored[i].hash # d.hash
        /\ \A q \in Executors : q # p /\ d.hash # 0 => delta[q].hash # d.hash
    BY <1>1 DEF PlaceInv, HashOnce
  <2>5. ASSUME NEW i \in DOMAIN stored', NEW j \in DOMAIN stored',
               stored'[i].hash # 0, stored'[i].hash = stored'[j].hash
        PROVE  i = j
    BY <2>3, <2>4, <2>5 DEF PlaceInv, HashOnce
  <2>6. ASSUME NEW q \in Executors, NEW i \in DOMAIN stored', delta'[q].hash # 0
        PROVE  stored'[i].hash # delta'[q].hash
    BY <2>2, <2>3, <2>4, <2>6 DEF PlaceInv, HashOnce
  <2>7. ASSUME NEW a \in Executors, NEW b \in Executors,
               delta'[a].hash # 0, delta'[a].hash = delta'[b].hash
        PROVE  a = b
    BY <2>2, <2>7 DEF PlaceInv, HashOnce
  <2> QED
    BY <2>5, <2>6, <2>7 DEF HashOnce
<1> QED
  BY <1>4, <1>5, <1>6 DEF PlaceInv

LEMMA PlaceEnds ==
    ASSUME TypeInv, TypeInv', PlaceInv, NEW p \in Executors, Ends(p)
    PROVE  PlaceInv'
<1>1. /\ pc'[p] = "idle" /\ delta'[p] = NoDelta /\ OthersSame(p) /\ stored' = stored
  BY IdleStep DEF Ends, store
<1>2. NoDelta.hash = 0
  BY DEF Plain, NoDelta
<1>3. Placed(p)'
  BY <1>1 DEF Placed, Working
<1>4. \A q \in Executors \ {p} : Placed(q)'
  BY <1>1, PlacedKept DEF PlaceInv, OthersSame, StoredKept
<1>5. HashOnce'
  <2>1. \A q \in Executors : delta'[q].hash \in {0, delta[q].hash}
    BY <1>1, <1>2 DEF OthersSame, Same
  <2> QED
    BY <1>1, <2>1, HashesKept DEF PlaceInv
<1> QED
  BY <1>3, <1>4, <1>5 DEF PlaceInv

LEMMA PlaceAnswered ==
    ASSUME TypeInv, TypeInv', PlaceInv, NEW p \in Executors, NEW d \in Delta,
           Answered(p, d)
    PROVE  PlaceInv'
<1>1. /\ pc'[p] = "storing" /\ delta'[p] = d
      /\ hist' = hist /\ loaded' = loaded /\ stored' = stored /\ OthersSame(p)
      /\ pc[p] = "running" /\ ~ Replaying(p)
  BY ReturnStep DEF Answered, Answer, Calls
<1>2. Placed(p)'
  <2>1. Current(p)' = Current(p) /\ ~ Replaying(p)'
    BY <1>1 DEF Current, Replaying
  <2> QED
    BY <1>1, <2>1 DEF PlaceInv, Placed, Working
<1>3. \A q \in Executors \ {p} : Placed(q)'
  BY <1>1, PlacedKept DEF PlaceInv, OthersSame, StoredKept
<1>4. d.hash \in {0, Len(txs) + 1}
  BY DEF Answered, Answer, MovesNone, SendsFor, PaysFor
<1>5. /\ \A i \in DOMAIN stored : stored[i].hash # Len(txs) + 1
      /\ \A q \in Executors : delta[q].hash # Len(txs) + 1
  <2>1. Len(txs) \in Nat
    BY DEF TypeInv, TypeOK
  <2> QED
    BY <2>1 DEF TypeInv, HashesKnown
<1>6. HashOnce'
  <2>1. \A q \in Executors : delta'[q] = IF q = p THEN d ELSE delta[q]
    BY <1>1 DEF OthersSame, Same
  <2>2. ASSUME NEW q \in Executors, NEW i \in DOMAIN stored, delta'[q].hash # 0
        PROVE  stored[i].hash # delta'[q].hash
    BY <1>4, <1>5, <2>1, <2>2 DEF PlaceInv, HashOnce
  <2>3. ASSUME NEW a \in Executors, NEW b \in Executors,
               delta'[a].hash # 0, delta'[a].hash = delta'[b].hash
        PROVE  a = b
    BY <1>4, <1>5, <2>1, <2>3 DEF PlaceInv, HashOnce
  <2> QED
    BY <1>1, <2>2, <2>3 DEF PlaceInv, HashOnce
<1> QED
  BY <1>2, <1>3, <1>6 DEF PlaceInv

LEMMA PlaceOutside ==
    ASSUME TypeInv, TypeInv', PlaceInv, OutsideStep
    PROVE  PlaceInv'
<1>1. \A q \in Executors : Same(q)
  BY OutsideHistory
<1>2. stored \in Seq(Delta)
  BY DEF TypeInv, TypeOK
<1>3. CASE stored' = stored
  BY <1>1, <1>3, PlacedKept, HashesKept DEF PlaceInv, Same, StoredKept
<1>4. CASE \E d \in Delta : d.hash = 0 /\ stored' = Append(stored, d)
  <2>1. PICK d \in Delta : d.hash = 0 /\ stored' = Append(stored, d)
    BY <1>4
  <2>2. /\ DOMAIN stored = 1 .. Len(stored) /\ DOMAIN stored' = 1 .. Len(stored) + 1
        /\ \A i \in 1 .. Len(stored) : stored'[i] = stored[i]
        /\ stored'[Len(stored) + 1] = d /\ Len(stored) \in Nat
    BY <1>2, <2>1, Appended
  <2>3. StoredKept
    BY <2>2 DEF StoredKept
  <2>4. \A i \in DOMAIN stored' :
           stored'[i].hash = 0 \/ (i \in DOMAIN stored /\ stored'[i].hash = stored[i].hash)
    BY <2>1, <2>2
  <2> QED
    BY <1>1, <2>3, <2>4, PlacedKept, HashesKept DEF PlaceInv, Same
<1>5. CASE ETransferReturned
  <2>1. \A q \in Executors : pc[q] = "idle"
    BY <1>5 DEF ETransferReturned
  <2>2. \A q \in Executors : Placed(q)'
    BY <1>1, <2>1 DEF PlaceInv, Placed, Working, Same
  <2>3. \A i \in DOMAIN stored' :
           stored'[i].hash = 0 \/ (i \in DOMAIN stored /\ stored'[i].hash = stored[i].hash)
    BY <1>5, ReturnedTail
  <2> QED
    BY <1>1, <2>2, <2>3, HashesKept DEF PlaceInv, Same
<1> QED
  BY <1>3, <1>4, <1>5, OutsideHistory

LEMMA PlaceStep == TypeInv /\ TypeInv' /\ PlaceInv /\ [Next]_vars => PlaceInv'
<1> SUFFICES ASSUME TypeInv, TypeInv', PlaceInv, [Next]_vars PROVE PlaceInv'
  OBVIOUS
<1>1. CASE \E p \in Executors : Start(p) \/ Replay(p) \/ Store(p) \/ Ends(p)
  BY <1>1, PlaceStart, PlaceReplay, PlaceStore, PlaceEnds
<1>2. CASE \E p \in Executors : \E d \in Delta : Answered(p, d)
  BY <1>2, PlaceAnswered
<1>3. CASE OutsideStep
  BY <1>3, PlaceOutside
<1> QED
  BY <1>1, <1>2, <1>3, StepCases

-----------------------------------------------------------------------------
(* Payments.                                                               *)

\* Transactions that have moved the client's coin to the broker, and amounts
\* that are the worth of one.
Taken == {h \in DOMAIN txs : txs[h].moved > 0 /\ txs[h].kind # "exactTransfer"}
CoinOf(c) == Outstanding(c) => \E h \in Taken : c = txs[h].moved
FiatOf(f) == Positive(f) => \E h \in Taken, r \in Rates : f = txs[h].moved * r
Worth(s) == CoinOf(s.coin) /\ FiatOf(s.fiat)

\* Coin is received after the transaction that moved it.
TakenBefore(n) == \E i \in DOMAIN stored : i < n /\ stored[i].hash \in Taken

(***************************************************************************)
(* The inductive invariant.  In a graph whose fiat comes from the client's *)
(* coin alone, every amount in the history, or that an execution computes  *)
(* from it, is the worth of a transaction that has moved coin.  Coin is in *)
(* a container only behind the transaction that moved it: that is why coin *)
(* received twice, by two executors or in one history that an override     *)
(* sends back, never adds up.                                              *)
(***************************************************************************)
HistoryWorth ==
    \A j \in DOMAIN stored :
       Worth(stored[j]) /\ (Outstanding(stored[j].coin) => TakenBefore(j))

OwnWorth(p) ==
    /\ Worth(delta[p])
    /\ Outstanding(delta[p].coin) => TakenBefore(Len(stored) + 1)
    /\ Working(p) => /\ Worth(Current(p))
                     /\ Outstanding(Current(p).coin) => TakenBefore(Current(p).at)

PaymentsWorth == \A i \in Payments : FiatOf(bank[i].amount)
PaymentsAsked ==
    \A i \in Payments : Runs(kind, bank[i].kind) /\ Positive(bank[i].amount)

WorthInv == /\ HistoryWorth /\ PaymentsWorth
            /\ \A p \in Executors : OwnWorth(p)

FundInv == PaymentsAsked /\ (CoinFunded(kind) => WorthInv)

TakenKept == \A h \in Taken : h \in Taken' /\ txs'[h].moved = txs[h].moved

LEMMA TakenGrows ==
    ASSUME TypeInv, CoinInv, [Next]_vars
    PROVE  TakenKept
<1>1. txs \in Seq(TxRecord)
  BY DEF TypeInv, TypeOK
<1>2. ASSUME NEW tx \in TxRecord, txs' = Append(txs, tx) PROVE TakenKept
  <2>1. PICK n \in Nat :
           /\ n \notin DOMAIN txs /\ DOMAIN txs' = DOMAIN txs \cup {n}
           /\ \A h \in DOMAIN txs : txs'[h] = txs[h]
    BY <1>2, Extended
  <2> QED
    BY <2>1 DEF TakenKept, Taken
<1>3. CASE txs' = txs
  BY <1>3 DEF TakenKept, Taken
<1>4. CASE SendsOne
  BY <1>2, <1>4 DEF SendsOne
<1>5. CASE StrangerProcesses
  <2> DEFINE tx == [kind |-> "processPending", amount |-> Value,
                    moved |-> Value, status |-> "mined", lock |-> 0]
  <2>1. tx \in TxRecord /\ txs' = Append(txs, tx)
    BY <1>5, WorldAssumption DEF WorldAssumption, TxRecord, TxKinds, StrangerProcesses
  <2> HIDE DEF tx
  <2> QED
    BY <1>2, <2>1
<1>6. ASSUME NEW h \in DOMAIN txs, Mine(h) \/ Revert(h) PROVE TakenKept
  <2>1. /\ txs[h].status = "pending" /\ DOMAIN txs' = DOMAIN txs
        /\ \A g \in DOMAIN txs \ {h} : txs'[g] = txs[g]
    BY <1>1, <1>6 DEF Mine, Revert
  <2>2. h \notin Taken
    BY <2>1 DEF Taken, CoinInv, MovedMined
  <2> QED
    BY <2>1, <2>2 DEF TakenKept, Taken
<1> QED
  BY <1>3, <1>4, <1>5, <1>6, StepTxs

LEMMA BeforeKept ==
    ASSUME TakenKept, StoredKept, NEW n, TakenBefore(n)
    PROVE  TakenBefore(n)'
<1>1. PICK i \in DOMAIN stored : i < n /\ stored[i].hash \in Taken
  BY DEF TakenBefore
<1>2. i \in DOMAIN stored' /\ stored'[i] = stored[i] /\ stored[i].hash \in Taken'
  BY <1>1 DEF TakenKept, StoredKept
<1> QED
  BY <1>1, <1>2 DEF TakenBefore

LEMMA HistoryKept ==
    ASSUME HistoryWorth, TakenKept, stored' = stored
    PROVE  HistoryWorth'
<1> SUFFICES ASSUME NEW j \in DOMAIN stored
             PROVE  Worth(stored[j])' /\ (Outstanding(stored[j].coin) => TakenBefore(j)')
  BY DEF HistoryWorth
<1>1. Worth(stored[j]) /\ (Outstanding(stored[j].coin) => TakenBefore(j))
  BY DEF HistoryWorth
<1>2. Worth(stored[j])'
  BY <1>1 DEF TakenKept, Worth, CoinOf, FiatOf
<1>3. StoredKept
  BY DEF StoredKept
<1> QED
  BY <1>1, <1>2, <1>3, BeforeKept

\* What an executor holds keeps its worth when others act.
LEMMA OwnKept ==
    ASSUME TypeInv, TypeInv', NEW q \in Executors, OwnWorth(q), Same(q),
           TakenKept, StoredKept
    PROVE  OwnWorth(q)'
<1>1. /\ pc'[q] = pc[q] /\ delta'[q] = delta[q] /\ Current(q)' = Current(q)
  BY DEF Same, Current
<1>2. Worth(delta[q])'
  BY <1>1 DEF OwnWorth, TakenKept, Worth, CoinOf, FiatOf
<1>3. (Outstanding(delta[q].coin) => TakenBefore(Len(stored) + 1))'
  <2> SUFFICES ASSUME Outstanding(delta[q].coin)
               PROVE  TakenBefore(Len(stored) + 1)'
    BY <1>1
  <2>1. PICK i \in DOMAIN stored : stored[i].hash \in Taken
    BY DEF OwnWorth, TakenBefore
  <2>2. i \in DOMAIN stored' /\ stored'[i].hash \in Taken'
    BY <2>1 DEF StoredKept, TakenKept
  <2>3. i < Len(stored') + 1
    <3>1. Len(stored') \in Nat /\ DOMAIN stored' = 1 .. Len(stored')
      BY DEF TypeInv, TypeOK
    <3> QED
      BY <2>2, <3>1
  <2> QED
    BY <2>2, <2>3 DEF TakenBefore
<1>4. ASSUME Working(q)'
      PROVE  /\ Worth(Current(q))'
             /\ (Outstanding(Current(q).coin) => TakenBefore(Current(q).at))'
  <2>1. /\ Worth(Current(q))
        /\ Outstanding(Current(q).coin) => TakenBefore(Current(q).at)
    BY <1>1, <1>4 DEF OwnWorth, Working
  <2>2. Worth(Current(q))'
    BY <1>1, <2>1 DEF TakenKept, Worth, CoinOf, FiatOf
  <2>3. PICK n : n = Current(q).at
    OBVIOUS
  <2>4. TakenBefore(n) => TakenBefore(n)'
    BY BeforeKept
  <2>5. (TakenBefore(Current(q).at))' = TakenBefore(n)'
    BY <1>1, <2>3
  <2> QED
    BY <1>1, <2>1, <2>2, <2>3, <2>4, <2>5
<1> QED
  BY <1>2, <1>3, <1>4 DEF OwnWorth

\* Nothing is on its way, and so nothing to be worth.
LEMMA NothingWorth ==
    ASSUME NEW p \in Executors, delta'[p] = NoDelta
    PROVE  Worth(delta[p])' /\ ~ Outstanding(delta[p].coin)'
<1>1. NoDelta.coin = Absent /\ NoDelta.fiat = Absent
  BY DEF NoDelta, Plain
<1> QED
  BY <1>1 DEF Worth, CoinOf, FiatOf, Outstanding, Positive, Absent

LEMMA WorthInit == Init => WorthInv /\ PaymentsAsked
<1> SUFFICES ASSUME Init PROVE WorthInv /\ PaymentsAsked
  OBVIOUS
<1>1. /\ DOMAIN stored = {} /\ DOMAIN bank = {}
      /\ \A p \in Executors : pc[p] = "idle" /\ delta[p] = NoDelta
  <2>1. stored = << >> /\ bank = << >>
    BY DEF Init, WorldInit
  <2>2. \A p \in Executors : pc[p] = "idle" /\ delta[p] = NoDelta
    BY DEF Init, NoDelta
  <2> QED
    BY <2>1, <2>2
<1>2. NoDelta.coin = Absent /\ NoDelta.fiat = Absent
  BY DEF NoDelta, Plain
<1>3. \A p \in Executors : OwnWorth(p)
  BY <1>1, <1>2 DEF OwnWorth, Working, Worth, CoinOf, FiatOf, Outstanding, Positive, Absent
<1>4. HistoryWorth /\ PaymentsWorth /\ PaymentsAsked
  BY <1>1 DEF HistoryWorth, PaymentsWorth, PaymentsAsked, Payments
<1> QED
  BY <1>3, <1>4 DEF WorthInv

LEMMA PaymentsKept ==
    ASSUME PaymentsWorth, TakenKept, bank' = bank
    PROVE  PaymentsWorth'
<1> SUFFICES ASSUME NEW i \in Payments PROVE FiatOf(bank[i].amount)'
  BY DEF PaymentsWorth, Payments
<1> QED
  BY DEF PaymentsWorth, TakenKept, FiatOf

LEMMA WorthStart ==
    ASSUME TypeInv, TypeInv', PlaceInv, WorthInv, TakenKept,
           NEW p \in Executors, Start(p)
    PROVE  WorthInv'
<1>1. /\ pc[p] = "idle" /\ Current(p)' = InitialSnapshot
      /\ delta' = delta /\ OthersSame(p) /\ stored' = stored /\ bank' = bank
  BY StartStep DEF store, world
<1>2. InitialSnapshot.coin = Absent /\ InitialSnapshot.fiat = Absent
  BY DEF InitialSnapshot
<1>3. StoredKept
  BY <1>1 DEF StoredKept
<1>4. delta'[p] = NoDelta
  BY <1>1 DEF PlaceInv, Placed
<1>5. Worth(Current(p))' /\ ~ Outstanding(Current(p).coin)'
  BY <1>1, <1>2 DEF Worth, CoinOf, FiatOf, Outstanding, Positive, Absent
<1>6. OwnWorth(p)'
  BY <1>4, <1>5, NothingWorth DEF OwnWorth
<1>7. \A q \in Executors \ {p} : OwnWorth(q)'
  BY <1>1, <1>3, OwnKept DEF WorthInv, OthersSame
<1> QED
  BY <1>1, <1>6, <1>7, HistoryKept, PaymentsKept DEF WorthInv

\* A snapshot of worth, and a delta of worth applied to it.
LEMMA ReducedWorth ==
    ASSUME NEW s, NEW d, NEW name, NEW i, Worth(s), Worth(d)
    PROVE  Worth(Reduced(s, name, d, i))
  BY DEF Reduced, Merged, Worth

LEMMA WorthReplay ==
    ASSUME TypeInv, TypeInv', PlaceInv, WorthInv, TakenKept,
           NEW p \in Executors, Replay(p)
    PROVE  WorthInv'
<1>1. PICK i \in DOMAIN stored, name \in States :
         /\ i = Len(hist[p]) /\ i <= loaded[p] /\ pc[p] = "running"
         /\ Current(p)' = Reduced(Current(p), name, stored[i], i)
         /\ delta' = delta /\ OthersSame(p) /\ stored' = stored /\ bank' = bank
  BY ReplayStep DEF store, world
<1>2. StoredKept
  BY <1>1 DEF StoredKept
<1>3. PICK s \in Snapshot : s = Current(p)
  BY <1>1, AtWork
<1>4. /\ Worth(s) /\ Worth(stored[i])
      /\ Outstanding(s.coin) => TakenBefore(s.at)
      /\ Outstanding(stored[i].coin) => TakenBefore(i)
      /\ s.at < i
  <2>1. Working(p) /\ Replaying(p)
    BY <1>1 DEF Working, Replaying
  <2> QED
    BY <1>1, <1>3, <2>1 DEF WorthInv, HistoryWorth, OwnWorth, PlaceInv, Placed
<1> DEFINE r == Reduced(s, name, stored[i], i)
<1>5. /\ r.coin \in {stored[i].coin, s.coin} /\ r.at = i /\ Worth(r)
  BY <1>4, ReducedWorth DEF Reduced, Merged
<1>6. Outstanding(r.coin) => TakenBefore(i)
  <2>1. TakenBefore(s.at) => TakenBefore(i)
    <3>1. s.at \in Nat
      BY DEF Snapshot
    <3>2. i \in Nat /\ \A j \in DOMAIN stored : j \in Nat
      <4>1. Len(stored) \in Nat /\ DOMAIN stored = 1 .. Len(stored)
        BY DEF TypeInv, TypeOK
      <4> QED
        BY <4>1
    <3> QED
      BY <1>4, <3>1, <3>2 DEF TakenBefore
  <2> QED
    BY <1>4, <1>5, <2>1
<1>7. Current(p)' = r
  BY <1>1, <1>3
<1> HIDE DEF r
<1>8. Worth(Current(p))' /\ (Outstanding(Current(p).coin) => TakenBefore(Current(p).at))'
  <2>1. Worth(Current(p))'
    BY <1>5, <1>7 DEF TakenKept, Worth, CoinOf, FiatOf
  <2>2. TakenBefore(i) => TakenBefore(i)'
    BY <1>2, BeforeKept
  <2> QED
    BY <1>5, <1>6, <1>7, <2>1, <2>2
<1>9. OwnWorth(p)'
  <2>1. delta'[p] = NoDelta
    BY <1>1 DEF PlaceInv, Placed
  <2> QED
    BY <1>8, <2>1, NothingWorth DEF OwnWorth
<1>10. \A q \in Executors \ {p} : OwnWorth(q)'
  BY <1>1, <1>2, OwnKept DEF WorthInv, OthersSame
<1> QED
  BY <1>1, <1>9, <1>10, HistoryKept, PaymentsKept DEF WorthInv

LEMMA WorthStore ==
    ASSUME TypeInv, TypeInv', PlaceInv, WorthInv, TakenKept,
           NEW p \in Executors, Store(p)
    PROVE  WorthInv'
<1>1. PICK n \in Nat, d \in Delta, name \in States :
         /\ pc[p] = "storing" /\ n = Len(stored) + 1 /\ Len(stored) \in Nat
         /\ d = delta[p] /\ delta'[p] = NoDelta
         /\ DOMAIN stored = 1 .. n - 1 /\ DOMAIN stored' = 1 .. n
         /\ \A i \in DOMAIN stored : stored'[i] = stored[i]
         /\ stored'[n] = d
         /\ Current(p)' = Reduced(Current(p), name, d, n)
         /\ OthersSame(p) /\ bank' = bank
  BY StoreStep DEF world
<1>2. StoredKept
  BY <1>1 DEF StoredKept
<1>3. PICK s \in Snapshot : s = Current(p)
  BY <1>1, AtWork
<1>4. /\ Worth(s) /\ Worth(d)
      /\ Outstanding(s.coin) => TakenBefore(s.at)
      /\ Outstanding(d.coin) => TakenBefore(n)
      /\ s.at < n
  <2>1. Working(p)
    BY <1>1 DEF Working
  <2>2. /\ Worth(s) /\ Worth(d)
        /\ Outstanding(s.coin) => TakenBefore(s.at)
        /\ Outstanding(d.coin) => TakenBefore(n)
    BY <1>1, <1>3, <2>1 DEF WorthInv, OwnWorth
  <2>3. s.at \in 0 .. Len(stored)
    BY <1>3, <2>1 DEF PlaceInv, Placed
  <2> QED
    BY <1>1, <2>2, <2>3
<1> DEFINE r == Reduced(s, name, d, n)
<1>5. /\ r.coin \in {d.coin, s.coin} /\ r.at = n /\ Worth(r)
  BY <1>4, ReducedWorth DEF Reduced, Merged
<1>6. Outstanding(r.coin) => TakenBefore(n)
  <2>1. TakenBefore(s.at) => TakenBefore(n)
    BY <1>1, <1>3, <1>4 DEF TakenBefore, Snapshot
  <2> QED
    BY <1>4, <1>5, <2>1
<1>7. Current(p)' = r
  BY <1>1, <1>3
<1> HIDE DEF r
<1>8. Worth(Current(p))' /\ (Outstanding(Current(p).coin) => TakenBefore(Current(p).at))'
  <2>1. Worth(Current(p))'
    BY <1>5, <1>7 DEF TakenKept, Worth, CoinOf, FiatOf
  <2>2. TakenBefore(n) => TakenBefore(n)'
    BY <1>2, BeforeKept
  <2> QED
    BY <1>5, <1>6, <1>7, <2>1, <2>2
<1>9. OwnWorth(p)'
  BY <1>1, <1>8, NothingWorth DEF OwnWorth
<1>10. \A q \in Executors \ {p} : OwnWorth(q)'
  BY <1>1, <1>2, OwnKept DEF WorthInv, OthersSame
<1>11. HistoryWorth'
  <2> SUFFICES ASSUME NEW j \in DOMAIN stored'
               PROVE  Worth(stored[j])' /\ (Outstanding(stored[j].coin) => TakenBefore(j))'
    BY DEF HistoryWorth
  <2>1. CASE j \in DOMAIN stored
    <3>1. stored'[j] = stored[j] /\ Worth(stored[j])
          /\ (Outstanding(stored[j].coin) => TakenBefore(j))
      BY <1>1, <2>1 DEF WorthInv, HistoryWorth
    <3>2. Worth(stored[j])'
      BY <3>1 DEF TakenKept, Worth, CoinOf, FiatOf
    <3>3. TakenBefore(j) => TakenBefore(j)'
      BY <1>2, BeforeKept
    <3> QED
      BY <3>1, <3>2, <3>3
  <2>2. CASE j = n
    <3>1. Worth(stored[n])'
      BY <1>1, <1>4 DEF TakenKept, Worth, CoinOf, FiatOf
    <3>2. TakenBefore(n) => TakenBefore(n)'
      BY <1>2, BeforeKept
    <3> QED
      BY <1>1, <1>4, <2>2, <3>1, <3>2
  <2> QED
    BY <1>1, <2>1, <2>2
<1> QED
  BY <1>1, <1>9, <1>10, <1>11, PaymentsKept DEF WorthInv

LEMMA WorthEnds ==
    ASSUME TypeInv, TypeInv', WorthInv, TakenKept, NEW p \in Executors, Ends(p)
    PROVE  WorthInv'
<1>1. /\ pc'[p] = "idle" /\ delta'[p] = NoDelta /\ OthersSame(p)
      /\ stored' = stored /\ bank' = bank
  BY IdleStep DEF Ends, store, world
<1>2. OwnWorth(p)'
  BY <1>1, NothingWorth DEF OwnWorth, Working
<1>3. StoredKept
  BY <1>1 DEF StoredKept
<1>4. \A q \in Executors \ {p} : OwnWorth(q)'
  BY <1>1, <1>3, OwnKept DEF WorthInv, OthersSame
<1> QED
  BY <1>1, <1>2, <1>4, HistoryKept, PaymentsKept DEF WorthInv

\* A beginning of the history and at most one delta that sets no amount.
LEMMA TailWorth ==
    ASSUME HistoryWorth, TakenKept, DOMAIN stored' \subseteq Int,
           \A i \in DOMAIN stored' :
              \/ /\ i \in DOMAIN stored /\ stored'[i] = stored[i]
                 /\ \A k \in DOMAIN stored : k < i => k \in DOMAIN stored' /\ stored'[k] = stored[k]
              \/ stored'[i].coin = Absent /\ stored'[i].fiat = Absent
    PROVE  HistoryWorth'
<1> SUFFICES ASSUME NEW j \in DOMAIN stored'
             PROVE  Worth(stored[j])' /\ (Outstanding(stored[j].coin) => TakenBefore(j))'
  BY DEF HistoryWorth
<1>1. CASE /\ j \in DOMAIN stored /\ stored'[j] = stored[j]
           /\ \A k \in DOMAIN stored : k < j => k \in DOMAIN stored' /\ stored'[k] = stored[k]
  <2>1. Worth(stored[j]) /\ (Outstanding(stored[j].coin) => TakenBefore(j))
    BY <1>1 DEF HistoryWorth
  <2>2. Worth(stored[j])'
    BY <1>1, <2>1 DEF TakenKept, Worth, CoinOf, FiatOf
  <2>3. TakenBefore(j) => TakenBefore(j)'
    BY <1>1 DEF TakenBefore, TakenKept
  <2> QED
    BY <1>1, <2>1, <2>2, <2>3
<1>2. CASE stored'[j].coin = Absent /\ stored'[j].fiat = Absent
  BY <1>2 DEF Worth, CoinOf, FiatOf, Outstanding, Positive, Absent
<1> QED
  BY <1>1, <1>2

\* In a graph funded by the client's coin, a callback computes what is worth a
\* transaction that moved coin: waitCoin what has arrived, which the container
\* does not hold yet, and toFiat what that buys.
LEMMA ComputesWorth ==
    ASSUME TypeInv, CoinInv, CoinTakenOnce, PlaceInv, WorthInv, CoinFunded(kind),
           NEW p \in Executors, pc[p] = "running", NEW d \in Delta,
           Calls(p, d.type), d.type \in Callbacks, Books(p, d)
    PROVE  Worth(d) /\ (Outstanding(d.coin) => TakenBefore(Len(stored) + 1))
<1>1. /\ Runs(kind, d.type)
      /\ d.type \notin {"toCoin", "sendCoin", "depositFiat", "depositFiatManual",
                        "handleWaitError"}
  BY CallRuns DEF CoinFunded, Callbacks
<1>2. PICK s \in Snapshot : s = Current(p)
  BY AtWork
<1>3. /\ Worth(s) /\ (Outstanding(s.coin) => TakenBefore(s.at))
      /\ s.delta.hash # 0 => s.at \in DOMAIN stored /\ stored[s.at].hash = s.delta.hash
  BY <1>2 DEF WorthInv, OwnWorth, PlaceInv, Placed, Working
<1>4. /\ ~ Outstanding(Absent) /\ ~ Outstanding(0)
      /\ ~ Positive(Absent) /\ ~ Positive(0)
  BY DEF Outstanding, Positive, Absent
<1>5. CASE Sets(d, Absent, Absent) \/ Sets(d, Absent, 0)
  BY <1>4, <1>5 DEF Sets, Worth, CoinOf, FiatOf
<1>6. ASSUME s.delta.hash # 0, txs[s.delta.hash].status = "mined",
             Sets(d, CoinAfter(s, txs[s.delta.hash]), Absent)
      PROVE  Worth(d) /\ (Outstanding(d.coin) => TakenBefore(Len(stored) + 1))
  <2> DEFINE h == s.delta.hash
  <2>1. /\ h \in DOMAIN txs /\ txs[h] \in TxRecord
        /\ s.coin \in Int /\ Len(stored) \in Nat /\ DOMAIN stored = 1 .. Len(stored)
    <3>1. h \in 0 .. Len(txs) /\ DOMAIN txs = 1 .. Len(txs) /\ txs \in Seq(TxRecord)
      BY <1>2, AtWork
    <3>2. s.coin \in Int /\ Len(stored) \in Nat
      BY <1>2, AtWork
    <3>3. DOMAIN stored = 1 .. Len(stored)
      BY DEF TypeInv, TypeOK
    <3> QED
      BY <1>6, <3>1, <3>2, <3>3
  <2>2. txs[h].kind # "exactTransfer"
    <3>1. ~ Runs(kind, "sendCoin") /\ Caller["exactTransfer"] = "sendCoin"
      BY DEF CoinFunded, Caller
    <3> QED
      BY <2>1, <3>1 DEF CoinInv, AskedFor
  <2>3. CASE txs[h].moved = 0
    <3>1. Sets(d, Absent, Absent)
      BY <1>6, <2>3 DEF CoinAfter
    <3> QED
      BY <1>4, <3>1 DEF Sets, Worth, CoinOf, FiatOf
  <2>4. CASE txs[h].moved # 0
    <3>1. h \in Taken
      BY <2>1, <2>2, <2>4 DEF Taken, TxRecord
    <3>2. s.at \in DOMAIN stored /\ stored[s.at].hash = h
      BY <1>3, <1>6
    <3>3. ~ Outstanding(s.coin)
      <4> SUFFICES ASSUME Outstanding(s.coin) PROVE FALSE
        OBVIOUS
      <4>1. PICK i \in DOMAIN stored : i < s.at /\ stored[i].hash \in Taken
        BY <1>3 DEF TakenBefore
      <4>2. stored[i].hash = h
        BY <3>1, <4>1 DEF CoinTakenOnce, Taken
      <4>3. i = s.at
        BY <1>6, <3>2, <4>1, <4>2 DEF PlaceInv, HashOnce
      <4> QED
        BY <2>1, <4>1, <4>3
    <3>4. Balance(s.coin) = 0
      BY <3>3 DEF Outstanding, Balance
    <3>5. d.coin = txs[h].moved /\ d.fiat = Absent
      BY <1>6, <2>1, <2>2, <2>4, <3>4 DEF CoinAfter, Sets, TxRecord
    <3>6. TakenBefore(Len(stored) + 1)
      BY <2>1, <3>1, <3>2 DEF TakenBefore
    <3> QED
      BY <1>4, <3>1, <3>5, <3>6 DEF Worth, CoinOf, FiatOf
  <2> QED
    BY <2>3, <2>4
<1>7. ASSUME Outstanding(s.coin), NEW r \in Rates, Sets(d, 0, s.coin * r)
      PROVE  Worth(d) /\ (Outstanding(d.coin) => TakenBefore(Len(stored) + 1))
  BY <1>3, <1>4, <1>7 DEF Sets, Worth, CoinOf, FiatOf
<1> QED
  BY <1>1, <1>2, <1>5, <1>6, <1>7 DEF Books

LEMMA WorthAnswered ==
    ASSUME TypeInv, TypeInv', CoinInv, CoinTakenOnce, PlaceInv, WorthInv,
           CoinFunded(kind), TakenKept,
           NEW p \in Executors, NEW d \in Delta, Answered(p, d)
    PROVE  WorthInv'
<1>1. /\ pc'[p] = "storing" /\ delta'[p] = d /\ hist' = hist /\ stored' = stored
      /\ OthersSame(p) /\ pc[p] = "running"
  BY ReturnStep DEF Answered
<1>2. /\ Calls(p, d.type) /\ d.type \in Callbacks /\ Books(p, d)
      /\ d.type # "depositFiat"
  <2>1. Calls(p, d.type) /\ d.type \in Callbacks /\ Books(p, d)
    BY DEF Answered, Answer
  <2>2. Runs(kind, d.type)
    BY <2>1, CallRuns DEF Callbacks
  <2> QED
    BY <2>1, <2>2 DEF CoinFunded
<1>3. StoredKept
  BY <1>1 DEF StoredKept
<1>4. Worth(d) /\ (Outstanding(d.coin) => TakenBefore(Len(stored) + 1))
  BY <1>1, <1>2, ComputesWorth
<1>5. OwnWorth(p)'
  <2>1. Worth(delta[p])'
    BY <1>1, <1>4 DEF TakenKept, Worth, CoinOf, FiatOf
  <2>2. (Outstanding(delta[p].coin) => TakenBefore(Len(stored) + 1))'
    <3>1. PICK n : n = Len(stored) + 1
      OBVIOUS
    <3>2. TakenBefore(n) => TakenBefore(n)'
      BY <1>3, BeforeKept
    <3> QED
      BY <1>1, <1>4, <3>1, <3>2
  <2>3. Current(p)' = Current(p) /\ Working(p)
    BY <1>1 DEF Current, Working
  <2>4. Worth(Current(p))'
    BY <2>3 DEF WorthInv, OwnWorth, TakenKept, Worth, CoinOf, FiatOf
  <2>5. (Outstanding(Current(p).coin) => TakenBefore(Current(p).at))'
    <3>1. PICK n : n = Current(p).at
      OBVIOUS
    <3>2. TakenBefore(n) => TakenBefore(n)'
      BY <1>3, BeforeKept
    <3>3. Outstanding(Current(p).coin) => TakenBefore(n)
      BY <2>3, <3>1 DEF WorthInv, OwnWorth
    <3> QED
      BY <2>3, <3>1, <3>2, <3>3
  <2> QED
    BY <2>1, <2>2, <2>4, <2>5 DEF OwnWorth
<1>6. \A q \in Executors \ {p} : OwnWorth(q)'
  BY <1>1, <1>3, OwnKept DEF WorthInv, OthersSame
<1>7. PaymentsWorth'
  <2>1. CASE bank' = bank
    BY <2>1, PaymentsKept DEF WorthInv
  <2>2. CASE PaysFor(p, d)
    <3>1. PICK b \in BankRecord : /\ bank' = Append(bank, b) /\ txs' = txs
                                 /\ Positive(Current(p).fiat) /\ b.amount = Current(p).fiat
      BY <1>2, <2>2 DEF PaysFor
    <3>2. FiatOf(b.amount)'
      <4>1. FiatOf(Current(p).fiat)
        BY <1>1 DEF WorthInv, OwnWorth, Working, Worth
      <4> QED
        BY <3>1, <4>1 DEF FiatOf, Taken
    <3>3. bank \in Seq(BankRecord)
      BY DEF TypeInv, TypeOK
    <3>4. \A i \in DOMAIN bank' : \/ i \in DOMAIN bank /\ bank'[i] = bank[i]
                                  \/ bank'[i] = b
      <4>1. /\ DOMAIN bank = 1 .. Len(bank) /\ DOMAIN bank' = 1 .. Len(bank) + 1
            /\ \A i \in 1 .. Len(bank) : bank'[i] = bank[i]
            /\ bank'[Len(bank) + 1] = b /\ Len(bank) \in Nat
        BY <3>1, <3>3, Appended
      <4> QED
        BY <4>1
    <3> SUFFICES ASSUME NEW i \in Payments' PROVE FiatOf(bank[i].amount)'
      BY DEF PaymentsWorth
    <3>5. CASE i \in DOMAIN bank /\ bank'[i] = bank[i]
      <4>1. FiatOf(bank[i].amount)
        BY <3>5 DEF WorthInv, PaymentsWorth, Payments
      <4> QED
        BY <3>5, <4>1 DEF TakenKept, FiatOf
    <3>6. CASE bank'[i] = b
      BY <3>2, <3>6
    <3> QED
      BY <3>4, <3>5, <3>6 DEF Payments
  <2> QED
    BY <2>1, <2>2 DEF Answered, Answer, MovesNone, SendsFor
<1> QED
  BY <1>1, <1>5, <1>6, <1>7, HistoryKept DEF WorthInv

LEMMA WorthOutside ==
    ASSUME TypeInv, TypeInv', PlaceInv, WorthInv, TakenKept, OutsideStep
    PROVE  WorthInv'
<1>1. bank' = bank /\ \A q \in Executors : Same(q)
  BY OutsideHistory
<1>2. PaymentsWorth'
  BY <1>1, PaymentsKept DEF WorthInv
<1>3. CASE stored' = stored
  <2>1. StoredKept
    BY <1>3 DEF StoredKept
  <2>2. \A q \in Executors : OwnWorth(q)'
    BY <1>1, <2>1, OwnKept DEF WorthInv
  <2> QED
    BY <1>2, <1>3, <2>2, HistoryKept DEF WorthInv
<1>4. ASSUME NEW d \in Delta, d.coin = Absent, d.fiat = Absent, stored' = Append(stored, d)
      PROVE  WorthInv'
  <2>1. /\ DOMAIN stored = 1 .. Len(stored) /\ DOMAIN stored' = 1 .. Len(stored) + 1
        /\ \A i \in 1 .. Len(stored) : stored'[i] = stored[i]
        /\ stored'[Len(stored) + 1] = d /\ Len(stored) \in Nat
    BY <1>4, Appended DEF TypeInv, TypeOK
  <2>2. StoredKept
    BY <2>1 DEF StoredKept
  <2>3. \A q \in Executors : OwnWorth(q)'
    BY <1>1, <2>2, OwnKept DEF WorthInv
  <2>4. HistoryWorth'
    <3>1. DOMAIN stored' \subseteq Int
      BY <2>1
    <3>2. \A i \in DOMAIN stored' :
             \/ /\ i \in DOMAIN stored /\ stored'[i] = stored[i]
                /\ \A k \in DOMAIN stored : k < i => k \in DOMAIN stored' /\ stored'[k] = stored[k]
             \/ stored'[i].coin = Absent /\ stored'[i].fiat = Absent
      BY <1>4, <2>1
    <3> QED
      BY <3>1, <3>2, TailWorth DEF WorthInv
  <2> QED
    BY <1>2, <2>3, <2>4 DEF WorthInv
<1>5. CASE ETransferReturned
  <2>0. PICK n : n = Len(stored)
    OBVIOUS
  <2>1. /\ DOMAIN stored' = 1 .. n - 1 /\ n \in Nat
        /\ \A i \in 1 .. n - 2 : i \in DOMAIN stored /\ stored'[i] = stored[i]
        /\ stored'[n - 1].coin = Absent /\ stored'[n - 1].fiat = Absent
    BY <1>5, <2>0, ReturnedTail DEF TypeInv, TypeOK
  <2>2. HistoryWorth'
    <3>1. DOMAIN stored' \subseteq Int
      BY <2>1
    <3>2. DOMAIN stored = 1 .. n
      BY <2>0 DEF TypeInv, TypeOK
    <3>3. \A i \in DOMAIN stored' : i \in 1 .. n - 2 \/ i = n - 1
      BY <2>1
    <3>4. \A i \in 1 .. n - 2 : \A k \in DOMAIN stored :
             k < i => k \in 1 .. n - 2 /\ k \in DOMAIN stored'
      BY <2>1, <3>2
    <3>5. \A i \in 1 .. n - 2 :
             /\ i \in DOMAIN stored /\ stored'[i] = stored[i]
             /\ \A k \in DOMAIN stored : k < i => k \in DOMAIN stored' /\ stored'[k] = stored[k]
      BY <2>1, <3>4
    <3>6. \A i \in DOMAIN stored' :
             \/ /\ i \in DOMAIN stored /\ stored'[i] = stored[i]
                /\ \A k \in DOMAIN stored : k < i => k \in DOMAIN stored' /\ stored'[k] = stored[k]
             \/ stored'[i].coin = Absent /\ stored'[i].fiat = Absent
      BY <2>1, <3>3, <3>5
    <3> QED
      BY <3>1, <3>6, TailWorth DEF WorthInv
  <2>3. \A q \in Executors : pc[q] = "idle"
    BY <1>5 DEF ETransferReturned
  <2>4. \A q \in Executors : OwnWorth(q)'
    <3> SUFFICES ASSUME NEW q \in Executors PROVE OwnWorth(q)'
      OBVIOUS
    <3>1. pc'[q] = "idle" /\ delta'[q] = NoDelta
      BY <1>1, <2>3 DEF Same, PlaceInv, Placed
    <3> QED
      BY <3>1, NothingWorth DEF OwnWorth, Working
  <2> QED
    BY <1>2, <2>2, <2>4 DEF WorthInv
<1> QED
  BY <1>3, <1>4, <1>5, OutsideHistory

LEMMA WorthStep ==
    ASSUME OneRequest, TypeInv, TypeInv', CoinInv, PlaceInv, WorthInv,
           CoinFunded(kind), [Next]_vars
    PROVE  WorthInv'
<1>1. TakenKept
  BY TakenGrows
<1>2. CoinTakenOnce
  BY CoinImplies
<1>3. CASE \E p \in Executors : Start(p) \/ Replay(p) \/ Store(p) \/ Ends(p)
  BY <1>1, <1>3, WorthStart, WorthReplay, WorthStore, WorthEnds
<1>4. CASE \E p \in Executors : \E d \in Delta : Answered(p, d)
  BY <1>1, <1>2, <1>4, WorthAnswered
<1>5. CASE OutsideStep
  BY <1>1, <1>5, WorthOutside
<1> QED
  BY <1>3, <1>4, <1>5, StepCases

\* The bank is only asked for payments the graph asks for.
LEMMA AskedStep ==
    ASSUME TypeInv, PaymentsAsked, [Next]_vars
    PROVE  PaymentsAsked'
<1>1. kind' = kind
  BY StepTxs
<1>2. CASE bank' = bank
  BY <1>1, <1>2 DEF PaymentsAsked, Payments, Runs
<1>3. ASSUME NEW p \in Executors, NEW d \in Delta, Answered(p, d), PaysFor(p, d)
      PROVE  PaymentsAsked'
  <2>1. PICK b \in BankRecord :
           /\ bank' = Append(bank, b)
           /\ b.kind \in {"payBill", "sendETransfer"} => b.kind = d.type /\ Positive(b.amount)
    BY <1>3 DEF PaysFor
  <2>2. Runs(kind, d.type)
    BY <1>3, CallRuns DEF Answered, Answer, Callbacks
  <2>3. \A i \in DOMAIN bank' : (i \in DOMAIN bank /\ bank'[i] = bank[i]) \/ bank'[i] = b
    <3>1. /\ DOMAIN bank = 1 .. Len(bank) /\ DOMAIN bank' = 1 .. Len(bank) + 1
          /\ \A i \in 1 .. Len(bank) : bank'[i] = bank[i]
          /\ bank'[Len(bank) + 1] = b /\ Len(bank) \in Nat
      BY <2>1, Appended DEF TypeInv, TypeOK
    <3> QED
      BY <3>1
  <2> QED
    BY <1>1, <2>1, <2>2, <2>3 DEF PaymentsAsked, Payments, Runs
<1>4. CASE \E p \in Executors : Start(p) \/ Replay(p) \/ Store(p) \/ Ends(p)
  <2>1. bank' = bank
    BY <1>4 DEF Start, Replay, Store, Ends, world
  <2> QED
    BY <1>2, <2>1
<1>5. CASE \E p \in Executors : \E d \in Delta : Answered(p, d)
  BY <1>2, <1>3, <1>5 DEF Answered, Answer, MovesNone, SendsFor
<1>6. CASE OutsideStep
  BY <1>2, <1>6, OutsideHistory
<1> QED
  BY <1>4, <1>5, <1>6, StepCases

\* In every graph that pays from the client's coin alone (a bill's does, a
\* sale's does not, it can be reverted), the broker pays what a transaction
\* that was mined has brought, at some rate: whoever executes the action at
\* the same time, with whatever crashes, stale histories and overrides.
THEOREM PaidOnTransfer ==
    OneRequest /\ (\A k \in DOMAIN Graphs : PaysFromCoin(k))
       => (Spec => []PaidOnlyAfterCoin)
<1> SUFFICES ASSUME OneRequest, \A k \in DOMAIN Graphs : PaysFromCoin(k)
             PROVE  Spec => []PaidOnlyAfterCoin
  OBVIOUS
<1> DEFINE Inv == TypeInv /\ CoinInv /\ PlaceInv /\ FundInv
<1>1. Init => Inv
  BY TypeInit, CoinInit, PlaceInit, WorthInit DEF FundInv
<1>2. Inv /\ [Next]_vars => Inv'
  <2> SUFFICES ASSUME Inv, [Next]_vars PROVE Inv'
    OBVIOUS
  <2>1. TypeInv' /\ CoinInv' /\ PlaceInv'
    BY TypeStep, CoinStep, PlaceStep
  <2>2. PaymentsAsked'
    BY AskedStep DEF FundInv
  <2>3. CoinFunded(kind)' => WorthInv'
    <3>1. kind' = kind
      BY StepTxs
    <3>2. CoinFunded(kind)' <=> CoinFunded(kind)
      BY <3>1 DEF CoinFunded, Runs
    <3> QED
      BY <2>1, <3>2, WorthStep DEF FundInv
  <2> QED
    BY <2>1, <2>2, <2>3 DEF FundInv
<1>3. Inv => PaidOnlyAfterCoin
  <2> SUFFICES ASSUME Inv, NEW i \in Payments
               PROVE  \E h \in DOMAIN txs :
                         /\ txs[h].kind # "exactTransfer" /\ txs[h].status = "mined"
                         /\ \E r \in Rates : bank[i].amount = txs[h].moved * r
    BY DEF PaidOnlyAfterCoin
  <2>1. CoinFunded(kind)
    <3>1. Runs(kind, "payBill") \/ Runs(kind, "sendETransfer")
      BY DEF FundInv, PaymentsAsked, Payments
    <3> QED
      BY <3>1 DEF PaysFromCoin, TypeInv, TypeOK
  <2>2. FiatOf(bank[i].amount)
    BY <2>1 DEF FundInv, WorthInv, PaymentsWorth
  <2>3. Positive(bank[i].amount)
    BY DEF FundInv, PaymentsAsked
  <2>4. PICK h \in Taken, r \in Rates : bank[i].amount = txs[h].moved * r
    BY <2>2, <2>3 DEF FiatOf
  <2> QED
    BY <2>4 DEF Taken, CoinInv, MovedMined
<1> QED
  BY <1>1, <1>2, <1>3, PTL DEF Spec
=============================================================================
