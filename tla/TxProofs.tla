------------------------------ MODULE TxProofs ------------------------------
(***************************************************************************)
(* Theorems about every graph, every set of executors and every bound.     *)
(*                                                                         *)
(* The argument has two layers.  A transition, whichever callback it runs, *)
(* has one of three shapes (TransitionShape): it does nothing outside, or  *)
(* it submits one transaction, or it has the bank move money once; the     *)
(* last two under the lock the container ends in.  The two invariants      *)
(* (TypeInv, LockInv) are then preserved by that shape and by the steps of *)
(* the machine and of the environment.                                     *)
(***************************************************************************)
EXTENDS TxProperties, TLAPS

(***************************************************************************)
(* Every hash an executor or the history holds is that of a submitted      *)
(* transaction: waitCoin always asks for one that exists.                  *)
(***************************************************************************)
HashesKnown ==
    /\ \A i \in DOMAIN stored : stored[i].hash \in 0 .. Len(txs)
    /\ \A p \in Executors : /\ delta[p].hash \in 0 .. Len(txs)
                            /\ \A i \in DOMAIN hist[p] :
                                  hist[p][i].delta.hash \in 0 .. Len(txs)

\* What an executor replays is in the history.
LoadedStored == \A p \in Executors : Working(p) => loaded[p] <= Len(stored)

TypeInv == TypeOK /\ HashesKnown /\ LoadedStored /\ FreshLocks

-----------------------------------------------------------------------------
LEMMA Appended ==
    ASSUME NEW S, NEW s \in Seq(S), NEW e \in S
    PROVE  /\ Append(s, e) \in Seq(S)
           /\ Len(s) \in Nat /\ Len(Append(s, e)) = Len(s) + 1
           /\ DOMAIN s = 1 .. Len(s)
           /\ DOMAIN Append(s, e) = 1 .. Len(s) + 1
           /\ \A i \in 1 .. Len(s) : Append(s, e)[i] = s[i]
           /\ Append(s, e)[Len(s) + 1] = e
           /\ Append(s, e) # << >>
<1>1. /\ Append(s, e) \in Seq(S)
      /\ Len(s) \in Nat /\ Len(Append(s, e)) = Len(s) + 1
      /\ DOMAIN s = 1 .. Len(s)
      /\ DOMAIN Append(s, e) = 1 .. Len(s) + 1
  OBVIOUS
<1>2. /\ \A i \in 1 .. Len(s) : Append(s, e)[i] = s[i]
      /\ Append(s, e)[Len(s) + 1] = e
  OBVIOUS
<1>3. ASSUME Append(s, e) = << >>
      PROVE  FALSE
  <2>1. Len(<< >>) = 0
    OBVIOUS
  <2> QED BY <1>1, <1>3, <2>1
<1> QED BY <1>1, <1>2, <1>3

-----------------------------------------------------------------------------
(* Deltas and snapshots have their types.                                  *)

LEMMA PlainType ==
    ASSUME NEW t \in Types
    PROVE  /\ Plain(t) \in Delta
           /\ Plain(t).hash = 0
           /\ \A e \in Errors : Failed(t, e) \in Delta /\ Failed(t, e).hash = 0
<1>1. "" \in Errors /\ "" \in States /\ Absent \in Amount
  BY DEF Errors, States, Absent, Amount
<1>2. Plain(t) \in Delta
  BY <1>1 DEF Plain, Delta
<1>3. Plain(t).hash = 0
  BY DEF Plain
<1>4. ASSUME NEW e \in Errors
      PROVE  Failed(t, e) \in Delta /\ Failed(t, e).hash = 0
  <2>1. Failed(t, e) \in Delta
    BY <1>2 DEF Failed, Delta
  <2>2. Failed(t, e).hash = 0
    BY DEF Failed, Plain
  <2> QED BY <2>1, <2>2
<1> QED BY <1>2, <1>3, <1>4

LEMMA SetAmounts ==
    ASSUME NEW d \in Delta, NEW a \in Amount, NEW b \in Amount
    PROVE  /\ [d EXCEPT !.coin = a] \in Delta /\ [d EXCEPT !.coin = a].hash = d.hash
           /\ [d EXCEPT !.fiat = a] \in Delta /\ [d EXCEPT !.fiat = a].hash = d.hash
           /\ [d EXCEPT !.coin = a, !.fiat = b] \in Delta
           /\ [d EXCEPT !.coin = a, !.fiat = b].hash = d.hash
           /\ [d EXCEPT !.fiat = a, !.coin = b] \in Delta
           /\ [d EXCEPT !.fiat = a, !.coin = b].hash = d.hash
  BY DEF Delta

LEMMA InitialType == InitialSnapshot \in Snapshot /\ InitialSnapshot.delta.hash = 0
<1>1. "no prior state" \in Types /\ "initial" \in States /\ Absent \in Amount
  BY DEF Types, States, Absent, Amount
<1> QED BY <1>1, PlainType DEF InitialSnapshot, Snapshot

LEMMA ReducedType ==
    ASSUME NEW s \in Snapshot, NEW name \in States, NEW d \in Delta, NEW i \in Nat
    PROVE  Reduced(s, name, d, i) \in Snapshot
  BY DEF Reduced, Merged, Snapshot, Delta, Amount

LEMMA EdgeType == \A e \in Edge : e.to \in States
<1> SUFFICES ASSUME NEW e \in Edge PROVE e.to \in States
  OBVIOUS
<1>1. CASE e \in [run : Callbacks, to : States]
  BY <1>1
<1>2. CASE e = NoEdge
  BY <1>2 DEF NoEdge, States
<1> QED BY <1>1, <1>2 DEF Edge

LEMMA GraphType ==
    ASSUME kind \in DOMAIN Graphs
    PROVE  /\ \A s \in DOMAIN Graph \cup Offered[kind] : s \in States
           /\ \A s \in DOMAIN Graph : Graph[s].next \in Edge /\ Graph[s].onError \in Edge
<1>1. ASSUME NEW s \in DOMAIN Graphs[kind] \cup Offered[kind]
      PROVE  s \in Named
  BY <1>1 DEF Named
<1>2. \A s \in DOMAIN Graphs[kind] :
         Graphs[kind][s].next \in Edge /\ Graphs[kind][s].onError \in Edge
  BY MachineAssumption DEF MachineAssumption
<1> QED BY <1>1, <1>2 DEF Graph, States

LEMMA CurrentType ==
    ASSUME TypeOK, NEW p \in Executors, pc[p] # "idle"
    PROVE  /\ Current(p) \in Snapshot
           /\ Len(hist[p]) \in DOMAIN hist[p]
           /\ Chosen(p) \in Edge
<1>1. hist[p] \in Seq(Snapshot) /\ hist[p] # << >>
  BY DEF TypeOK
<1>2. Len(hist[p]) \in DOMAIN hist[p] /\ Current(p) \in Snapshot
  BY <1>1 DEF Current
<1>3. Chosen(p) \in Edge
  BY <1>2, GraphType DEF Chosen, Edge, TypeOK
<1> QED BY <1>2, <1>3

LEMMA AtWork ==
    ASSUME TypeInv, NEW p \in Executors, pc[p] # "idle"
    PROVE  /\ txs \in Seq(TxRecord) /\ Len(txs) \in Nat /\ DOMAIN txs = 1 .. Len(txs)
           /\ bank \in Seq(BankRecord)
           /\ stored \in Seq(Delta) /\ Len(stored) \in Nat
           /\ listed \in BOOLEAN
           /\ hist[p] \in Seq(Snapshot)
           /\ Current(p) \in Snapshot
           /\ Current(p).at \in Nat
           /\ Current(p).coin \in Int /\ Current(p).fiat \in Int
           /\ Current(p).delta \in Delta
           /\ Current(p).delta.hash \in 0 .. Len(txs)
           /\ Chosen(p) \in Edge
<1>1. TypeOK
  BY DEF TypeInv
<1>2. /\ txs \in Seq(TxRecord) /\ Len(txs) \in Nat /\ DOMAIN txs = 1 .. Len(txs)
      /\ bank \in Seq(BankRecord)
      /\ stored \in Seq(Delta) /\ Len(stored) \in Nat
      /\ listed \in BOOLEAN
      /\ hist[p] \in Seq(Snapshot)
  BY <1>1 DEF TypeOK
<1>3. /\ Current(p) \in Snapshot
      /\ Len(hist[p]) \in DOMAIN hist[p]
      /\ Chosen(p) \in Edge
  BY <1>1, CurrentType
<1>4. /\ Current(p).at \in Nat
      /\ Current(p).coin \in Int /\ Current(p).fiat \in Int
      /\ Current(p).delta \in Delta
  BY <1>3 DEF Snapshot, Amount
<1>5. Current(p).delta.hash \in 0 .. Len(txs)
  BY <1>2, <1>3, <1>4 DEF TypeInv, HashesKnown, Current, Delta
<1> QED BY <1>2, <1>3, <1>4, <1>5

-----------------------------------------------------------------------------
(* The shape of a transition.                                              *)

\* The callback returned null, or a delta that names no unknown transaction.
Answers(p) == \/ ReturnsNull(p)
              \/ \E d \in Delta : Returns(p, d) /\ d.hash \in 0 .. Len(txs')

Quiet == UNCHANGED <<txs, bank>>

\* One transaction was submitted, under the lock the container ends in.
Sends(p) == /\ LockHeld(p)
            /\ pc' = [pc EXCEPT ![p] = "storing"]
            /\ \E tx \in TxRecord : tx.lock = Current(p).at /\ txs' = Append(txs, tx)
            /\ bank' = bank

\* The bank moved money once, under the lock if the callback verifies it.
Pays(p) == /\ LockHeld(p) \/ Chosen(p).run = "sendETransfer"
           /\ pc' = [pc EXCEPT ![p] = "storing"]
           /\ \E b \in BankRecord : b.lock = Current(p).at /\ bank' = Append(bank, b)
           /\ txs' = txs

Shape(p) == /\ pc[p] = "running"
            /\ Answers(p)
            /\ settled' = settled
            /\ listed' \in BOOLEAN
            /\ Quiet \/ Sends(p) \/ Pays(p)

LEMMA QuietShape ==
    ASSUME TypeInv, NEW p \in Executors, pc[p] = "running",
           NEW d \in Delta, d.hash \in 0 .. Len(txs), Returns(p, d),
           UNCHANGED <<txs, bank, settled>>, listed' \in BOOLEAN
    PROVE  Shape(p)
  BY DEF Shape, Answers, Quiet

LEMMA PlainShape ==
    ASSUME TypeInv, NEW p \in Executors, pc[p] = "running",
           NEW t \in Types, Returns(p, Plain(t)),
           UNCHANGED <<txs, bank, settled>>, listed' \in BOOLEAN
    PROVE  Shape(p)
<1>1. Plain(t) \in Delta /\ Plain(t).hash = 0
  BY PlainType
<1>2. Len(txs) \in Nat
  BY DEF TypeInv, TypeOK
<1>3. Plain(t).hash \in 0 .. Len(txs)
  BY <1>1, <1>2
<1> QED BY <1>1, <1>3, QuietShape

LEMMA NullShape ==
    ASSUME TypeInv, NEW p \in Executors, pc[p] = "running", ReturnsNull(p),
           UNCHANGED <<world, listed>>
    PROVE  Shape(p)
<1>1. listed \in BOOLEAN
  BY DEF TypeInv, TypeOK
<1> QED BY <1>1 DEF Shape, Answers, Quiet, world

LEMMA FailsShape ==
    ASSUME TypeInv, NEW p \in Executors, pc[p] = "running",
           NEW t \in Types, NEW e \in Errors, Fails(p, t, e)
    PROVE  Shape(p)
<1>1. Failed(t, e) \in Delta /\ Failed(t, e).hash = 0
  BY PlainType
<1>2. Len(txs) \in Nat
  BY DEF TypeInv, TypeOK
<1>3. listed \in BOOLEAN
  BY DEF TypeInv, TypeOK
<1> QED BY <1>1, <1>2, <1>3, QuietShape DEF Fails, world

LEMMA FailedShape ==
    ASSUME TypeInv, NEW p \in Executors, pc[p] = "running",
           NEW t \in Types, NEW e \in Errors, Returns(p, Failed(t, e)),
           UNCHANGED <<txs, bank, settled>>, listed' \in BOOLEAN
    PROVE  Shape(p)
<1>1. Failed(t, e) \in Delta /\ Failed(t, e).hash = 0
  BY PlainType
<1>2. Len(txs) \in Nat
  BY DEF TypeInv, TypeOK
<1>3. Failed(t, e).hash \in 0 .. Len(txs)
  BY <1>1, <1>2
<1> QED BY <1>1, <1>3, QuietShape

LEMMA SendsShape ==
    ASSUME TypeInv, NEW p \in Executors, pc[p] = "running", LockHeld(p),
           NEW d \in Delta, Returns(p, d),
           NEW tx \in TxRecord, tx.lock = Current(p).at, txs' = Append(txs, tx),
           d.hash \in 0 .. Len(txs) + 1,
           UNCHANGED <<bank, settled, listed>>
    PROVE  Shape(p)
<1>1. txs \in Seq(TxRecord) /\ Len(txs) \in Nat /\ listed \in BOOLEAN
  BY AtWork
<1>2. Len(txs') = Len(txs) + 1
  BY <1>1
<1>3. Answers(p)
  BY <1>2 DEF Answers
<1>4. Sends(p)
  BY DEF Sends, Returns
<1> QED BY <1>1, <1>3, <1>4 DEF Shape

LEMMA SubmitsShape ==
    ASSUME TypeInv, NEW p \in Executors, pc[p] = "running", LockHeld(p),
           NEW t \in Types, NEW call \in TxKinds, NEW amount \in Nat,
           Submits(p, t, call, amount)
    PROVE  Shape(p)
<1> DEFINE tx == [kind |-> call, amount |-> amount, moved |-> 0,
                  status |-> "pending", lock |-> Current(p).at]
<1>1. /\ txs \in Seq(TxRecord) /\ Len(txs) \in Nat
      /\ Current(p).at \in Nat
      /\ listed \in BOOLEAN
  BY AtWork
<1>2. tx \in TxRecord /\ tx.lock = Current(p).at
  BY <1>1 DEF TxRecord
<1> HIDE DEF tx
<1>3. UNCHANGED <<bank, settled, listed>>
  BY DEF Submits
<1>4. CASE txs' = Append(txs, tx) /\ Returns(p, [Plain(t) EXCEPT !.hash = Len(txs) + 1])
  <2> DEFINE d == [Plain(t) EXCEPT !.hash = Len(txs) + 1]
  <2>1. d \in Delta
    BY <1>1, PlainType DEF Delta
  <2>2. d.hash = Len(txs) + 1
    BY DEF Plain
  <2>3. Returns(p, d)
    BY <1>4
  <2> HIDE DEF d
  <2> QED BY <1>1, <1>2, <1>3, <1>4, <2>1, <2>2, <2>3, SendsShape
<1>5. CASE txs' = Append(txs, tx) /\ Returns(p, Failed(t, "other"))
  <2>1. Failed(t, "other") \in Delta /\ Failed(t, "other").hash = 0
    BY PlainType DEF Errors
  <2> QED BY <1>1, <1>2, <1>3, <1>5, <2>1, SendsShape
<1>6. CASE txs' = txs /\ \E e \in Errors : Returns(p, Failed(t, e))
  BY <1>3, <1>6, FailsShape DEF Fails, world
<1> QED BY <1>4, <1>5, <1>6 DEF Submits, Submitted, Errors, tx

LEMMA BankShape ==
    ASSUME TypeInv, NEW p \in Executors, pc[p] = "running",
           LockHeld(p) \/ Chosen(p).run = "sendETransfer",
           NEW order \in {"payBill", "sendETransfer", "depositETransfer"},
           NEW amount \in Nat, NEW t \in Types,
           NEW confirmed \in Delta, confirmed.hash = 0,
           BankMoves(p, order, amount, t, confirmed)
    PROVE  Shape(p)
<1> DEFINE b == [kind |-> order, amount |-> amount, lock |-> Current(p).at]
<1>1. /\ Len(txs) \in Nat
      /\ Current(p).at \in Nat
      /\ listed \in BOOLEAN
  BY AtWork
<1>2. b \in BankRecord /\ b.lock = Current(p).at
  BY <1>1 DEF BankRecord
<1> HIDE DEF b
<1>3. UNCHANGED <<txs, settled, listed>>
  BY DEF BankMoves
<1>4. Failed(t, "other") \in Delta /\ Failed(t, "other").hash = 0
  BY PlainType DEF Errors
<1>5. CASE /\ bank' = Append(bank, b)
           /\ Returns(p, confirmed) \/ Returns(p, Failed(t, "other"))
  BY <1>1, <1>2, <1>3, <1>4, <1>5 DEF Shape, Answers, Pays, Returns
<1>6. CASE bank' = bank /\ Returns(p, Failed(t, "other"))
  BY <1>3, <1>6, FailsShape DEF Fails, world, Errors
<1> QED BY <1>5, <1>6 DEF BankMoves, b

\* A callback that ends in a conversion, an error or null.
LEMMA ConvertsShape ==
    ASSUME TypeInv, NEW p \in Executors, NEW t \in Types, NEW from \in Int,
           NEW converted, Converts(p, t, from, converted),
           \A d \in converted : d \in Delta /\ d.hash = 0
    PROVE  Shape(p)
<1>1. /\ pc[p] = "running"
      /\ UNCHANGED <<world, listed>>
  BY DEF Converts, Calls
<1>2. /\ Len(txs) \in Nat
      /\ listed \in BOOLEAN
  BY <1>1, AtWork
<1>3. ASSUME Returns(p, Failed(t, "other"))
      PROVE  Shape(p)
  BY <1>1, <1>3, FailsShape DEF Fails, Errors
<1>4. ASSUME NEW d \in converted, Returns(p, d)
      PROVE  Shape(p)
  BY <1>1, <1>2, <1>4, QuietShape DEF world
<1>5. ASSUME ReturnsNull(p)
      PROVE  Shape(p)
  BY <1>1, <1>5, NullShape
<1> QED BY <1>3, <1>4, <1>5 DEF Converts

\* Whatever callback runs, the transition has that shape.
LEMMA TransitionShape ==
    ASSUME TypeInv, NEW p \in Executors, Transition(p)
    PROVE  Shape(p)
<1>1. pc[p] = "running"
  BY DEF Transition, Calls, Verified, Converts, PreTransfer, DepositCoin,
         UberDepositCoin, UberWaitPending, UberClearPending, SendCoin,
         HandleRequest, WaitCoin, ToFiat, ToCoin, MarkComplete, RequestManual,
         ManualOverride, PayBill, RetryRegisterTx, SendETransfer, WaitETransfer,
         HandleWaitError, LabelEmail, DepositFiat, DepositFiatManual
<1>2. \A t \in Callbacks : t \in Types
  BY DEF Types
<1>3. Errors = {"", "reverted", "returned", "database", "other"}
  BY DEF Errors
<1>4. /\ txs \in Seq(TxRecord) /\ Len(txs) \in Nat /\ DOMAIN txs = 1 .. Len(txs)
      /\ listed \in BOOLEAN
      /\ hist[p] \in Seq(Snapshot)
      /\ Current(p).coin \in Int /\ Current(p).fiat \in Int
      /\ Current(p).delta \in Delta
      /\ Current(p).delta.hash \in 0 .. Len(txs)
  BY <1>1, AtWork
<1>5. Value \in Nat
  BY WorldAssumption DEF WorldAssumption
<1>6. CASE PreTransfer(p)
  <2>1. "preTransfer" \in Types
    BY DEF Types, Callbacks
  <2> QED BY <1>1, <1>4, <1>6, <2>1, PlainShape DEF PreTransfer, world
<1>7. CASE DepositCoin(p)
  <2>1. "depositCoin" \in Types /\ "certifiedTransfer" \in TxKinds
    BY DEF Types, Callbacks, TxKinds
  <2> QED BY <1>1, <1>3, <1>5, <1>7, <2>1, FailsShape, SubmitsShape
          DEF DepositCoin, Verified
<1>8. CASE UberDepositCoin(p)
  <2>1. "uberDepositCoin" \in Types /\ "uberTransfer" \in TxKinds
    BY DEF Types, Callbacks, TxKinds
  <2> QED BY <1>1, <1>3, <1>5, <1>8, <2>1, FailsShape, SubmitsShape
          DEF UberDepositCoin, Verified
<1>9. CASE UberWaitPending(p)
  <2>1. "uberWaitPending" \in Types
    BY DEF Types, Callbacks
  <2> QED BY <1>1, <1>4, <1>9, <2>1, PlainShape, NullShape
          DEF UberWaitPending, world
<1>10. CASE UberClearPending(p)
  <2>1. "uberClearPending" \in Types /\ "processPending" \in TxKinds
    BY DEF Types, Callbacks, TxKinds
  <2> QED BY <1>1, <1>3, <1>5, <1>10, <2>1, FailsShape, SubmitsShape
          DEF UberClearPending, Verified
<1>11. CASE SendCoin(p)
  <2>1. "sendCoin" \in Types /\ "exactTransfer" \in TxKinds
    BY DEF Types, Callbacks, TxKinds
  <2>2. CASE Fails(p, "sendCoin", "other")
    BY <1>1, <1>3, <2>1, <2>2, FailsShape
  <2>3. CASE /\ LockHeld(p) /\ Positive(Current(p).coin)
             /\ Submits(p, "sendCoin", "exactTransfer", Current(p).coin)
    <3>1. Current(p).coin \in Nat
      BY <1>4, <2>3 DEF Positive
    <3> QED BY <1>1, <2>1, <2>3, <3>1, SubmitsShape
  <2> QED BY <1>11, <2>2, <2>3 DEF SendCoin, Verified
<1>12. CASE HandleRequest(p)
  <2>1. "handleRequest" \in Types /\ "pluginRequest" \in TxKinds
    BY DEF Types, Callbacks, TxKinds
  <2> QED BY <1>1, <1>3, <1>12, <2>1, FailsShape, SubmitsShape
          DEF HandleRequest, Verified
<1>13. CASE WaitCoin(p)
  <2> DEFINE h == Current(p).delta.hash
             d == [Plain("waitCoin") EXCEPT !.coin = CoinAfter(Current(p), txs[h])]
  <2>1. "waitCoin" \in Types
    BY DEF Types, Callbacks
  <2>2. UNCHANGED <<world, listed>>
    BY <1>13 DEF WaitCoin
  <2>3. CASE Returns(p, Plain("waitCoin"))
    BY <1>1, <1>4, <2>1, <2>2, <2>3, PlainShape DEF world
  <2>4. CASE Returns(p, Failed("waitCoin", "other"))
    BY <1>1, <1>3, <2>1, <2>2, <2>4, FailsShape DEF Fails
  <2>5. CASE ReturnsNull(p)
    BY <1>1, <2>2, <2>5, NullShape
  <2>6. CASE h # 0 /\ Returns(p, d)
    <3>1. txs[h] \in TxRecord
      BY <1>4, <2>6
    <3>2. CoinAfter(Current(p), txs[h]) \in Amount
      <4>1. txs[h].moved \in Int
        BY <3>1 DEF TxRecord
      <4>2. Balance(Current(p).coin) \in Int /\ Absent \in Int
        BY <1>4 DEF Balance, Absent
      <4> QED BY <4>1, <4>2 DEF CoinAfter, Amount
    <3>3. d \in Delta /\ d.hash = 0
      BY <2>1, <3>2, PlainType, SetAmounts
    <3> HIDE DEF d
    <3> QED BY <1>1, <1>4, <2>2, <2>6, <3>3, QuietShape DEF world
  <2> QED BY <1>13, <2>3, <2>4, <2>5, <2>6 DEF WaitCoin
<1>14. CASE ToFiat(p)
  <2>1. "toFiat" \in Types
    BY DEF Types, Callbacks
  <2>2. ASSUME NEW r \in Rates
        PROVE  LET d == [Plain("toFiat") EXCEPT !.coin = 0, !.fiat = Current(p).coin * r]
               IN  d \in Delta /\ d.hash = 0
    <3>1. r \in Nat /\ r > 0
      BY WorldAssumption DEF WorldAssumption
    <3>2. 0 \in Amount /\ Current(p).coin * r \in Amount
      BY <1>4, <3>1 DEF Amount
    <3>3. Plain("toFiat") \in Delta /\ Plain("toFiat").hash = 0
      BY <2>1, PlainType
    <3> DEFINE z == Plain("toFiat")
               a == Current(p).coin * r
    <3>4. z \in Delta /\ z.hash = 0 /\ a \in Amount /\ 0 \in Amount
      BY <3>2, <3>3
    <3> HIDE DEF z, a
    <3>5. /\ [z EXCEPT !.coin = 0, !.fiat = a] \in Delta
          /\ [z EXCEPT !.coin = 0, !.fiat = a].hash = 0
      BY <3>4 DEF Delta
    <3> QED BY <3>5 DEF z, a
  <2>3. \A d \in {[Plain("toFiat") EXCEPT !.coin = 0, !.fiat = Current(p).coin * r]
                     : r \in Rates} : d \in Delta /\ d.hash = 0
    BY <2>2
  <2> QED BY <1>4, <1>14, <2>1, <2>3, ConvertsShape DEF ToFiat
<1>15. CASE ToCoin(p)
  <2>1. "toCoin" \in Types
    BY DEF Types, Callbacks
  <2>2. ASSUME NEW r \in Rates
        PROVE  LET d == [Plain("toCoin") EXCEPT !.fiat = 0, !.coin = Current(p).fiat \div r]
               IN  d \in Delta /\ d.hash = 0
    <3>1. r \in Nat /\ r > 0
      BY WorldAssumption DEF WorldAssumption
    <3>2. 0 \in Amount /\ Current(p).fiat \div r \in Amount
      BY <1>4, <3>1 DEF Amount
    <3>3. Plain("toCoin") \in Delta /\ Plain("toCoin").hash = 0
      BY <2>1, PlainType
    <3> DEFINE z == Plain("toCoin")
               a == Current(p).fiat \div r
    <3>4. z \in Delta /\ z.hash = 0 /\ a \in Amount /\ 0 \in Amount
      BY <3>2, <3>3
    <3> HIDE DEF z, a
    <3>5. /\ [z EXCEPT !.fiat = 0, !.coin = a] \in Delta
          /\ [z EXCEPT !.fiat = 0, !.coin = a].hash = 0
      BY <3>4 DEF Delta
    <3> QED BY <3>5 DEF z, a
  <2>3. \A d \in {[Plain("toCoin") EXCEPT !.fiat = 0, !.coin = Current(p).fiat \div r]
                     : r \in Rates} : d \in Delta /\ d.hash = 0
    BY <2>2
  <2> QED BY <1>4, <1>15, <2>1, <2>3, ConvertsShape DEF ToCoin
<1>16. CASE MarkComplete(p)
  <2>1. "markComplete" \in Types
    BY DEF Types, Callbacks
  <2>2. /\ UNCHANGED <<txs, bank, settled>>
        /\ listed' \in BOOLEAN
        /\ \/ Returns(p, Plain("markComplete"))
           \/ Returns(p, Failed("markComplete", "other"))
           \/ Returns(p, Failed("markComplete", "database"))
    BY <1>4, <1>16 DEF MarkComplete, world
  <2> QED BY <1>1, <1>3, <2>1, <2>2, PlainShape, FailedShape
<1>17. CASE RequestManual(p)
  <2>1. "requestManual" \in Types
    BY DEF Types, Callbacks
  <2> QED BY <1>1, <1>4, <1>17, <2>1, PlainShape, NullShape
          DEF RequestManual, world
<1>18. CASE ManualOverride(p)
  BY <1>1, <1>18, NullShape DEF ManualOverride
<1>19. CASE PayBill(p)
  <2> DEFINE d == [Plain("payBill") EXCEPT !.fiat = 0]
  <2>1. "payBill" \in Types /\ 0 \in Amount
    BY DEF Types, Callbacks, Amount
  <2>2. d \in Delta /\ d.hash = 0
    BY <2>1, PlainType, SetAmounts, ZenonT(60)
  <2>3. CASE Fails(p, "payBill", "other")
    BY <1>1, <1>3, <2>1, <2>3, FailsShape
  <2>4. CASE /\ LockHeld(p) /\ Positive(Current(p).fiat)
             /\ BankMoves(p, "payBill", Current(p).fiat, "payBill", d)
    <3>1. Current(p).fiat \in Nat
      BY <1>4, <2>4 DEF Positive
    <3> HIDE DEF d
    <3> QED BY <1>1, <2>1, <2>2, <2>4, <3>1, BankShape
  <2> QED BY <1>19, <2>3, <2>4 DEF PayBill, Verified
<1>20. CASE RetryRegisterTx(p)
  <2>1. "retryRegisterTx" \in Types
    BY DEF Types, Callbacks
  <2>2. UNCHANGED <<world, listed>>
    BY <1>20 DEF RetryRegisterTx
  <2>3. \/ Returns(p, Plain("retryRegisterTx"))
        \/ Returns(p, Failed("retryRegisterTx", "other"))
        \/ ReturnsNull(p)
    BY <1>20 DEF RetryRegisterTx
  <2> QED BY <1>1, <1>3, <1>4, <2>1, <2>2, <2>3, PlainShape, FailedShape, NullShape
          DEF world
<1>21. CASE SendETransfer(p)
  <2> DEFINE d == [Plain("sendETransfer") EXCEPT !.fiat = 0]
  <2>1. "sendETransfer" \in Types /\ 0 \in Amount
    BY DEF Types, Callbacks, Amount
  <2>2. d \in Delta /\ d.hash = 0
    BY <2>1, PlainType, SetAmounts, ZenonT(60)
  <2>3. CASE Fails(p, "sendETransfer", "other")
    BY <1>1, <1>3, <2>1, <2>3, FailsShape
  <2>4. CASE /\ Positive(Current(p).fiat)
             /\ BankMoves(p, "sendETransfer", Current(p).fiat, "sendETransfer", d)
    <3>1. Current(p).fiat \in Nat
      BY <1>4, <2>4 DEF Positive
    <3>2. Chosen(p).run = "sendETransfer"
      BY <1>21 DEF SendETransfer, Calls
    <3> HIDE DEF d
    <3> QED BY <1>1, <2>1, <2>2, <2>4, <3>1, <3>2, BankShape
  <2> QED BY <1>21, <2>3, <2>4 DEF SendETransfer
<1>22. CASE WaitETransfer(p)
  <2>1. "waitETransfer" \in Types
    BY DEF Types, Callbacks
  <2> QED BY <1>1, <1>4, <1>22, <2>1, PlainShape DEF WaitETransfer, world
<1>23. CASE HandleWaitError(p)
  <2>1. "handleWaitError" \in Types
    BY DEF Types, Callbacks
  <2>2. UNCHANGED <<world, listed>>
    BY <1>23 DEF HandleWaitError
  <2>3. CASE Returns(p, Failed("handleWaitError", "other"))
    BY <1>1, <1>3, <2>1, <2>2, <2>3, FailsShape DEF Fails
  <2>4. ASSUME NEW i \in DOMAIN hist[p],
               Returns(p, [Plain("handleWaitError") EXCEPT !.fiat = hist[p][i].delta.fiat])
        PROVE  Shape(p)
    <3> DEFINE d == [Plain("handleWaitError") EXCEPT !.fiat = hist[p][i].delta.fiat]
    <3>1. hist[p][i].delta.fiat \in Amount
      <4>1. hist[p][i] \in Snapshot
        BY <1>4
      <4> QED BY <4>1 DEF Snapshot, Delta
    <3>2. d \in Delta /\ d.hash = 0
      BY <2>1, <3>1, PlainType, SetAmounts, ZenonT(60)
    <3>3. Returns(p, d)
      BY <2>4
    <3> HIDE DEF d
    <3> QED BY <1>1, <1>4, <2>2, <3>2, <3>3, QuietShape DEF world
  <2> QED BY <1>23, <2>3, <2>4 DEF HandleWaitError
<1>24. CASE LabelEmail(p)
  <2>1. \A t \in {"labelEmailETransfer", "labelEmailDeposited"} : t \in Types
    BY DEF Types, Callbacks
  <2> QED BY <1>1, <1>3, <1>4, <1>24, <2>1, PlainShape, FailedShape DEF LabelEmail, world
<1>25. CASE DepositFiat(p)
  <2> DEFINE d == [Plain("depositFiat") EXCEPT !.fiat = Value]
  <2>1. "depositFiat" \in Types /\ Value \in Amount
    BY <1>5 DEF Types, Callbacks, Amount
  <2>2. d \in Delta /\ d.hash = 0
    BY <2>1, PlainType, SetAmounts, ZenonT(60)
  <2>3. CASE Fails(p, "depositFiat", "other")
    BY <1>1, <1>3, <2>1, <2>3, FailsShape
  <2>4. CASE LockHeld(p) /\ BankMoves(p, "depositETransfer", Value, "depositFiat", d)
    <3> HIDE DEF d
    <3> QED BY <1>1, <1>5, <2>1, <2>2, <2>4, BankShape
  <2> QED BY <1>25, <2>3, <2>4 DEF DepositFiat, Verified
<1>26. CASE DepositFiatManual(p)
  <2> DEFINE d == [Plain("depositFiatManual") EXCEPT !.fiat = Value]
  <2>1. "depositFiatManual" \in Types /\ Value \in Amount
    BY <1>5 DEF Types, Callbacks, Amount
  <2>2. d \in Delta /\ d.hash = 0
    BY <2>1, PlainType, SetAmounts, ZenonT(60)
  <2>3. Returns(p, d) /\ UNCHANGED <<world, listed>>
    BY <1>26 DEF DepositFiatManual
  <2> HIDE DEF d
  <2> QED BY <1>1, <1>4, <2>2, <2>3, QuietShape DEF world
<1> QED
  BY <1>6, <1>7, <1>8, <1>9, <1>10, <1>11, <1>12, <1>13, <1>14, <1>15, <1>16,
     <1>17, <1>18, <1>19, <1>20, <1>21, <1>22, <1>23, <1>24, <1>25, <1>26
     DEF Transition

-----------------------------------------------------------------------------
(* Types.                                                                  *)

LEMMA TypeInit == Init => TypeInv
<1> SUFFICES ASSUME Init PROVE TypeInv
  OBVIOUS
<1>1. "" \in Types
  BY DEF Types
<1>2. Plain("") \in Delta /\ Plain("").hash = 0
  BY <1>1, PlainType
<1>3. MaxCrashes \in Nat /\ MaxOverrides \in Nat
  BY MachineAssumption DEF MachineAssumption
<1> DEFINE none == Plain("")
<1>4. none \in Delta /\ none.hash = 0
  BY <1>2
<1> HIDE DEF none
<1>5. delta = [p \in Executors |-> none]
  BY DEF Init, none
<1>6. /\ txs = << >> /\ bank = << >> /\ stored = << >> /\ fresh = {}
      /\ settled = FALSE /\ listed = TRUE /\ crashes = 0 /\ overrides = 0
      /\ pc = [p \in Executors |-> "idle"]
      /\ loaded = [p \in Executors |-> 0]
      /\ hist = [p \in Executors |-> << >>]
  BY DEF Init, WorldInit
<1>7. TypeOK
  <2>1. txs \in Seq(TxRecord) /\ bank \in Seq(BankRecord) /\ stored \in Seq(Delta)
    BY <1>6
  <2>2. /\ settled \in BOOLEAN /\ listed \in BOOLEAN
        /\ fresh \subseteq 1 .. Len(stored)
    BY <1>6
  <2>3. /\ pc \in [Executors -> {"idle", "running", "storing"}]
        /\ loaded \in [Executors -> Nat]
        /\ \A p \in Executors : pc[p] # "idle" => hist[p] # << >>
    BY <1>6
  <2>4. hist \in [Executors -> Seq(Snapshot)]
    BY <1>6
  <2>5. delta \in [Executors -> Delta]
    BY <1>4, <1>5
  <2>6. crashes \in 0 .. MaxCrashes /\ overrides \in 0 .. MaxOverrides
    BY <1>3, <1>6
  <2>7. kind \in DOMAIN Graphs
    BY DEF Init
  <2> QED BY <2>1, <2>2, <2>3, <2>4, <2>5, <2>6, <2>7 DEF TypeOK
<1>8. HashesKnown
  BY <1>4, <1>5, <1>6 DEF HashesKnown
<1>9. LoadedStored
  BY <1>6 DEF LoadedStored, Working
<1>10. FreshLocks
  BY <1>6 DEF FreshLocks
<1> QED BY <1>7, <1>8, <1>9, <1>10 DEF TypeInv

\* An executor that becomes idle holds nothing.
LEMMA IdleTypes ==
    ASSUME TypeInv, NEW p \in Executors, Idle(p)
    PROVE  /\ pc' \in [Executors -> {"idle", "running", "storing"}]
           /\ loaded' \in [Executors -> Nat]
           /\ hist' \in [Executors -> Seq(Snapshot)]
           /\ delta' \in [Executors -> Delta]
           /\ \A q \in Executors : pc'[q] # "idle" => hist'[q] # << >>
           /\ \A q \in Executors : /\ delta'[q].hash \in 0 .. Len(txs)
                                   /\ \A i \in DOMAIN hist'[q] :
                                         hist'[q][i].delta.hash \in 0 .. Len(txs)
<1>1. "" \in Types
  BY DEF Types
<1>2. Plain("") \in Delta /\ Plain("").hash = 0
  BY <1>1, PlainType
<1>3. /\ pc \in [Executors -> {"idle", "running", "storing"}]
      /\ loaded \in [Executors -> Nat]
      /\ hist \in [Executors -> Seq(Snapshot)]
      /\ delta \in [Executors -> Delta]
      /\ \A q \in Executors : pc[q] # "idle" => hist[q] # << >>
      /\ Len(txs) \in Nat
  BY DEF TypeInv, TypeOK
<1>4. \A q \in Executors : /\ delta[q].hash \in 0 .. Len(txs)
                          /\ \A i \in DOMAIN hist[q] : hist[q][i].delta.hash \in 0 .. Len(txs)
  BY DEF TypeInv, HashesKnown
<1>5. \A q \in Executors : hist'[q] = IF q = p THEN << >> ELSE hist[q]
  BY <1>3 DEF Idle
<1> DEFINE none == Plain("")
<1>6. /\ delta' = [delta EXCEPT ![p] = none]
      /\ none \in Delta /\ none.hash = 0
  BY <1>2 DEF Idle
<1> HIDE DEF none
<1>7. /\ pc' \in [Executors -> {"idle", "running", "storing"}]
      /\ loaded' \in [Executors -> Nat]
      /\ hist' \in [Executors -> Seq(Snapshot)]
      /\ \A q \in Executors : pc'[q] # "idle" => hist'[q] # << >>
  <2>1. /\ pc' = [pc EXCEPT ![p] = "idle"]
        /\ loaded' = [loaded EXCEPT ![p] = 0]
        /\ hist' = [hist EXCEPT ![p] = << >>]
    BY DEF Idle
  <2>2. pc' \in [Executors -> {"idle", "running", "storing"}]
    BY <1>3, <2>1
  <2>3. loaded' \in [Executors -> Nat]
    BY <1>3, <2>1
  <2>4. hist' \in [Executors -> Seq(Snapshot)]
    BY <1>3, <2>1
  <2>5. \A q \in Executors : pc'[q] # "idle" => hist'[q] # << >>
    BY <1>3, <2>1
  <2> QED BY <2>2, <2>3, <2>4, <2>5
<1>8. delta' \in [Executors -> Delta]
  BY <1>3, <1>6
<1>9. \A q \in Executors : /\ delta'[q].hash \in 0 .. Len(txs)
                          /\ \A i \in DOMAIN hist'[q] : hist'[q][i].delta.hash \in 0 .. Len(txs)
  <2>1. ASSUME NEW q \in Executors
        PROVE  delta'[q].hash \in 0 .. Len(txs)
    BY <1>3, <1>4, <1>6
  <2>2. ASSUME NEW q \in Executors, NEW i \in DOMAIN hist'[q]
        PROVE  hist'[q][i].delta.hash \in 0 .. Len(txs)
    <3>1. q # p
      BY <1>5
    <3> QED BY <1>4, <1>5, <3>1
  <2> QED BY <2>1, <2>2
<1> QED BY <1>7, <1>8, <1>9

\* One more snapshot in the container of p.
LEMMA EnterTypes ==
    ASSUME TypeInv, NEW p \in Executors, pc[p] # "idle",
           NEW name \in States, NEW d \in Delta, d.hash \in 0 .. Len(txs), NEW i \in Nat,
           Enter(p, name, d, i)
    PROVE  /\ hist' \in [Executors -> Seq(Snapshot)]
           /\ \A q \in Executors : hist'[q] # << >> \/ hist'[q] = hist[q]
           /\ \A q \in Executors : \A j \in DOMAIN hist'[q] :
                 hist'[q][j].delta.hash \in 0 .. Len(txs)
<1> DEFINE s == Reduced(Current(p), name, d, i)
<1>1. hist \in [Executors -> Seq(Snapshot)] /\ Current(p) \in Snapshot
  BY AtWork DEF TypeInv, TypeOK
<1>2. s \in Snapshot
  BY <1>1, ReducedType
<1>3. s.delta = d
  BY DEF Reduced
<1>4. hist' = [hist EXCEPT ![p] = Append(hist[p], s)]
  BY DEF Enter
<1> HIDE DEF s
<1>5. hist' \in [Executors -> Seq(Snapshot)]
  BY <1>1, <1>2, <1>4
<1>6. \A q \in Executors : hist'[q] = IF q = p THEN Append(hist[p], s) ELSE hist[q]
  BY <1>1, <1>4
<1>7. \A q \in Executors : \A j \in DOMAIN hist[q] : hist[q][j].delta.hash \in 0 .. Len(txs)
  BY DEF TypeInv, HashesKnown
<1>8. \A j \in DOMAIN Append(hist[p], s) : Append(hist[p], s)[j].delta.hash \in 0 .. Len(txs)
  <2> SUFFICES ASSUME NEW j \in DOMAIN Append(hist[p], s)
               PROVE  Append(hist[p], s)[j].delta.hash \in 0 .. Len(txs)
    OBVIOUS
  <2>1. CASE j \in DOMAIN hist[p]
    <3>1. Append(hist[p], s)[j] = hist[p][j]
      BY <1>1, <1>2, <2>1
    <3> QED BY <1>7, <2>1, <3>1
  <2>2. CASE j = Len(hist[p]) + 1
    <3>1. Append(hist[p], s)[j] = s
      BY <1>1, <1>2, <2>2
    <3> QED BY <1>3, <3>1
  <2>3. hist[p] \in Seq(Snapshot)
    BY <1>1
  <2>4. DOMAIN Append(hist[p], s) = 1 .. Len(hist[p]) + 1 /\ Len(hist[p]) \in Nat
    BY <1>2, <2>3
  <2>5. DOMAIN hist[p] = 1 .. Len(hist[p])
    BY <2>3
  <2> QED BY <2>1, <2>2, <2>4, <2>5
<1>9. Append(hist[p], s) # << >>
  <2>1. hist[p] \in Seq(Snapshot)
    BY <1>1
  <2> QED BY <1>2, <2>1, Appended
<1> QED BY <1>5, <1>6, <1>7, <1>8, <1>9

LEMMA StartTypes ==
    ASSUME TypeInv, NEW p \in Executors, Start(p)
    PROVE  TypeInv'
<1>1. TypeOK
  BY DEF TypeInv
<1>2. InitialSnapshot \in Snapshot /\ InitialSnapshot.delta.hash = 0
  BY InitialType
<1> DEFINE begin == << InitialSnapshot >>
<1>3. /\ begin \in Seq(Snapshot) /\ begin # << >>
      /\ \A i \in DOMAIN begin : begin[i].delta.hash = 0
  BY <1>2
<1>4. /\ hist' = [hist EXCEPT ![p] = begin]
      /\ pc' = [pc EXCEPT ![p] = "running"]
      /\ loaded' = [loaded EXCEPT ![p] = Len(stored)]
      /\ UNCHANGED <<world, store, delta, limits>>
  BY DEF Start
<1> HIDE DEF begin
<1>5. hist' \in [Executors -> Seq(Snapshot)]
  BY <1>1, <1>3, <1>4 DEF TypeOK
<1>6. /\ pc' \in [Executors -> {"idle", "running", "storing"}]
      /\ loaded' \in [Executors -> Nat]
      /\ \A q \in Executors : pc'[q] # "idle" => hist'[q] # << >>
  BY <1>1, <1>3, <1>4 DEF TypeOK
<1>7. TypeOK'
  BY <1>1, <1>4, <1>5, <1>6 DEF TypeOK, world, store, limits
<1>8. HashesKnown'
  <2>1. Len(txs) \in Nat
    BY <1>1 DEF TypeOK
  <2>2. ASSUME NEW q \in Executors, NEW i \in DOMAIN hist'[q]
        PROVE  hist'[q][i].delta.hash \in 0 .. Len(txs)
    <3>1. hist'[q] = IF q = p THEN begin ELSE hist[q]
      BY <1>1, <1>4 DEF TypeOK
    <3> QED BY <1>3, <2>1, <3>1 DEF TypeInv, HashesKnown
  <2> QED BY <1>4, <2>2 DEF TypeInv, HashesKnown, world, store
<1>9. LoadedStored'
  BY <1>1, <1>4 DEF TypeInv, LoadedStored, Working, TypeOK, store
<1>10. FreshLocks'
  BY <1>4 DEF TypeInv, FreshLocks, LockPlace, store
<1> QED BY <1>7, <1>8, <1>9, <1>10 DEF TypeInv

LEMMA ReplayTypes ==
    ASSUME TypeInv, NEW p \in Executors, Replay(p)
    PROVE  TypeInv'
<1> DEFINE i == Len(hist[p])
           d == Replayed(p)
           name == IF Overrides(p) THEN d.meta ELSE Chosen(p).to
<1>1. TypeOK
  BY DEF TypeInv
<1>2. pc[p] # "idle" /\ i <= loaded[p]
  BY DEF Replay, Replaying
<1>3. /\ stored \in Seq(Delta) /\ Len(stored) \in Nat /\ Chosen(p) \in Edge
      /\ hist[p] \in Seq(Snapshot) /\ i \in Nat /\ hist[p] # << >>
      /\ loaded[p] \in Nat
  BY <1>1, <1>2, AtWork DEF TypeOK
<1>4. i \in DOMAIN stored
  BY <1>2, <1>3 DEF TypeInv, LoadedStored, Working
<1>5. d \in Delta /\ d.hash \in 0 .. Len(txs)
  BY <1>3, <1>4 DEF Replayed, TypeInv, HashesKnown
<1>6. name \in States
  <2>1. d.meta \in States
    BY <1>5 DEF Delta
  <2>2. Chosen(p).to \in States
    BY <1>3, EdgeType
  <2> QED BY <2>1, <2>2
<1>7. Enter(p, name, d, i) /\ UNCHANGED <<world, store, pc, loaded, delta, limits>>
  BY DEF Replay
<1> HIDE DEF d, name, i
<1>8. /\ hist' \in [Executors -> Seq(Snapshot)]
      /\ \A q \in Executors : hist'[q] # << >> \/ hist'[q] = hist[q]
      /\ \A q \in Executors : \A j \in DOMAIN hist'[q] :
            hist'[q][j].delta.hash \in 0 .. Len(txs)
  BY <1>2, <1>3, <1>5, <1>6, <1>7, EnterTypes
<1>9. TypeOK'
  BY <1>1, <1>7, <1>8 DEF TypeOK, world, store, limits
<1>10. HashesKnown' /\ LoadedStored' /\ FreshLocks'
  BY <1>7, <1>8 DEF TypeInv, HashesKnown, LoadedStored, FreshLocks, LockPlace,
                    Working, world, store
<1> QED BY <1>9, <1>10 DEF TypeInv

LEMMA StoreTypes ==
    ASSUME TypeInv, NEW p \in Executors, Store(p)
    PROVE  TypeInv'
<1> DEFINE d == delta[p]
           none == Plain("")
           i == Len(stored) + 1
<1>1. TypeOK
  BY DEF TypeInv
<1>2. pc[p] # "idle"
  BY DEF Store
<1>3. /\ stored \in Seq(Delta) /\ Len(stored) \in Nat /\ Chosen(p) \in Edge
  BY <1>2, AtWork
<1>4. d \in Delta /\ d.hash \in 0 .. Len(txs)
  BY <1>1 DEF TypeInv, TypeOK, HashesKnown
<1>5. Chosen(p).to \in States
  BY <1>3, EdgeType
<1>6. none \in Delta /\ none.hash = 0
  BY PlainType DEF Types
<1>7. /\ stored' = Append(stored, d)
      /\ fresh' \subseteq fresh \cup {i}
      /\ i \in fresh' => d.type = "preTransfer" \/ i \in fresh
      /\ Enter(p, Chosen(p).to, d, i)
      /\ pc' = [pc EXCEPT ![p] = "running"]
      /\ delta' = [delta EXCEPT ![p] = none]
      /\ UNCHANGED <<world, listed, loaded, limits>>
  BY DEF Store
<1>8. i \in Nat
  BY <1>3
<1> HIDE DEF d, none
<1>9. /\ hist' \in [Executors -> Seq(Snapshot)]
      /\ \A q \in Executors : hist'[q] # << >> \/ hist'[q] = hist[q]
      /\ \A q \in Executors : \A j \in DOMAIN hist'[q] :
            hist'[q][j].delta.hash \in 0 .. Len(txs)
  BY <1>2, <1>4, <1>5, <1>7, <1>8, EnterTypes
<1>10. stored' \in Seq(Delta) /\ Len(stored') = i
  BY <1>3, <1>4, <1>7, Appended
<1>11. delta' \in [Executors -> Delta]
  BY <1>1, <1>6, <1>7 DEF TypeOK
<1>12. fresh' \subseteq 1 .. Len(stored')
  <2>1. fresh \subseteq 1 .. Len(stored)
    BY <1>1 DEF TypeOK
  <2>2. fresh' \subseteq fresh \cup {i}
    BY <1>7
  <2> QED BY <1>3, <1>10, <2>1, <2>2
<1>13. /\ pc' \in [Executors -> {"idle", "running", "storing"}]
       /\ \A q \in Executors : pc'[q] # "idle" => hist'[q] # << >>
  <2>1. pc' \in [Executors -> {"idle", "running", "storing"}]
    BY <1>1, <1>7 DEF TypeOK
  <2>2. hist[p] # << >>
    BY <1>1, <1>2 DEF TypeOK
  <2> QED BY <1>1, <1>7, <1>9, <2>1, <2>2 DEF TypeOK
<1>14. TypeOK'
  BY <1>1, <1>7, <1>9, <1>10, <1>11, <1>12, <1>13 DEF TypeOK, world, limits
<1>15. HashesKnown'
  <2>1. \A j \in DOMAIN stored' : stored'[j].hash \in 0 .. Len(txs)
    BY <1>3, <1>4, <1>7 DEF TypeInv, HashesKnown
  <2>2. Len(txs) \in Nat
    BY <1>1 DEF TypeOK
  <2>3. \A q \in Executors : delta'[q].hash \in 0 .. Len(txs)
    BY <1>1, <1>6, <1>7, <2>2 DEF TypeInv, HashesKnown, TypeOK
  <2> QED BY <1>7, <1>9, <2>1, <2>3 DEF HashesKnown, world
<1>16. LoadedStored'
  BY <1>1, <1>2, <1>3, <1>7, <1>10 DEF TypeInv, LoadedStored, Working, TypeOK
<1>17. FreshLocks'
  <2>1. /\ DOMAIN stored = 1 .. Len(stored) /\ DOMAIN stored' = 1 .. i
        /\ \A j \in 1 .. Len(stored) : stored'[j] = stored[j]
        /\ stored'[i] = d
    BY <1>3, <1>4, <1>7, Appended
  <2> SUFFICES ASSUME NEW j \in fresh' PROVE LockPlace(j)'
    BY DEF FreshLocks
  <2>2. CASE j \in fresh
    BY <1>3, <2>1, <2>2 DEF TypeInv, FreshLocks, LockPlace
  <2>3. CASE j = i /\ j \notin fresh
    BY <1>3, <1>7, <2>1, <2>3 DEF LockPlace
  <2> QED BY <1>7, <2>2, <2>3
<1> QED BY <1>14, <1>15, <1>16, <1>17 DEF TypeInv

\* Which of the shape's outside effects there was, the types stay.
LEMMA ShapeTypes ==
    ASSUME TypeInv, NEW p \in Executors, Shape(p)
    PROVE  TypeInv'
<1>1. TypeOK
  BY DEF TypeInv
<1>2. /\ txs' \in Seq(TxRecord)
      /\ bank' \in Seq(BankRecord)
      /\ Len(txs) \in Nat /\ Len(txs') \in Nat /\ Len(txs) <= Len(txs')
  <2>1. txs \in Seq(TxRecord) /\ bank \in Seq(BankRecord)
    BY <1>1 DEF TypeOK
  <2>2. CASE Quiet
    BY <2>1, <2>2 DEF Quiet
  <2>3. CASE Sends(p)
    BY <2>1, <2>3 DEF Sends
  <2>4. CASE Pays(p)
    BY <2>1, <2>4 DEF Pays
  <2> QED BY <2>2, <2>3, <2>4 DEF Shape
<1>3. settled' \in BOOLEAN /\ listed' \in BOOLEAN
  BY <1>1 DEF Shape, TypeOK
<1>4. CASE ReturnsNull(p)
  <2>1. Idle(p) /\ UNCHANGED <<stored, fresh, kind, crashes, overrides>>
    BY <1>4 DEF ReturnsNull, limits
  <2>2. TypeOK'
    BY <1>1, <1>2, <1>3, <2>1, IdleTypes DEF TypeOK
  <2>3. ASSUME NEW q \in Executors
        PROVE  /\ delta'[q].hash \in 0 .. Len(txs')
               /\ \A i \in DOMAIN hist'[q] : hist'[q][i].delta.hash \in 0 .. Len(txs')
    <3>1. /\ delta'[q].hash \in 0 .. Len(txs)
          /\ \A i \in DOMAIN hist'[q] : hist'[q][i].delta.hash \in 0 .. Len(txs)
      BY <2>1, IdleTypes
    <3> QED BY <1>2, <3>1
  <2>4. \A i \in DOMAIN stored' : stored'[i].hash \in 0 .. Len(txs')
    BY <1>2, <2>1 DEF TypeInv, HashesKnown
  <2>5. LoadedStored'
    BY <1>1, <2>1 DEF TypeInv, LoadedStored, Working, Idle, TypeOK
  <2>6. FreshLocks'
    BY <2>1 DEF TypeInv, FreshLocks, LockPlace
  <2> QED BY <2>2, <2>3, <2>4, <2>5, <2>6 DEF TypeInv, HashesKnown
<1>5. ASSUME NEW d \in Delta, Returns(p, d), d.hash \in 0 .. Len(txs')
      PROVE  TypeInv'
  <2>1. /\ pc' = [pc EXCEPT ![p] = "storing"]
        /\ delta' = [delta EXCEPT ![p] = d]
        /\ UNCHANGED <<loaded, hist, stored, fresh, kind, crashes, overrides>>
    BY <1>5 DEF Returns, limits
  <2>2. /\ pc' \in [Executors -> {"idle", "running", "storing"}]
        /\ delta' \in [Executors -> Delta]
    BY <1>1, <2>1 DEF TypeOK
  <2>3. \A q \in Executors : pc'[q] # "idle" => pc[q] # "idle"
    BY <1>1, <2>1 DEF TypeOK, Shape
  <2>4. TypeOK'
    BY <1>1, <1>2, <1>3, <2>1, <2>2, <2>3 DEF TypeOK
  <2>5. ASSUME NEW q \in Executors
        PROVE  delta'[q].hash \in 0 .. Len(txs')
    <3>1. delta'[q] = IF q = p THEN d ELSE delta[q]
      BY <1>1, <2>1 DEF TypeOK
    <3>2. delta[q].hash \in 0 .. Len(txs)
      BY DEF TypeInv, HashesKnown
    <3> QED BY <1>2, <1>5, <3>1, <3>2
  <2>6. ASSUME NEW q \in Executors, NEW i \in DOMAIN hist'[q]
        PROVE  hist'[q][i].delta.hash \in 0 .. Len(txs')
    <3>1. hist[q][i].delta.hash \in 0 .. Len(txs)
      BY <2>1 DEF TypeInv, HashesKnown
    <3> QED BY <1>2, <2>1, <3>1
  <2>7. \A i \in DOMAIN stored' : stored'[i].hash \in 0 .. Len(txs')
    BY <1>2, <2>1 DEF TypeInv, HashesKnown
  <2>8. LoadedStored'
    BY <2>1, <2>3 DEF TypeInv, LoadedStored, Working
  <2>9. FreshLocks'
    BY <2>1 DEF TypeInv, FreshLocks, LockPlace
  <2> QED BY <2>4, <2>5, <2>6, <2>7, <2>8, <2>9 DEF TypeInv, HashesKnown
<1> QED BY <1>4, <1>5 DEF Shape, Answers

\* The chain and the clock.
LEMMA WorldEffect ==
    ASSUME TypeInv, WorldNext
    PROVE  /\ txs' \in Seq(TxRecord) /\ Len(txs') \in Nat /\ Len(txs) <= Len(txs')
           /\ \A h \in DOMAIN txs' : \/ h \in DOMAIN txs /\ txs'[h].lock = txs[h].lock
                                    \/ txs'[h].lock = 0
           /\ bank' = bank /\ settled' \in BOOLEAN
<1>1. txs \in Seq(TxRecord) /\ Len(txs) \in Nat /\ settled \in BOOLEAN
  BY DEF TypeInv, TypeOK
<1>2. Value \in Nat
  BY WorldAssumption DEF WorldAssumption
<1>3. ASSUME NEW h \in DOMAIN txs, NEW tx \in TxRecord, tx.lock = txs[h].lock,
             txs' = [txs EXCEPT ![h] = tx], UNCHANGED <<bank, settled>>
      PROVE  /\ txs' \in Seq(TxRecord) /\ Len(txs') = Len(txs) /\ DOMAIN txs' = DOMAIN txs
             /\ \A g \in DOMAIN txs : txs'[g].lock = txs[g].lock
  BY <1>1, <1>3
<1>4. CASE \E h \in DOMAIN txs : Mine(h)
  <2>1. PICK h \in DOMAIN txs : Mine(h)
    BY <1>4
  <2> DEFINE tx == [txs[h] EXCEPT !.status = "mined", !.moved = Moves(txs[h])]
  <2>2. txs[h] \in TxRecord
    BY <1>1
  <2>3. Moves(txs[h]) \in Nat
    BY <2>2 DEF Moves, TxRecord
  <2>4. tx \in TxRecord /\ tx.lock = txs[h].lock
    BY <2>2, <2>3 DEF TxRecord
  <2>5. txs' = [txs EXCEPT ![h] = tx] /\ UNCHANGED <<bank, settled>>
    BY <2>1 DEF Mine
  <2> HIDE DEF tx
  <2> QED BY <1>1, <1>3, <2>4, <2>5
<1>5. CASE \E h \in DOMAIN txs : Revert(h)
  <2>1. PICK h \in DOMAIN txs : Revert(h)
    BY <1>5
  <2> DEFINE tx == [txs[h] EXCEPT !.status = "failed"]
  <2>2. txs[h] \in TxRecord
    BY <1>1
  <2>3. tx \in TxRecord /\ tx.lock = txs[h].lock
    BY <2>2 DEF TxRecord
  <2>4. txs' = [txs EXCEPT ![h] = tx] /\ UNCHANGED <<bank, settled>>
    BY <2>1 DEF Revert
  <2> HIDE DEF tx
  <2> QED BY <1>1, <1>3, <2>3, <2>4
<1>6. CASE StrangerProcesses
  <2> DEFINE tx == [kind |-> "processPending", amount |-> Value,
                    moved |-> Value, status |-> "mined", lock |-> 0]
  <2>1. tx \in TxRecord /\ tx.lock = 0
    BY <1>2 DEF TxRecord, TxKinds
  <2>2. txs' = Append(txs, tx) /\ UNCHANGED <<bank, settled>>
    BY <1>6 DEF StrangerProcesses
  <2> HIDE DEF tx
  <2> QED BY <1>1, <2>1, <2>2
<1>7. CASE Settle
  BY <1>1, <1>7 DEF Settle
<1> QED BY <1>4, <1>5, <1>6, <1>7 DEF WorldNext

LEMMA WorldTypes ==
    ASSUME TypeInv, WorldNext, UNCHANGED <<store, run, limits>>
    PROVE  TypeInv'
<1>1. /\ txs' \in Seq(TxRecord) /\ Len(txs') \in Nat /\ Len(txs) <= Len(txs')
      /\ bank' = bank /\ settled' \in BOOLEAN
  BY WorldEffect
<1>2. TypeOK'
  BY <1>1 DEF TypeInv, TypeOK, store, run, limits
<1>3. \A n \in 0 .. Len(txs) : n \in 0 .. Len(txs')
  BY <1>1 DEF TypeInv, TypeOK
<1>4. HashesKnown'
  BY <1>3 DEF TypeInv, HashesKnown, store, run
<1>5. LoadedStored' /\ FreshLocks'
  BY DEF TypeInv, LoadedStored, FreshLocks, LockPlace, Working, store, run
<1> QED BY <1>2, <1>4, <1>5 DEF TypeInv

\* A returned e-transfer rewrites the end of the history; what is left of it,
\* the preTransfers in particular, keeps its place.
LEMMA ReturnedHistory ==
    ASSUME TypeInv, ETransferReturned
    PROVE  /\ stored' \in Seq(Delta)
           /\ \A i \in DOMAIN stored' : stored'[i].hash \in 0 .. Len(txs)
           /\ \A i \in DOMAIN stored :
                 stored[i].type = "preTransfer" => i \in DOMAIN stored' /\ stored'[i] = stored[i]
<1> DEFINE n == Len(stored)
           kept == SubSeq(stored, 1, n - 2)
           d == Failed("waitETransfer", "returned")
<1>1. stored \in Seq(Delta) /\ n \in Nat /\ n > 2 /\ DOMAIN stored = 1 .. n
  <2>1. stored \in Seq(Delta)
    BY DEF TypeInv, TypeOK
  <2>2. n > 2
    BY DEF ETransferReturned
  <2> QED BY <2>1, <2>2
<1>2. d \in Delta /\ d.hash = 0
  BY PlainType DEF Types, Callbacks, Errors
<1>3. stored' = Append(kept, d)
  BY DEF ETransferReturned
<1>4. /\ stored[n - 2].type = "sendETransfer"
      /\ stored[n - 1].type = "waitETransfer"
      /\ stored[n].type = "markComplete"
  <2>1. [i \in 1 .. 3 |-> stored[n - 3 + i].type]
           = << "sendETransfer", "waitETransfer", "markComplete" >>
    BY DEF ETransferReturned
  <2>2. /\ stored[n - 3 + 1].type = "sendETransfer"
        /\ stored[n - 3 + 2].type = "waitETransfer"
        /\ stored[n - 3 + 3].type = "markComplete"
    BY <2>1
  <2>3. n - 3 + 1 = n - 2 /\ n - 3 + 2 = n - 1 /\ n - 3 + 3 = n
    BY <1>1
  <2> QED BY <2>2, <2>3
<1> HIDE DEF d
<1>5. /\ kept \in Seq(Delta) /\ Len(kept) = n - 2
      /\ \A i \in 1 .. n - 2 : kept[i] = stored[i]
  BY <1>1
<1> HIDE DEF kept
<1>6. /\ stored' \in Seq(Delta) /\ DOMAIN stored' = 1 .. n - 1
      /\ \A i \in 1 .. n - 2 : stored'[i] = stored[i]
      /\ stored'[n - 1] = d
  <2>1. /\ stored' \in Seq(Delta) /\ DOMAIN stored' = 1 .. Len(kept) + 1
        /\ \A i \in 1 .. Len(kept) : stored'[i] = kept[i]
        /\ stored'[Len(kept) + 1] = d
    BY <1>2, <1>3, <1>5, Appended
  <2>2. Len(kept) + 1 = n - 1
    BY <1>1, <1>5
  <2> QED BY <1>5, <2>1, <2>2
<1>7. Len(txs) \in Nat /\ \A i \in DOMAIN stored : stored[i].hash \in 0 .. Len(txs)
  BY DEF TypeInv, TypeOK, HashesKnown
<1>8. ASSUME NEW i \in DOMAIN stored'
      PROVE  stored'[i].hash \in 0 .. Len(txs)
  BY <1>1, <1>2, <1>6, <1>7
<1>9. ASSUME NEW i \in DOMAIN stored, stored[i].type = "preTransfer"
      PROVE  i \in DOMAIN stored' /\ stored'[i] = stored[i]
  <2>1. i # n - 2 /\ i # n - 1 /\ i # n
    BY <1>4, <1>9
  <2>2. i \in 1 .. n - 2
    BY <1>1, <2>1
  <2> QED BY <1>1, <1>6, <2>2
<1> QED BY <1>6, <1>8, <1>9

LEMMA ReturnedTypes ==
    ASSUME TypeInv, ETransferReturned
    PROVE  TypeInv'
<1>1. /\ stored' \in Seq(Delta)
      /\ \A i \in DOMAIN stored' : stored'[i].hash \in 0 .. Len(txs)
      /\ \A i \in DOMAIN stored :
            stored[i].type = "preTransfer" => i \in DOMAIN stored' /\ stored'[i] = stored[i]
  BY ReturnedHistory
<1>2. /\ listed' = TRUE /\ settled' = FALSE
      /\ UNCHANGED <<txs, bank, fresh, run, limits>>
      /\ \A p \in Executors : pc[p] = "idle"
  BY DEF ETransferReturned
<1>3. FreshLocks'
  BY <1>1, <1>2 DEF TypeInv, FreshLocks, LockPlace
<1>4. fresh' \subseteq 1 .. Len(stored')
  <2>1. DOMAIN stored' = 1 .. Len(stored')
    BY <1>1
  <2> QED BY <1>3, <2>1 DEF FreshLocks, LockPlace
<1>5. TypeOK'
  BY <1>1, <1>2, <1>4 DEF TypeInv, TypeOK, run, limits
<1>6. HashesKnown'
  BY <1>1, <1>2 DEF TypeInv, HashesKnown, run
<1>7. LoadedStored'
  BY <1>2 DEF LoadedStored, Working, run
<1> QED BY <1>3, <1>5, <1>6, <1>7 DEF TypeInv

LEMMA OverrideTypes ==
    ASSUME TypeInv, NEW s \in Offered[kind], AdminOverride(s)
    PROVE  TypeInv'
<1> DEFINE d == [Plain("manualOverride") EXCEPT !.meta = s]
<1>1. d \in Delta /\ d.hash = 0
  <2>1. "manualOverride" \in Types /\ s \in States
    BY GraphType DEF Types, Callbacks, TypeInv, TypeOK
  <2>2. Plain("manualOverride") \in Delta /\ Plain("manualOverride").hash = 0
    BY <2>1, PlainType
  <2> DEFINE z == Plain("manualOverride")
  <2> HIDE DEF z
  <2>3. ASSUME z \in Delta, z.hash = 0
        PROVE  [z EXCEPT !.meta = s] \in Delta /\ [z EXCEPT !.meta = s].hash = 0
    BY <2>1, <2>3 DEF Delta
  <2> QED BY <2>2, <2>3 DEF z
<1>2. /\ stored' = Append(stored, d)
      /\ overrides' = overrides + 1 /\ overrides < MaxOverrides
      /\ UNCHANGED <<world, listed, fresh, run, kind, crashes>>
  BY DEF AdminOverride
<1> HIDE DEF d
<1>3. stored \in Seq(Delta) /\ Len(txs) \in Nat
  BY DEF TypeInv, TypeOK
<1>4. /\ stored' \in Seq(Delta) /\ Len(stored) \in Nat /\ Len(stored') = Len(stored) + 1
      /\ DOMAIN stored = 1 .. Len(stored) /\ DOMAIN stored' = 1 .. Len(stored) + 1
      /\ \A i \in 1 .. Len(stored) : stored'[i] = stored[i]
      /\ stored'[Len(stored) + 1] = d
  BY <1>1, <1>2, <1>3, Appended
<1>5. overrides' \in 0 .. MaxOverrides
  BY <1>2, MachineAssumption DEF MachineAssumption, TypeInv, TypeOK
<1>6. fresh' \subseteq 1 .. Len(stored')
  BY <1>2, <1>4 DEF TypeInv, TypeOK
<1>7. TypeOK'
  BY <1>2, <1>4, <1>5, <1>6 DEF TypeInv, TypeOK, world, run
<1>8. \A i \in DOMAIN stored' : stored'[i].hash \in 0 .. Len(txs)
  BY <1>1, <1>3, <1>4 DEF TypeInv, HashesKnown
<1>9. HashesKnown'
  BY <1>2, <1>8 DEF TypeInv, HashesKnown, world, run
<1>10. LoadedStored'
  BY <1>2, <1>4 DEF TypeInv, TypeOK, LoadedStored, Working, run
<1>11. FreshLocks'
  BY <1>2, <1>4 DEF TypeInv, FreshLocks, LockPlace
<1> QED BY <1>7, <1>9, <1>10, <1>11 DEF TypeInv

\* The execution of p ends, whether it left or died.
LEMMA StopTypes ==
    ASSUME TypeInv, NEW p \in Executors, Idle(p), UNCHANGED <<world, store, kind, overrides>>,
           crashes' \in 0 .. MaxCrashes
    PROVE  TypeInv'
<1>1. TypeOK'
  BY IdleTypes DEF TypeInv, TypeOK, world, store
<1>2. HashesKnown'
  BY IdleTypes DEF TypeInv, HashesKnown, world, store
<1>3. LoadedStored'
  BY DEF TypeInv, TypeOK, LoadedStored, Working, Idle, store
<1>4. FreshLocks'
  BY DEF TypeInv, FreshLocks, LockPlace, store
<1> QED BY <1>1, <1>2, <1>3, <1>4 DEF TypeInv

LEMMA TypeStep == TypeInv /\ [Next]_vars => TypeInv'
<1> SUFFICES ASSUME TypeInv, [Next]_vars PROVE TypeInv'
  OBVIOUS
<1>1. ASSUME NEW p \in Executors, Start(p) PROVE TypeInv'
  BY <1>1, StartTypes
<1>2. ASSUME NEW p \in Executors, Replay(p) PROVE TypeInv'
  BY <1>2, ReplayTypes
<1>3. ASSUME NEW p \in Executors, Transition(p) PROVE TypeInv'
  BY <1>3, TransitionShape, ShapeTypes
<1>4. ASSUME NEW p \in Executors, Store(p) PROVE TypeInv'
  BY <1>4, StoreTypes
<1>5. ASSUME NEW p \in Executors, Leave(p) PROVE TypeInv'
  <2>1. crashes' \in 0 .. MaxCrashes
    BY <1>5 DEF Leave, limits, TypeInv, TypeOK
  <2> QED BY <1>5, <2>1, StopTypes DEF Leave, limits
<1>6. ASSUME NEW p \in Executors, Crash(p) PROVE TypeInv'
  <2>1. crashes' \in 0 .. MaxCrashes
    BY <1>6, MachineAssumption DEF Crash, MachineAssumption, TypeInv, TypeOK
  <2> QED BY <1>6, <2>1, StopTypes DEF Crash
<1>7. ASSUME NEW i \in fresh, LockExpires(i) PROVE TypeInv'
  BY <1>7 DEF LockExpires, TypeInv, TypeOK, HashesKnown, LoadedStored, FreshLocks,
              LockPlace, Working, world, run, limits
<1>8. CASE UNCHANGED vars
  BY <1>8 DEF vars, world, store, run, limits, TypeInv, TypeOK, HashesKnown,
              LoadedStored, FreshLocks, LockPlace, Working
<1>9. CASE Environment
  BY <1>7, <1>9, WorldTypes, OverrideTypes, ReturnedTypes DEF Environment
<1> QED
  BY <1>1, <1>2, <1>3, <1>4, <1>5, <1>6, <1>8, <1>9 DEF Next, Execute, Finished

\* The variables have their types in every execution of every graph, by any
\* number of executors, with whatever crashes, overrides and reverted calls.
THEOREM TypeCorrect == Spec => []TypeOK
<1>1. Spec => []TypeInv
  BY TypeInit, TypeStep, PTL DEF Spec
<1>2. TypeInv => TypeOK
  BY DEF TypeInv
<1> QED BY <1>1, <1>2, PTL

-----------------------------------------------------------------------------
(* Locks.                                                                  *)

LEMMA LockInit == Init => LockInv
<1> SUFFICES ASSUME Init PROVE LockInv
  OBVIOUS
<1>1. /\ txs = << >> /\ bank = << >> /\ fresh = {}
      /\ \A p \in Executors : pc[p] = "idle"
  BY DEF Init, WorldInit
<1>2. FreshLocks /\ LocksStored /\ OneTxPerLock /\ OnePaymentPerLock
  BY <1>1 DEF FreshLocks, LocksStored, OneTxPerLock, OnePaymentPerLock
<1>3. LockAge /\ LockOwned /\ LockUnused
  BY <1>1 DEF LockAge, LockOwned, LockUnused, Working
<1> QED BY <1>2, <1>3 DEF LockInv

\* An execution begins when no lock is fresh, in the initial snapshot.
LEMMA LockStart ==
    ASSUME TypeInv, LockInv, ~ QuickRestart, NEW p \in Executors, Start(p)
    PROVE  LockInv'
<1>1. /\ fresh = {} /\ fresh' = {}
      /\ UNCHANGED <<txs, bank, stored>>
      /\ pc' = [pc EXCEPT ![p] = "running"]
      /\ loaded' = [loaded EXCEPT ![p] = Len(stored)]
      /\ hist' = [hist EXCEPT ![p] = << InitialSnapshot >>]
  BY DEF Start, world, store
<1>2. /\ pc \in [Executors -> {"idle", "running", "storing"}]
      /\ loaded \in [Executors -> Nat]
      /\ hist \in [Executors -> Seq(Snapshot)]
      /\ Len(stored) \in Nat
  BY DEF TypeInv, TypeOK
<1>3. /\ FreshLocks' /\ LocksStored' /\ OneTxPerLock'
      /\ (LocksBeforePaying => OnePaymentPerLock)'
  BY <1>1 DEF LockInv, FreshLocks, LocksStored, LockPlace, OneTxPerLock,
              OnePaymentPerLock, LocksBeforePaying
<1>4. LockOwned' /\ LockUnused'
  BY <1>1 DEF LockOwned, LockUnused
<1>5. LockAge'
  <2> SUFFICES ASSUME NEW q \in Executors, Working(q)'
               PROVE  loaded'[q] <= Len(stored') /\ (Current(q).at)' <= Len(stored')
    BY <1>1 DEF LockAge
  <2>1. CASE q = p
    <3>1. loaded'[q] = Len(stored)
      BY <1>1, <1>2, <2>1
    <3>2. hist'[q] = << InitialSnapshot >>
      BY <1>1, <1>2, <2>1
    <3>3. InitialSnapshot.at = 0
      BY DEF InitialSnapshot
    <3>4. (Current(q).at)' = 0
      <4>1. Len(hist'[q]) = 1 /\ hist'[q][1] = InitialSnapshot
        BY <3>2
      <4> QED BY <3>3, <4>1 DEF Current
    <3> QED BY <1>1, <1>2, <3>1, <3>4
  <2>2. CASE q # p
    <3>1. loaded'[q] = loaded[q] /\ hist'[q] = hist[q] /\ pc'[q] = pc[q]
      BY <1>1, <1>2, <2>2
    <3>2. (Current(q).at)' = Current(q).at /\ Working(q)
      BY <3>1 DEF Current, Working
    <3>3. loaded[q] <= Len(stored) /\ Current(q).at <= Len(stored)
      BY <3>2 DEF LockInv, LockAge
    <3> QED BY <1>1, <3>1, <3>2, <3>3
  <2> QED BY <2>1, <2>2
<1> QED BY <1>3, <1>4, <1>5 DEF LockInv

\* What Enter does to the snapshots executors are in.
LEMMA Entered ==
    ASSUME TypeInv, NEW p \in Executors, pc[p] # "idle",
           NEW name \in States, NEW d \in Delta, NEW i \in Nat,
           Enter(p, name, d, i)
    PROVE  /\ (Current(p).at)' = i
           /\ \A q \in Executors : q # p => (Current(q).at)' = Current(q).at
<1> DEFINE s == Reduced(Current(p), name, d, i)
<1>1. hist \in [Executors -> Seq(Snapshot)] /\ Current(p) \in Snapshot
  BY AtWork DEF TypeInv, TypeOK
<1>2. s \in Snapshot /\ s.at = i
  BY <1>1, ReducedType DEF Reduced
<1>3. hist' = [hist EXCEPT ![p] = Append(hist[p], s)]
  BY DEF Enter
<1> HIDE DEF s
<1>4. hist'[p] = Append(hist[p], s) /\ hist[p] \in Seq(Snapshot)
  BY <1>1, <1>3
<1>5. Len(hist'[p]) = Len(hist[p]) + 1 /\ hist'[p][Len(hist[p]) + 1] = s
  BY <1>2, <1>4, Appended
<1>6. (Current(p).at)' = i
  BY <1>2, <1>5 DEF Current
<1>7. \A q \in Executors : q # p => hist'[q] = hist[q]
  BY <1>1, <1>3
<1> QED BY <1>6, <1>7 DEF Current

\* What is replayed is older than every fresh lock.
LEMMA LockReplay ==
    ASSUME TypeInv, LockInv, NEW p \in Executors, Replay(p)
    PROVE  LockInv'
<1> DEFINE i == Len(hist[p])
           d == Replayed(p)
           name == IF Overrides(p) THEN d.meta ELSE Chosen(p).to
<1>1. /\ pc[p] = "running" /\ i <= loaded[p]
      /\ Enter(p, name, d, i)
      /\ UNCHANGED <<txs, bank, stored, fresh, pc, loaded>>
  BY DEF Replay, Replaying, world, store
<1>2. /\ stored \in Seq(Delta) /\ Len(stored) \in Nat /\ DOMAIN stored = 1 .. Len(stored)
      /\ Chosen(p) \in Edge
      /\ i \in Nat /\ i >= 1 /\ loaded[p] \in Nat
      /\ loaded[p] <= Len(stored)
  <2>1. hist[p] \in Seq(Snapshot) /\ hist[p] # << >> /\ loaded[p] \in Nat
    BY <1>1 DEF TypeInv, TypeOK
  <2> QED BY <1>1, <2>1, AtWork DEF TypeInv, LoadedStored, Working
<1>3. d \in Delta
  BY <1>1, <1>2 DEF Replayed
<1>4. name \in States
  BY <1>2, <1>3, EdgeType DEF Delta
<1> HIDE DEF d, name, i
<1>5. /\ (Current(p).at)' = i
      /\ \A q \in Executors : q # p => (Current(q).at)' = Current(q).at
  BY <1>1, <1>2, <1>3, <1>4, Entered
<1>6. /\ FreshLocks' /\ LocksStored' /\ OneTxPerLock'
      /\ (LocksBeforePaying => OnePaymentPerLock)'
  BY <1>1 DEF LockInv, FreshLocks, LocksStored, LockPlace, OneTxPerLock,
              OnePaymentPerLock, LocksBeforePaying
<1>7. LockAge'
  BY <1>1, <1>2, <1>5 DEF LockInv, LockAge, Working
<1>8. i \notin fresh /\ \A j \in fresh : i # j
  <2>1. \A j \in fresh : j > loaded[p] /\ j \in Nat
    BY <1>1 DEF LockInv, LockAge, Working, TypeInv, TypeOK
  <2> QED BY <1>1, <1>2, <2>1
<1>9. LockOwned'
  BY <1>1, <1>5, <1>8 DEF LockInv, LockOwned, Working
<1>10. LockUnused'
  BY <1>1, <1>5, <1>8 DEF LockInv, LockUnused, LocksBeforePaying
<1> QED BY <1>6, <1>7, <1>9, <1>10 DEF LockInv

\* A transition acts under the lock its container ends in, which is unused,
\* and stops running.
LEMMA LockShape ==
    ASSUME TypeInv, LockInv, NEW p \in Executors, Transition(p)
    PROVE  LockInv'
<1> DEFINE at == Current(p).at
<1>1. Shape(p)
  BY TransitionShape
<1>2. pc[p] = "running" /\ UNCHANGED <<stored, fresh>>
  BY <1>1 DEF Shape, Answers, Returns, ReturnsNull
<1>3. /\ pc'[p] # "running"
      /\ \A q \in Executors : q # p => pc'[q] = pc[q]
      /\ \A q \in Executors : Working(q)' =>
            Working(q) /\ loaded'[q] = loaded[q] /\ (Current(q).at)' = Current(q).at
  <2>1. /\ pc \in [Executors -> {"idle", "running", "storing"}]
        /\ loaded \in [Executors -> Nat]
        /\ hist \in [Executors -> Seq(Snapshot)]
    BY DEF TypeInv, TypeOK
  <2>2. CASE ReturnsNull(p)
    <3>1. /\ pc' = [pc EXCEPT ![p] = "idle"]
          /\ loaded' = [loaded EXCEPT ![p] = 0]
          /\ hist' = [hist EXCEPT ![p] = << >>]
      BY <2>2 DEF ReturnsNull, Idle
    <3>2. pc'[p] = "idle" /\ \A q \in Executors : q # p =>
             pc'[q] = pc[q] /\ loaded'[q] = loaded[q] /\ hist'[q] = hist[q]
      BY <2>1, <3>1
    <3> QED BY <3>2 DEF Working, Current
  <2>3. CASE \E d \in Delta : Returns(p, d)
    <3>1. pc' = [pc EXCEPT ![p] = "storing"] /\ UNCHANGED <<loaded, hist>>
      BY <2>3 DEF Returns
    <3>2. pc'[p] = "storing" /\ \A q \in Executors : q # p => pc'[q] = pc[q]
      BY <2>1, <3>1
    <3> QED BY <1>2, <3>1, <3>2 DEF Working, Current
  <2> QED BY <1>1, <2>2, <2>3 DEF Shape, Answers
<1>4. /\ FreshLocks'
      /\ \A i : LockPlace(i)' <=> LockPlace(i)
  BY <1>2 DEF LockInv, FreshLocks, LockPlace
<1>5. LockAge' /\ LockOwned'
  BY <1>2, <1>3 DEF LockInv, LockAge, LockOwned
<1>6. CASE Quiet
  <2>1. LocksStored' /\ OneTxPerLock' /\ (LocksBeforePaying => OnePaymentPerLock)'
    BY <1>4, <1>6 DEF Quiet, LockInv, LocksStored, OneTxPerLock,
                      OnePaymentPerLock, LocksBeforePaying
  <2>2. LockUnused'
    BY <1>2, <1>3, <1>6 DEF Quiet, LockInv, LockUnused, LocksBeforePaying, Working
  <2> QED BY <1>4, <1>5, <2>1, <2>2 DEF LockInv
<1>7. CASE Sends(p)
  <2>1. at \in fresh
    BY <1>7 DEF Sends, LockHeld
  <2>2. PICK tx \in TxRecord : tx.lock = at /\ txs' = Append(txs, tx)
    BY <1>7 DEF Sends
  <2>3. bank' = bank
    BY <1>7 DEF Sends
  <2>4. /\ DOMAIN txs = 1 .. Len(txs) /\ Len(txs) \in Nat
        /\ DOMAIN txs' = 1 .. Len(txs) + 1
        /\ \A h \in 1 .. Len(txs) : txs'[h] = txs[h]
        /\ txs'[Len(txs) + 1].lock = at
    BY <2>2, Appended DEF TypeInv, TypeOK
  <2>5. LocksStored' /\ (LocksBeforePaying => OnePaymentPerLock)'
    BY <1>4, <2>1, <2>3, <2>4 DEF LockInv, FreshLocks, LocksStored,
                                  OnePaymentPerLock, LocksBeforePaying
  <2>6. \A h \in DOMAIN txs : txs[h].lock # at
    BY <1>2, <2>1 DEF LockInv, LockUnused
  <2>7. OneTxPerLock'
    BY <2>4, <2>6 DEF LockInv, OneTxPerLock
  <2>8. LockUnused'
    <3> SUFFICES ASSUME NEW q \in Executors, pc'[q] = "running", (Current(q).at)' \in fresh'
                 PROVE  /\ \A h \in DOMAIN txs' : txs'[h].lock # (Current(q).at)'
                        /\ LocksBeforePaying =>
                              \A i \in DOMAIN bank' : bank'[i].lock # (Current(q).at)'
      BY DEF LockUnused, LocksBeforePaying
    <3>1. q # p /\ pc[q] = "running" /\ Current(q).at \in fresh
          /\ (Current(q).at)' = Current(q).at
      BY <1>2, <1>3 DEF Working
    <3>2. Current(p).at # Current(q).at
      BY <1>2, <3>1 DEF LockInv, LockOwned, Working
    <3>3. \A h \in DOMAIN txs : txs[h].lock # Current(q).at
      BY <3>1 DEF LockInv, LockUnused
    <3>4. LocksBeforePaying => \A i \in DOMAIN bank : bank[i].lock # Current(q).at
      BY <3>1 DEF LockInv, LockUnused
    <3> QED BY <2>3, <2>4, <3>1, <3>2, <3>3, <3>4
  <2> QED BY <1>4, <1>5, <2>5, <2>7, <2>8 DEF LockInv
<1>8. CASE Pays(p)
  <2>1. LocksBeforePaying => at \in fresh
    <3>1. Chosen(p).run = "sendETransfer" => ~ LocksBeforePaying
      BY DEF Chosen, NoEdge, LocksBeforePaying, Graph, TypeInv, TypeOK
    <3> QED BY <1>8, <3>1 DEF Pays, LockHeld
  <2>2. PICK b \in BankRecord : b.lock = at /\ bank' = Append(bank, b)
    BY <1>8 DEF Pays
  <2>3. txs' = txs
    BY <1>8 DEF Pays
  <2>4. /\ DOMAIN bank = 1 .. Len(bank) /\ Len(bank) \in Nat
        /\ DOMAIN bank' = 1 .. Len(bank) + 1
        /\ \A i \in 1 .. Len(bank) : bank'[i] = bank[i]
        /\ bank'[Len(bank) + 1].lock = at
    BY <2>2, Appended DEF TypeInv, TypeOK
  <2>5. OneTxPerLock'
    BY <2>3 DEF LockInv, OneTxPerLock
  <2>6. LocksStored'
    BY <1>4, <2>1, <2>3, <2>4 DEF LockInv, FreshLocks, LocksStored, LocksBeforePaying
  <2>7. LocksBeforePaying => \A i \in DOMAIN bank : bank[i].lock # at
    BY <1>2, <2>1 DEF LockInv, LockUnused
  <2>8. (LocksBeforePaying => OnePaymentPerLock)'
    BY <2>4, <2>7 DEF LockInv, OnePaymentPerLock, LocksBeforePaying
  <2>9. LockUnused'
    <3> SUFFICES ASSUME NEW q \in Executors, pc'[q] = "running", (Current(q).at)' \in fresh'
                 PROVE  /\ \A h \in DOMAIN txs' : txs'[h].lock # (Current(q).at)'
                        /\ LocksBeforePaying =>
                              \A i \in DOMAIN bank' : bank'[i].lock # (Current(q).at)'
      BY DEF LockUnused, LocksBeforePaying
    <3>1. q # p /\ pc[q] = "running" /\ Current(q).at \in fresh
          /\ (Current(q).at)' = Current(q).at
      BY <1>2, <1>3 DEF Working
    <3>2. Current(p).at # Current(q).at
      BY <1>2, <3>1 DEF LockInv, LockOwned, Working
    <3>3. \A h \in DOMAIN txs : txs[h].lock # Current(q).at
      BY <3>1 DEF LockInv, LockUnused
    <3>4. LocksBeforePaying => \A i \in DOMAIN bank : bank[i].lock # Current(q).at
      BY <3>1 DEF LockInv, LockUnused
    <3> QED BY <2>3, <2>4, <3>1, <3>2, <3>3, <3>4
  <2> QED BY <1>4, <1>5, <2>5, <2>6, <2>8, <2>9 DEF LockInv
<1> QED BY <1>1, <1>6, <1>7, <1>8 DEF Shape

\* A new lock has a place of its own in the history, and no one has used it.
LEMMA LockStore ==
    ASSUME TypeInv, LockInv, NEW p \in Executors, Store(p)
    PROVE  LockInv'
<1> DEFINE n == Len(stored) + 1
           d == delta[p]
           name == Chosen(p).to
<1>1. /\ pc[p] = "storing"
      /\ stored' = Append(stored, d)
      /\ fresh' = IF d.type = "preTransfer" THEN fresh \cup {n} ELSE fresh
      /\ Enter(p, name, d, n)
      /\ UNCHANGED <<txs, bank, loaded>>
  BY DEF Store, world
<1>2. /\ stored \in Seq(Delta) /\ Len(stored) \in Nat /\ n \in Nat
      /\ d \in Delta /\ name \in States
      /\ fresh \subseteq 1 .. Len(stored)
      /\ loaded \in [Executors -> Nat]
  BY <1>1, AtWork, EdgeType DEF TypeInv, TypeOK
<1>3. /\ (Current(p).at)' = n
      /\ \A q \in Executors : q # p => (Current(q).at)' = Current(q).at
  BY <1>1, <1>2, Entered
<1>4. \A q \in Executors : Working(q)' => Working(q)
  BY <1>1 DEF Store, Working, TypeInv, TypeOK
<1>5. \A q \in Executors : q # p => pc'[q] = pc[q]
  BY DEF Store, TypeInv, TypeOK
<1>6. /\ DOMAIN stored = 1 .. Len(stored) /\ DOMAIN stored' = 1 .. n
      /\ Len(stored') = n
      /\ \A i \in 1 .. Len(stored) : stored'[i] = stored[i]
      /\ stored'[n] = d
  BY <1>1, <1>2, Appended
<1> HIDE DEF name, d
<1>7. /\ \A i : LockPlace(i) => LockPlace(i)' /\ i <= Len(stored) /\ i # n
      /\ \A i \in fresh' : i \in fresh \/ (i = n /\ d.type = "preTransfer")
      /\ \A i \in fresh : i \in fresh' /\ i # n
  BY <1>1, <1>2, <1>6 DEF LockPlace
<1>8. FreshLocks'
  <2> SUFFICES ASSUME NEW i \in fresh' PROVE LockPlace(i)'
    BY DEF FreshLocks
  <2>1. CASE i \in fresh
    BY <1>7, <2>1 DEF LockInv, FreshLocks
  <2>2. CASE i = n /\ d.type = "preTransfer"
    <3>1. n \in DOMAIN stored' /\ stored'[n].type = "preTransfer"
      BY <1>2, <1>6, <2>2
    <3> QED BY <2>2, <3>1 DEF LockPlace
  <2> QED BY <1>7, <2>1, <2>2
<1>9. LocksStored' /\ OneTxPerLock' /\ (LocksBeforePaying => OnePaymentPerLock)'
  BY <1>1, <1>7 DEF LockInv, LocksStored, OneTxPerLock, OnePaymentPerLock,
                    LocksBeforePaying
<1>10. \A q \in Executors : Working(q) =>
          /\ loaded[q] \in Nat /\ loaded[q] <= Len(stored)
          /\ Current(q).at \in Nat /\ Current(q).at <= Len(stored)
  BY <1>2, AtWork DEF LockInv, LockAge, Working
<1>11. LockAge'
  <2> SUFFICES ASSUME NEW q \in Executors, Working(q)'
               PROVE  /\ loaded'[q] <= Len(stored')
                      /\ (Current(q).at)' <= Len(stored')
                      /\ \A i \in fresh' : i > loaded'[q]
    BY DEF LockAge
  <2>1. Working(q) /\ loaded'[q] = loaded[q]
    BY <1>1, <1>4
  <2>2. (Current(q).at)' = n \/ (Current(q).at)' = Current(q).at
    BY <1>3
  <2>3. loaded'[q] <= Len(stored') /\ (Current(q).at)' <= Len(stored')
    BY <1>2, <1>6, <1>10, <2>1, <2>2
  <2>4. \A i \in fresh : i > loaded[q]
    BY <2>1 DEF LockInv, LockAge
  <2>5. n > loaded[q]
    BY <1>2, <1>10, <2>1
  <2>6. ASSUME NEW i \in fresh' PROVE i > loaded'[q]
    BY <1>7, <2>1, <2>4, <2>5
  <2> QED BY <2>3, <2>6
<1>12. LockOwned'
  <2> SUFFICES ASSUME NEW a \in Executors, NEW b \in Executors, a # b,
                      Working(a)', Working(b)', (Current(a).at)' \in fresh'
               PROVE  (Current(b).at)' # (Current(a).at)'
    BY DEF LockOwned
  <2>1. Working(a) /\ Working(b)
    BY <1>4
  <2>2. Current(a).at # n /\ Current(b).at # n
    BY <1>2, <1>10, <2>1
  <2>3. CASE a = p
    BY <1>3, <2>2, <2>3
  <2>4. CASE b = p
    BY <1>3, <2>2, <2>4
  <2>5. CASE a # p /\ b # p
    <3>1. /\ (Current(a).at)' = Current(a).at
          /\ (Current(b).at)' = Current(b).at
      BY <1>3, <2>5
    <3>2. Current(a).at \in fresh
      BY <1>7, <2>2, <3>1
    <3> QED BY <2>1, <3>1, <3>2 DEF LockInv, LockOwned
  <2> QED BY <2>3, <2>4, <2>5
<1>13. LockUnused'
  <2> SUFFICES ASSUME NEW q \in Executors, pc'[q] = "running", (Current(q).at)' \in fresh'
               PROVE  /\ \A h \in DOMAIN txs : txs[h].lock # (Current(q).at)'
                      /\ LocksBeforePaying =>
                            \A i \in DOMAIN bank : bank[i].lock # (Current(q).at)'
    BY <1>1 DEF LockUnused, LocksBeforePaying
  <2>1. CASE q = p
    <3>1. \A h \in DOMAIN txs : txs[h].lock # n
      BY <1>2, <1>7 DEF LockInv, LocksStored
    <3>2. LocksBeforePaying => \A i \in DOMAIN bank : bank[i].lock # n
      BY <1>7 DEF LockInv, LocksStored
    <3> QED BY <1>3, <2>1, <3>1, <3>2
  <2>2. CASE q # p
    <3>1. pc[q] = "running" /\ (Current(q).at)' = Current(q).at
      BY <1>3, <1>5, <2>2
    <3>2. Current(q).at \in fresh
      BY <1>2, <1>7, <1>10, <3>1 DEF Working
    <3> QED BY <3>1, <3>2 DEF LockInv, LockUnused
  <2> QED BY <2>1, <2>2
<1> QED BY <1>8, <1>9, <1>11, <1>12, <1>13 DEF LockInv

\* An execution that ends takes nothing from the others.
LEMMA LockStop ==
    ASSUME TypeInv, LockInv, NEW p \in Executors, Idle(p), UNCHANGED <<world, store>>
    PROVE  LockInv'
<1>1. UNCHANGED <<txs, bank, stored, fresh>>
  BY DEF world, store
<1>2. \A q \in Executors : Working(q)' =>
         /\ pc'[q] = pc[q] /\ Working(q) /\ loaded'[q] = loaded[q]
         /\ (Current(q).at)' = Current(q).at
  <2>1. /\ pc'[p] = "idle"
        /\ \A q \in Executors : q # p =>
              pc'[q] = pc[q] /\ loaded'[q] = loaded[q] /\ hist'[q] = hist[q]
    BY DEF Idle, TypeInv, TypeOK
  <2> QED BY <2>1 DEF Working, Current
<1>3. FreshLocks' /\ LocksStored' /\ OneTxPerLock' /\ (LocksBeforePaying => OnePaymentPerLock)'
  BY <1>1 DEF LockInv, FreshLocks, LocksStored, LockPlace, OneTxPerLock,
              OnePaymentPerLock, LocksBeforePaying
<1>4. LockAge' /\ LockOwned'
  BY <1>1, <1>2 DEF LockInv, LockAge, LockOwned
<1>5. LockUnused'
  BY <1>1, <1>2 DEF LockInv, LockUnused, LocksBeforePaying, Working
<1> QED BY <1>3, <1>4, <1>5 DEF LockInv

\* The steps of the environment leave the locks of calls already made alone.
LEMMA LockEnvironment ==
    ASSUME TypeInv, LockInv, UNCHANGED <<run, bank>>,
           fresh' \subseteq fresh,
           \A i : LockPlace(i) => LockPlace(i)',
           Len(stored) <= Len(stored') \/ \A p \in Executors : pc[p] = "idle",
           Len(stored') \in Nat,
           DOMAIN txs \subseteq DOMAIN txs',
           \A h \in DOMAIN txs' : \/ h \in DOMAIN txs /\ txs'[h].lock = txs[h].lock
                                  \/ txs'[h].lock = 0
    PROVE  LockInv'
<1>1. \A q \in Executors : /\ pc'[q] = pc[q] /\ loaded'[q] = loaded[q]
                           /\ (Current(q).at)' = Current(q).at
                           /\ Working(q)' <=> Working(q)
  BY DEF run, Current, Working
<1>2. FreshLocks' /\ LocksStored'
  BY DEF LockInv, FreshLocks, LocksStored, LocksBeforePaying
<1>3. OneTxPerLock' /\ (LocksBeforePaying => OnePaymentPerLock)'
  BY DEF LockInv, OneTxPerLock, OnePaymentPerLock, LocksBeforePaying
<1>4. LockAge'
  <2> SUFFICES ASSUME NEW q \in Executors, Working(q)'
               PROVE  /\ loaded'[q] <= Len(stored')
                      /\ (Current(q).at)' <= Len(stored')
                      /\ \A i \in fresh' : i > loaded'[q]
    BY DEF LockAge
  <2>1. Working(q) /\ Len(stored) <= Len(stored')
    BY <1>1 DEF Working
  <2>2. /\ loaded[q] <= Len(stored) /\ Current(q).at <= Len(stored)
        /\ \A i \in fresh : i > loaded[q]
    BY <2>1 DEF LockInv, LockAge
  <2>3. loaded[q] \in Nat /\ Current(q).at \in Nat /\ Len(stored) \in Nat
    BY <2>1, AtWork DEF Working, TypeInv, TypeOK
  <2> QED BY <1>1, <2>1, <2>2, <2>3
<1>5. LockOwned'
  BY <1>1 DEF LockInv, LockOwned
<1>6. LockUnused'
  <2> SUFFICES ASSUME NEW q \in Executors, pc'[q] = "running", (Current(q).at)' \in fresh'
               PROVE  /\ \A h \in DOMAIN txs' : txs'[h].lock # (Current(q).at)'
                      /\ LocksBeforePaying =>
                            \A i \in DOMAIN bank' : bank'[i].lock # (Current(q).at)'
    BY DEF LockUnused, LocksBeforePaying
  <2>1. pc[q] = "running" /\ Current(q).at \in fresh /\ (Current(q).at)' = Current(q).at
    BY <1>1
  <2>2. Current(q).at # 0
    BY <2>1 DEF TypeInv, TypeOK
  <2> QED BY <2>1, <2>2 DEF LockInv, LockUnused
<1> QED BY <1>2, <1>3, <1>4, <1>5, <1>6 DEF LockInv

LEMMA LockWorld ==
    ASSUME TypeInv, LockInv, WorldNext, UNCHANGED <<store, run, limits>>
    PROVE  LockInv'
<1>1. /\ Len(txs) \in Nat /\ Len(txs') \in Nat /\ Len(txs) <= Len(txs')
      /\ DOMAIN txs = 1 .. Len(txs) /\ DOMAIN txs' = 1 .. Len(txs')
      /\ \A h \in DOMAIN txs' : \/ h \in DOMAIN txs /\ txs'[h].lock = txs[h].lock
                                \/ txs'[h].lock = 0
      /\ bank' = bank
  BY WorldEffect DEF TypeInv, TypeOK
<1>2. /\ Len(stored) \in Nat /\ UNCHANGED <<stored, fresh>>
      /\ \A i : LockPlace(i) => LockPlace(i)'
  BY DEF store, LockPlace, TypeInv, TypeOK
<1> QED BY <1>1, <1>2, LockEnvironment

LEMMA LockExpired ==
    ASSUME TypeInv, LockInv, NEW i \in fresh, LockExpires(i)
    PROVE  LockInv'
<1>1. /\ UNCHANGED <<txs, bank, stored, run>>
      /\ fresh' \subseteq fresh
      /\ \A j : LockPlace(j) => LockPlace(j)'
      /\ Len(stored) \in Nat
  BY DEF LockExpires, world, LockPlace, TypeInv, TypeOK
<1> QED BY <1>1, LockEnvironment

LEMMA LockOverride ==
    ASSUME TypeInv, LockInv, NEW s \in Offered[kind], AdminOverride(s)
    PROVE  LockInv'
<1> DEFINE d == [Plain("manualOverride") EXCEPT !.meta = s]
<1>1. d \in Delta
  <2>1. "manualOverride" \in Types /\ s \in States
    BY GraphType DEF Types, Callbacks, TypeInv, TypeOK
  <2> DEFINE z == Plain("manualOverride")
  <2>2. z \in Delta
    BY <2>1, PlainType
  <2> HIDE DEF z
  <2>3. [z EXCEPT !.meta = s] \in Delta
    BY <2>1, <2>2 DEF Delta
  <2> QED BY <2>3 DEF z
<1>2. /\ stored' = Append(stored, d)
      /\ UNCHANGED <<txs, bank, fresh, run>>
  BY DEF AdminOverride, world
<1> HIDE DEF d
<1>3. /\ Len(stored) \in Nat /\ Len(stored') = Len(stored) + 1
      /\ DOMAIN stored = 1 .. Len(stored) /\ DOMAIN stored' = 1 .. Len(stored) + 1
      /\ \A i \in 1 .. Len(stored) : stored'[i] = stored[i]
  BY <1>1, <1>2, Appended DEF TypeInv, TypeOK
<1>4. \A i : LockPlace(i) => LockPlace(i)'
  BY <1>3 DEF LockPlace
<1>5. Len(stored) <= Len(stored') /\ Len(stored') \in Nat
  BY <1>3
<1> QED BY <1>2, <1>4, <1>5, LockEnvironment

LEMMA LockReturned ==
    ASSUME TypeInv, LockInv, ETransferReturned
    PROVE  LockInv'
<1>1. /\ UNCHANGED <<txs, bank, fresh, run>>
      /\ \A p \in Executors : pc[p] = "idle"
  BY DEF ETransferReturned
<1>2. Len(stored') \in Nat /\ \A i : LockPlace(i) => LockPlace(i)'
  BY ReturnedHistory DEF LockPlace
<1> QED BY <1>1, <1>2, LockEnvironment

LEMMA LockStep == ~ QuickRestart /\ TypeInv /\ LockInv /\ [Next]_vars => LockInv'
<1> SUFFICES ASSUME ~ QuickRestart, TypeInv, LockInv, [Next]_vars
             PROVE  LockInv'
  OBVIOUS
<1>1. ASSUME NEW p \in Executors, Execute(p) PROVE LockInv'
  <2>1. CASE Start(p)
    BY <2>1, LockStart
  <2>2. CASE Replay(p)
    BY <2>2, LockReplay
  <2>3. CASE Transition(p)
    BY <2>3, LockShape
  <2>4. CASE Store(p)
    BY <2>4, LockStore
  <2>5. CASE Leave(p)
    BY <2>5, LockStop DEF Leave
  <2> QED BY <1>1, <2>1, <2>2, <2>3, <2>4, <2>5 DEF Execute
<1>2. ASSUME NEW p \in Executors, Crash(p) PROVE LockInv'
  BY <1>2, LockStop DEF Crash
<1>3. CASE Environment
  <2>1. CASE WorldNext /\ UNCHANGED <<store, run, limits>>
    BY <2>1, LockWorld
  <2>2. ASSUME NEW i \in fresh, LockExpires(i) PROVE LockInv'
    BY <2>2, LockExpired
  <2>3. ASSUME NEW s \in Offered[kind], AdminOverride(s) PROVE LockInv'
    BY <2>3, LockOverride
  <2> QED BY <1>3, <2>1, <2>2, <2>3, LockReturned DEF Environment
<1>4. CASE UNCHANGED vars
  <2>1. UNCHANGED <<txs, bank, stored, fresh, run>>
    BY <1>4 DEF vars, world, store
  <2>2. Len(stored) \in Nat /\ \A i : LockPlace(i) => LockPlace(i)'
    BY <2>1 DEF LockPlace, TypeInv, TypeOK
  <2> QED BY <2>1, <2>2, LockEnvironment
<1> QED BY <1>1, <1>2, <1>3, <1>4 DEF Next, Finished

\* Runs further apart than a lock's two minutes keep the invariant on which
\* the next two theorems rest: who holds a fresh lock stored it, has loaded
\* nothing younger, and has not used it before it stores again.
THEOREM LocksKept == ~ QuickRestart => (Spec => []LockInv)
<1> SUFFICES ASSUME ~ QuickRestart PROVE Spec => []LockInv
  OBVIOUS
<1>1. Init => TypeInv /\ LockInv
  BY TypeInit, LockInit
<1>2. (TypeInv /\ LockInv) /\ [Next]_vars => (TypeInv /\ LockInv)'
  BY TypeStep, LockStep
<1> QED BY <1>1, <1>2, PTL DEF Spec

\* Runs further apart than a lock's two minutes never send two transactions
\* under one lock: for every graph, any number of executors of the action,
\* and wherever they crash, a preTransfer opens the way for one call.
THEOREM LockOpensOnce == ~ QuickRestart => (Spec => []OneTxPerLock)
<1>1. LockInv => OneTxPerLock
  BY DEF LockInv
<1> QED BY <1>1, LocksKept, PTL

\* The same of the bank, in graphs whose every payment verifies its lock:
\* all but the one for sales, whose sendETransfer does not.
THEOREM LockPaysOnce ==
    ~ QuickRestart /\ LocksBeforePaying => (Spec => []OnePaymentPerLock)
<1> SUFFICES ASSUME ~ QuickRestart, LocksBeforePaying
             PROVE  Spec => []OnePaymentPerLock
  OBVIOUS
<1>1. LockInv => OnePaymentPerLock
  BY DEF LockInv
<1>2. Spec => []LockInv
  BY LocksKept
<1> QED BY <1>1, <1>2, PTL
=============================================================================
