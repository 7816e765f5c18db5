------------------------------ MODULE TxWorld ------------------------------
(***************************************************************************)
(* What the transitions of a transaction graph act upon: the chain (the    *)
(* TheCoin contract and its UberConverter plugin, as one client's action   *)
(* sees them) and the broker's bank.  Amounts of coin and fiat are small   *)
(* naturals; `Rates' are the prices a conversion may meet.                 *)
(***************************************************************************)
EXTENDS Integers, Sequences

CONSTANTS Value,      \* amount of the client's request
          Rates,      \* fiat per coin, at the times a conversion may settle
          TxMayFail   \* may a submitted transaction be mined with status 0?

ASSUME WorldAssumption == /\ Value \in Nat \ {0}
                          /\ Rates \subseteq Nat \ {0}
                          /\ TxMayFail \in BOOLEAN

VARIABLES txs,      \* transactions submitted to the chain; a hash is an index
          bank,     \* payments and deposits the bank has executed, in order
          settled   \* has the clock passed the request's settlement date?

world == <<txs, bank, settled>>

TxKinds == {"certifiedTransfer", "uberTransfer", "processPending",
            "exactTransfer", "pluginRequest"}

\* `moved' is the amount of the ExactTransfer event in the receipt (0: none),
\* `lock' the place in the action's history of the preTransfer that opened
\* the way for the call (0: the call was made by a stranger).
TxRecord == [kind : TxKinds, amount : Nat, moved : Nat,
             status : {"pending", "mined", "failed"}, lock : Nat]

BankRecord == [kind : {"payBill", "sendETransfer", "depositETransfer"},
               amount : Nat, lock : Nat]

WorldInit == /\ txs = << >>
             /\ bank = << >>
             /\ settled = FALSE

Mined(kind) == {h \in DOMAIN txs : txs[h].kind = kind /\ txs[h].status = "mined"}

\* A mined transaction of this kind has moved coin.
Moved(kind) == \E h \in Mined(kind) : txs[h].moved > 0

(***************************************************************************)
(* Would the contract accept this call now?  Calls signed by the client    *)
(* carry a timestamp that must exceed the last one accepted; a pending     *)
(* transfer may be processed once its date has passed, and processing      *)
(* nothing is not refused.                                                 *)
(***************************************************************************)
SignedByClient == {"certifiedTransfer", "uberTransfer", "pluginRequest"}

\* Mutant: the contract forgets the timestamps it has accepted.
ExecutableAgain(kind) == kind = "processPending" => settled

Executable(kind) == /\ kind \in SignedByClient => Mined(kind) = {}
                    /\ kind = "processPending" => settled

\* Is a transfer registered with the converter and not yet processed?
Registered == /\ \E h \in Mined("uberTransfer") : txs[h].moved = 0
              /\ ~ Moved("processPending")

\* What the call moves when it is mined now.
Moves(tx) ==
    IF \/ tx.kind \in {"certifiedTransfer", "exactTransfer"}
       \/ tx.kind = "uberTransfer" /\ settled
       \/ tx.kind = "processPending" /\ Registered
    THEN tx.amount
    ELSE 0

Submitted(kind, amount, lock) ==
    Append(txs, [kind |-> kind, amount |-> amount, moved |-> 0,
                 status |-> "pending", lock |-> lock])

\* A block includes a pending transaction, whose call succeeds.
Mine(h) ==
    /\ txs[h].status = "pending"
    /\ Executable(txs[h].kind)
    /\ txs' = [txs EXCEPT ![h].status = "mined", ![h].moved = Moves(txs[h])]
    /\ UNCHANGED <<bank, settled>>

\* A block includes a pending transaction, whose call reverts.
Revert(h) ==
    /\ txs[h].status = "pending"
    /\ TxMayFail \/ ~ Executable(txs[h].kind)
    /\ txs' = [txs EXCEPT ![h].status = "failed"]
    /\ UNCHANGED <<bank, settled>>

\* processPending is public: anyone may process a registered transfer.
StrangerProcesses ==
    /\ Registered
    /\ Executable("processPending")
    /\ txs' = Append(txs, [kind |-> "processPending", amount |-> Value,
                           moved |-> Value, status |-> "mined", lock |-> 0])
    /\ UNCHANGED <<bank, settled>>

\* The request's date (uber transfers) or the next market opening passes.
Settle ==
    /\ ~ settled
    /\ settled' = TRUE
    /\ UNCHANGED <<txs, bank>>

WorldNext == \/ \E h \in DOMAIN txs : Mine(h) \/ Revert(h)
             \/ StrangerProcesses
             \/ Settle
=============================================================================
