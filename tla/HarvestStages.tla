--------------------------- MODULE HarvestStages ---------------------------
(***************************************************************************)
(* The steps of a harvest (apps/harvester/src/Harvester/steps), as         *)
(* functions.  A step sees the accounts v as they were read at the start   *)
(* of the run, and the state s that the steps before it have left.         *)
(***************************************************************************)
EXTENDS Integers

CONSTANTS None,                        \* undefined
          RoundPoint, Percent,         \* arguments of the steps
          ChequeLimit, TransferMax, MinTransfer, KeepBack,
          TopUpAmount, TopUpEvery,
          Window,                      \* three weeks
          Patience                     \* six days

ASSUME StagesAssumption ==
    /\ None \notin Int
    /\ RoundPoint \in Nat \ {0}
    /\ {Percent, ChequeLimit, TransferMax, MinTransfer, KeepBack,
        TopUpAmount, TopUpEvery, Window, Patience} \subseteq Nat

Maybe == Int \cup {None}

\* The part of the state that is saved from run to run.
State == [balance : Maybe,      \* harvesterBalance
          transfer : Maybe,     \* toETransfer
          pending : Maybe,      \* toPayVisa
          payOn : Maybe,        \* toPayVisaDate
          lastDue : Maybe,      \* stepData: PayVisa
          lastAmount : Maybe,   \* stepData: PayVisaAmount
          lastTop : Maybe]      \* stepData: TopUp

\* An entry of the card's history.
Entry == [on : Nat, amount : Int]

View == [chq : Int, owing : Int, date : Nat, amount : Int, at : Nat,
         history : SUBSET Entry]

OrZero(x) == IF x = None THEN 0 ELSE x
Smaller(x, y) == IF x < y THEN x ELSE y
Larger(x, y) == IF x < y THEN y ELSE x

-----------------------------------------------------------------------------
\* A pending payment has been made: an entry of the card has its amount, or it
\* is six days late.
LastPaymentSettled(v, s) ==
    /\ v.at >= s.payOn
    /\ \/ s.pending = 0
       \/ \E h \in v.history : h.on >= s.payOn /\ h.amount = s.pending
       \/ s.payOn < v.at - Patience

ClearPendingVisa(v, s) ==
    IF s.pending # None /\ LastPaymentSettled(v, s)
    THEN [s EXCEPT !.balance = OrZero(@) - s.pending, !.pending = None, !.payOn = None]
    ELSE [s EXCEPT !.balance = OrZero(@)]

\* Mutant: what the harvester believes is never corrected.
BelieveBalance(s, actual) == s

\* The harvester has at most what the account has.  (A balance of 0 is taken
\* for one that could not be read.)
EnsureHarvesterBalance(s, actual) ==
    IF s.balance # None /\ actual # 0 /\ s.balance - OrZero(s.pending) > actual
    THEN [s EXCEPT !.balance = actual + OrZero(s.pending)]
    ELSE s

\* This step changes what the later ones see of the card.
ProcessPercent(v) == [v EXCEPT !.owing = (@ * Percent) \div 100,
                               !.amount = (@ * Percent) \div 100]

TransferVisaOwing(v, s) ==
    LET owed == v.owing - OrZero(s.balance)
    IN [s EXCEPT !.transfer = IF owed > 0 THEN owed ELSE None]

RoundUp(s) == [s EXCEPT !.transfer = -((-@) \div RoundPoint) * RoundPoint]

TransferEverything(v, s) == [s EXCEPT !.transfer = v.chq]

TopUp(v, s) ==
    IF s.lastTop = None \/ s.lastTop + TopUpEvery < v.at
    THEN [s EXCEPT !.transfer = @ + TopUpAmount,
                   !.balance = OrZero(@) - TopUpAmount,
                   !.lastTop = v.at]
    ELSE s

ChequeMinimum(v, s) ==
    [s EXCEPT !.transfer = Smaller(@, v.chq - Smaller(ChequeLimit, v.chq))]

TransferLimit(s) == [s EXCEPT !.transfer = Smaller(@, TransferMax)]

Calculations == {"ClearPendingVisa", "ProcessPercent", "TransferVisaOwing",
                 "TransferEverything", "RoundUp", "TopUp", "ChequeMinimum", "TransferLimit"}

\* The order in which the steps are configured (a heartbeat has no effect here).
StepOrder == <<"ClearPendingVisa", "EnsureHarvesterBalance", "ProcessPercent",
               "TransferVisaOwing", "RoundUp", "TransferEverything", "TopUp", "ChequeMinimum",
               "TransferLimit", "SendETransfer", "PayVisa">>

\* Steps in that order, none of them twice.
InOrder(names) ==
    \A j, k \in DOMAIN names : \A a, b \in DOMAIN StepOrder :
        j < k /\ names[j] = StepOrder[a] /\ names[k] = StepOrder[b] => a < b

\* What a step that only calculates makes of the accounts and the state.  Four
\* of them do nothing when there is nothing to transfer.
Calculated(name, v, s) ==
    CASE name = "ClearPendingVisa" -> ClearPendingVisa(v, s)
      [] name = "TransferVisaOwing" -> TransferVisaOwing(v, s)
      [] name = "TransferEverything" -> TransferEverything(v, s)
      [] name = "RoundUp" /\ s.transfer # None -> RoundUp(s)
      [] name = "TopUp" /\ s.transfer # None -> TopUp(v, s)
      [] name = "ChequeMinimum" /\ s.transfer # None -> ChequeMinimum(v, s)
      [] name = "TransferLimit" /\ s.transfer # None -> TransferLimit(s)
      [] OTHER -> s

Reduced(name, v) == IF name = "ProcessPercent" THEN ProcessPercent(v) ELSE v

-----------------------------------------------------------------------------
(* The two steps that move money.                                          *)

WantsTransfer(s) == s.transfer # None /\ s.transfer >= MinTransfer

ToTransfer(v, s) == Smaller(s.transfer, v.chq - KeepBack)

Transferred(v, s) == [s EXCEPT !.transfer = None,
                               !.balance = OrZero(@) + ToTransfer(v, s)]

\* Mutant: a new due date is enough.
WantsPaymentEarly(v, s) == s.lastDue # None => v.date > s.lastDue

\* There is a new due date, and its amount is known to be new as well or it is
\* less than three weeks away.
WantsPayment(v, s) ==
    /\ s.lastDue # None => v.date > s.lastDue
    /\ \/ s.lastAmount \notin {None, v.amount}
       \/ v.date - v.at < Window

\* What is due, or less if the owner has paid some of it.
ToPay(v) == Smaller(v.amount, v.owing)

\* On the due date (the days before it that are configured have no effect), or
\* today when that is over.
DateToPay(v) == Larger(v.date, v.at)

\* Mutant: the due date of the payment is not remembered.
PaidNoDate(v, s, amount) ==
    [s EXCEPT !.pending = amount, !.payOn = DateToPay(v), !.lastAmount = v.amount]

Paid(v, s, amount) ==
    [s EXCEPT !.pending = amount, !.payOn = DateToPay(v),
              !.lastDue = v.date, !.lastAmount = v.amount]
=============================================================================
