----------------------------- MODULE Harvester -----------------------------
(***************************************************************************)
(* The harvester (apps/harvester/src/Harvester): every day it reads a      *)
(* chequing account and a credit card, moves the money that the card owes  *)
(* into the owner's coin account, and has each statement of the card paid  *)
(* from there on its due date.  A run keeps to itself the state it has     *)
(* loaded, and saves it at its end; the scheduler and the owner may have a *)
(* run each at once.                                                       *)
(***************************************************************************)
EXTENDS HarvestStages, SequencesExt

CONSTANTS Runners,      \* the scheduler, the owner
          Starts,       \* the steps that are configured, and what has been saved
                        \* of the statement before the first one here
          Earlier,      \* the amount of that statement
          ShownFrom, Closes, Due,    \* each statement's days: its due date is
                        \* shown, its amount is known, it is due
          Spending,     \* what the card is used for, each day
          Income,       \* what comes into the chequing account, each day
          Opening,      \* and what is there at first
          Cutoff,       \* five days
          Overrides,    \* balances that the owner enters
          MaxFaults     \* bound: what goes wrong, overlapping runs included

MaxDay == Len(Spending)
Statements == 1 .. Len(Due)

ASSUME HarvesterAssumption ==
    /\ ShownFrom \in Seq(Nat) /\ Closes \in Seq(Nat) /\ Due \in Seq(Nat)
    /\ Len(ShownFrom) = Len(Due) /\ Len(Closes) = Len(Due)
    /\ Len(Due) > 0 /\ ShownFrom[1] = 0
    /\ \A i \in Statements : 0 < Closes[i] /\ Closes[i] + Window <= Due[i]
    /\ \A i, j \in Statements : i < j => Closes[i] < Closes[j] /\ Due[i] < Due[j]
    /\ IsFiniteSet(Runners)
    /\ Earlier \in Int
    /\ \A start \in Starts : /\ start.stages \in Seq(STRING) /\ InOrder(start.stages)
                             /\ {start.lastDue, start.lastAmount} \subseteq Maybe
                             /\ start.lastAmount # None =>
                                    start.lastDue # None /\ start.lastDue < Due[1]
    /\ Spending \in Seq(Nat) /\ Income \in Seq(Nat) /\ Len(Income) = Len(Spending)
    /\ Opening \in Nat /\ Cutoff \in Nat
    /\ Overrides \subseteq Int
    /\ MaxFaults \in Nat

VARIABLES day,
          chq, owing, billed, history,   \* the bank: two accounts, the amounts
                        \* of the statements, the entries of the card
          cash, transit,                 \* the coin account, and e-transfers on
                        \* their way to it
          payments,     \* the payments requested of the broker
          stages,       \* the configured steps
          saved,        \* the state in the database
          working,      \* the runs in progress
          step, view, state,             \* of each run
          faults

bank == <<chq, owing, billed, history>>
coin == <<cash, transit, payments>>
run == <<working, step, view, state>>
vars == <<day, bank, coin, stages, saved, run, faults>>

Payment == [due : Nat, amount : Nat, on : Nat, known : Nat, last : Maybe,
            posted : BOOLEAN]

Unsaved == [balance |-> None, transfer |-> None, pending |-> None, payOn |-> None,
            lastDue |-> None, lastAmount |-> None, lastTop |-> None]

Unread == [chq |-> 0, owing |-> 0, date |-> 0, amount |-> 0, at |-> 0, history |-> {}]

Init == /\ day = 0
        /\ chq = Opening
        /\ owing = 0
        /\ billed = <<>>
        /\ history = {}
        /\ cash = 0
        /\ transit = 0
        /\ payments = <<>>
        /\ \E start \in Starts :
              /\ stages = start.stages
              /\ saved = [Unsaved EXCEPT !.lastDue = start.lastDue, !.lastAmount = start.lastAmount]
        /\ working = {}
        /\ step = [r \in Runners |-> 1]
        /\ view = [r \in Runners |-> Unread]
        /\ state = [r \in Runners |-> Unsaved]
        /\ faults = 0

Fault == faults < MaxFaults /\ faults' = faults + 1

-----------------------------------------------------------------------------
(* The bank and the broker.                                                *)

\* The statement whose due date is shown.
Current == CHOOSE i \in Statements : /\ ShownFrom[i] <= day
                                     /\ \A j \in Statements : ShownFrom[j] <= day => j <= i
DueAmount == IF billed = <<>> THEN Earlier ELSE billed[Len(billed)]

Unposted == {k \in DOMAIN payments : ~ payments[k].posted}

\* The balance of the coin account, without the payments that it has promised.
Available == cash - MapThenSumSet(LAMBDA k : payments[k].amount, Unposted)

\* A day passes; no run takes as long.
Tick == /\ day < MaxDay
        /\ working = {}
        /\ day' = day + 1
        /\ chq' = chq + Income[day + 1]
        /\ owing' = owing + Spending[day + 1]
        /\ history' = history \cup {[on |-> day + 1, amount |-> Spending[day + 1]]}
        /\ billed' = IF \E i \in Statements : Closes[i] = day + 1
                     THEN Append(billed, owing') ELSE billed
        /\ UNCHANGED <<coin, stages, saved, run, faults>>

\* The e-transfers that were sent become coin.
Deposit == /\ transit > 0
           /\ cash' = cash + transit
           /\ transit' = 0
           /\ UNCHANGED <<day, bank, payments, stages, saved, run, faults>>

\* The broker pays the card on the day of the payment, or once there is enough.
Post(k) == /\ k \in Unposted
           /\ payments[k].on <= day
           /\ cash >= payments[k].amount
           /\ payments' = [payments EXCEPT ![k].posted = TRUE]
           /\ cash' = cash - payments[k].amount
           /\ owing' = owing - payments[k].amount
           /\ history' = history \cup {[on |-> day, amount |-> payments[k].amount]}
           /\ UNCHANGED <<day, chq, billed, transit, stages, saved, run, faults>>

\* The owner takes coin out of the account.
Withdraw == /\ Fault
            /\ \E amount \in {1, cash} : amount > 0 /\ amount <= cash /\ cash' = cash - amount
            /\ UNCHANGED <<day, bank, transit, payments, stages, saved, run>>

\* The owner pays the card himself.
PayCard == /\ Fault
           /\ owing > 0
           /\ owing' = 0
           /\ UNCHANGED <<day, chq, billed, history, coin, stages, saved, run>>

-----------------------------------------------------------------------------
(* A run.                                                                  *)

\* From step i on, the steps up to the next one that speaks to somebody else
\* only calculate: they follow at once.
Resumed(r, i, v, s) ==
    LET next == Min({j \in i .. Len(stages) : stages[j] \notin Calculations}
                        \cup {Len(stages) + 1})
    IN \E done \in FoldLeft(LAMBDA outcomes, name :
                               {<<Reduced(name, o[1]), Calculated(name, o[1], o[2])>> : o \in outcomes},
                            {<<v, s>>}, SubSeq(stages, i, next - 1)) :
          /\ step' = [step EXCEPT ![r] = next]
          /\ view' = [view EXCEPT ![r] = done[1]]
          /\ state' = [state EXCEPT ![r] = done[2]]
          /\ working' = working \cup {r}

Idle(r) == /\ working' = working \ {r}
           /\ step' = [step EXCEPT ![r] = 1]
           /\ view' = [view EXCEPT ![r] = Unread]
           /\ state' = [state EXCEPT ![r] = Unsaved]

Read == [chq |-> chq, owing |-> owing, date |-> Due[Current], amount |-> DueAmount,
         at |-> day, history |-> history]

\* The first payment is so close that the money would only pass through.
ShouldSkipHarvest(v, s) == /\ s.lastDue = None /\ s.balance = 0
                           /\ v.at >= v.date - Cutoff /\ v.at - 1 < v.date

\* Load the state and read the accounts.  Nothing keeps a second run from doing
\* so.  (Runs are alike: of those that could start alone, one does.)
Initialize(r) ==
    /\ r \notin working
    /\ \/ working = {} /\ r = (CHOOSE first \in Runners : TRUE) /\ UNCHANGED faults
       \/ working # {} /\ Fault
    /\ ~ ShouldSkipHarvest(Read, saved)
    /\ Resumed(r, 1, Read, saved)
    /\ UNCHANGED <<day, bank, coin, stages, saved>>

\* The run is at a step of this name.
At(r, name) == r \in working /\ step[r] <= Len(stages) /\ stages[step[r]] = name

\* The run goes on to the next step, with state s.
Applied(r, s) == /\ Resumed(r, step[r] + 1, view[r], s)
                 /\ UNCHANGED <<day, stages, saved>>

Ensure(r) == /\ At(r, "EnsureHarvesterBalance")
             /\ Applied(r, EnsureHarvesterBalance(state[r], Available))
             /\ UNCHANGED <<bank, coin, faults>>

\* Too little to transfer.
SendNothing(r) == /\ At(r, "SendETransfer")
                  /\ ~ WantsTransfer(state[r])
                  /\ Applied(r, state[r])
                  /\ UNCHANGED <<bank, coin, faults>>

\* The bank sends the e-transfer.  Without a confirmation code it is taken to
\* have failed.
SendETransfer(r) ==
    LET amount == ToTransfer(view[r], state[r]) IN
    /\ At(r, "SendETransfer")
    /\ WantsTransfer(state[r])
    /\ amount > 0 /\ amount <= chq
    /\ chq' = chq - amount
    /\ transit' = transit + amount
    /\ \/ Applied(r, Transferred(view[r], state[r])) /\ UNCHANGED faults
       \/ Applied(r, state[r]) /\ Fault
    /\ UNCHANGED <<owing, billed, history, cash, payments>>

\* Nothing new to pay; or a statement that owes nothing is remembered as paid.
PayNothing(r) ==
    /\ At(r, "PayVisa")
    /\ \/ ~ WantsPayment(view[r], state[r]) /\ Applied(r, state[r])
       \/ /\ WantsPayment(view[r], state[r])
          /\ view[r].amount <= 0
          /\ Applied(r, Paid(view[r], state[r], 0))
    /\ UNCHANGED <<bank, coin, faults>>

\* Mutant: an amount below zero is signed like any other.
PayVisaSigned(r) ==
    LET v == view[r] IN
    /\ At(r, "PayVisa")
    /\ WantsPayment(v, state[r])
    /\ v.amount > 0
    /\ payments' = Append(payments,
                          [due |-> v.date, amount |-> ToPay(v), on |-> DateToPay(v),
                           known |-> Len(billed), last |-> state[r].lastDue, posted |-> FALSE])
    /\ Applied(r, Paid(v, state[r], ToPay(v)))
    /\ UNCHANGED <<bank, cash, transit, faults>>

\* Have the statement paid.  When the reply is lost, the step has failed.
PayVisa(r) ==
    LET v == view[r] IN
    /\ At(r, "PayVisa")
    /\ WantsPayment(v, state[r])
    /\ v.amount > 0 /\ ToPay(v) >= 0
    /\ payments' = Append(payments,
                          [due |-> v.date, amount |-> ToPay(v), on |-> DateToPay(v),
                           known |-> Len(billed), last |-> state[r].lastDue, posted |-> FALSE])
    /\ \/ Applied(r, Paid(v, state[r], ToPay(v))) /\ UNCHANGED faults
       \/ Applied(r, state[r]) /\ Fault
    /\ UNCHANGED <<bank, cash, transit>>

\* Mutant: a step that fails is the last one of its run.
StageFailsAll(r) ==
    /\ At(r, "SendETransfer") /\ WantsTransfer(state[r])
    /\ Idle(r)
    /\ UNCHANGED <<day, bank, coin, stages, saved, faults>>

\* A step that speaks to the bank, the broker or the chain fails, and is passed
\* over.  (A payment below zero, of a card in credit, cannot be signed.)
StageFails(r) ==
    /\ \/ At(r, "SendETransfer") /\ WantsTransfer(state[r]) /\ UNCHANGED faults
       \/ At(r, "EnsureHarvesterBalance") /\ Fault
       \/ At(r, "PayVisa") /\ WantsPayment(view[r], state[r]) /\ view[r].amount > 0
          /\ IF ToPay(view[r]) < 0 THEN UNCHANGED faults ELSE Fault
    /\ Applied(r, state[r])
    /\ UNCHANGED <<bank, coin>>

\* The state is saved over whatever was saved meanwhile.
Save(r) == /\ r \in working /\ step[r] > Len(stages)
           /\ saved' = state[r]
           /\ Idle(r)
           /\ UNCHANGED <<day, bank, coin, stages, faults>>

\* The run dies, or cannot read the accounts, or cannot save.
Crash(r) == /\ r \in working
            /\ Fault
            /\ Idle(r)
            /\ UNCHANGED <<day, bank, coin, stages, saved>>

\* The owner overrides the balance, and the pending payment if he likes.
SetOverrides(b) ==
    /\ Fault
    /\ \/ saved' = [saved EXCEPT !.balance = b]
       \/ saved' = [saved EXCEPT !.balance = b, !.pending = b, !.payOn = day,
                                 !.lastDue = day, !.lastAmount = None, !.lastTop = None]
    /\ UNCHANGED <<day, bank, coin, stages, run>>

Work(r) == \/ Ensure(r)
           \/ SendNothing(r) \/ SendETransfer(r) \/ PayNothing(r) \/ PayVisa(r)
           \/ StageFails(r) \/ Save(r)

Next == \/ Tick \/ Deposit \/ Withdraw \/ PayCard
        \/ \E k \in DOMAIN payments : Post(k)
        \/ \E b \in Overrides : SetOverrides(b)
        \/ \E r \in Runners : Initialize(r) \/ Work(r) \/ Crash(r)

Spec == Init /\ [][Next]_vars

\* Time passes, the broker does what it has promised, and the scheduler starts
\* a run again and again, which goes on.  (Runs that overlap are few: that one
\* of the runs goes on means that each does.)
Fairness == /\ SF_vars(Tick)
            /\ WF_vars(Deposit)
            /\ WF_vars(\E k \in DOMAIN payments : Post(k))
            /\ WF_vars(\E r \in Runners : Initialize(r) \/ Work(r))

FairSpec == Spec /\ Fairness

-----------------------------------------------------------------------------
\* The variables have their types.
TypeOK == /\ day \in 0 .. MaxDay
          /\ chq \in Nat /\ owing \in Int
          /\ billed \in Seq(Int) /\ history \subseteq Entry
          /\ cash \in Nat /\ transit \in Nat
          /\ payments \in Seq(Payment)
          /\ \E start \in Starts : stages = start.stages
          /\ saved \in State
          /\ working \subseteq Runners
          /\ step \in [Runners -> 1 .. Len(stages) + 1]
          /\ view \in [Runners -> View]
          /\ state \in [Runners -> State]
          /\ faults \in 0 .. MaxFaults

\* A due date is paid once; once more at most for each run that overlapped
\* another, and for each run that died, or lost a reply, before its state was
\* saved.
PaidOnce ==
    \A p \in Range(payments) :
        Cardinality({k \in DOMAIN payments : payments[k].due = p.due}) <= 1 + faults

Early(p) == \E i \in Statements : Due[i] = p.due /\ p.known < i

\* What PayVisa sees of the n-th amount.
Owed(n) == LET amount == IF n = 0 THEN Earlier ELSE billed[n]
           IN IF "ProcessPercent" \in Range(stages) THEN (amount * Percent) \div 100 ELSE amount

\* A statement is not paid before its amount is known, with the amount of one
\* before: except when the statement before it had been missed, or paid like this
\* itself, or passed over like this, since the amount then was nothing.
AmountKnown ==
    \A p \in Range(payments) : \A i \in Statements \ {1} :
        Early(p) /\ p.due = Due[i] =>
            \/ p.last # None /\ p.last < Due[i - 1]
            \/ \E q \in Range(payments) : q.due = Due[i - 1] /\ Early(q)
            \/ \E n \in 0 .. p.known : n < i - 1 /\ Owed(n) <= 0

\* What the harvester believes to have, less the payment that is pending, is
\* there, or on its way.
Covered == OrZero(saved.balance) - OrZero(saved.pending) <= Available + transit

\* In the end that is so, whatever the faults, overrides and
\* withdrawals were, except that an empty account goes unnoticed.
EventuallyCovered == <>[](Covered \/ Available = 0)

\* The last due date is dealt with in the end, though the bank may refuse
\* every e-transfer; except when payments have put the card in credit, since
\* what is left to pay is then an amount below zero.
DueHandled == <>(\/ saved.lastDue # None /\ saved.lastDue >= Due[Len(Due)]
                 \/ owing < 0)
=============================================================================
