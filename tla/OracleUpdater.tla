--------------------------- MODULE OracleUpdater ---------------------------
(***************************************************************************)
(* The rates service keeps the oracle up to date (oracle.ts and update.ts).*)
(* Several instances of it run; each claims a document in Firestore before *)
(* it works, and writes the claim back when it is done.  A claim that is   *)
(* six hours old may be taken over.  An instance computes what the oracle  *)
(* lacks, pushes offsets in a transaction each, and then the rates; it may *)
(* die, or a transaction may fail, between any two of them.                *)
(***************************************************************************)
EXTENDS SpxCadOracle

CONSTANTS Updaters,    \* instances of the service
          Expiry,      \* six hours
          Starts,      \* when each rate of the service comes into force
          MaxTime,     \* bound: hours
          MaxFaults    \* bound: crashes and transactions that fail

ASSUME UpdaterAssumption == /\ Expiry \in Nat
                            /\ Starts \in Seq(Nat) /\ Starts # <<>>
                            /\ MaxTime \in Nat
                            /\ MaxFaults \in Nat

VARIABLES known,    \* how many rates the service has stored
          held,     \* the document: do its two times differ?
          owner,    \* the document: whose claim is the last one
          since,    \* the document: the time of that claim
          pc,       \* updater -> "out", "reading", "fetching", "offsets", "rates", "leaving"
          plan,     \* updater -> the offsets and the rates it has yet to push
          alarmed,  \* has an updater logged that the oracle and the service differ?
          faults

contract == <<rates, offsets>>
doc == <<held, owner, since>>
vars == <<now, contract, known, doc, pc, plan, alarmed, faults>>

Nothing == [from |-> 0, till |-> 0, last |-> 0, at |-> 0, prior |-> 0,
            offsets |-> <<>>, rates |-> <<>>]
Inside(p) == pc[p] # "out"

\* Rate i of the service is in force from its start until that of the next.
Till(i) == Starts[i + 1]

Init == /\ now = 0
        /\ rates = <<>>
        /\ offsets = <<>>
        /\ known = 0
        /\ held = FALSE
        /\ owner \in Updaters
        /\ since = 0
        /\ pc = [p \in Updaters |-> "out"]
        /\ plan = [p \in Updaters |-> Nothing]
        /\ alarmed = FALSE
        /\ faults = 0

-----------------------------------------------------------------------------
(* What the oracle lacks.                                                  *)

\* Mutant: a rate that is cut short has the offset of one that is prolonged.
ShiftPositive(duration) == duration % Block

\* How far the end of a rate is from a whole number of blocks; a rate that is
\* mostly a block, or less than one, is a block cut short.
Shift(duration) ==
    LET rest == duration % Block IN
    IF rest # 0 /\ (2 * rest > Block \/ duration < Block) THEN rest - Block ELSE rest

NumBlocks(duration) == (duration - Shift(duration)) \div Block

\* The plan at first: nothing to push yet, from where the oracle ends.
NewPlan == [from |-> ValidUntil, till |-> now, last |-> LastOffsetFrom,
            at |-> ValidUntil, prior |-> GetOffset(ValidUntil),
            offsets |-> <<>>, rates |-> <<>>]

\* Rate i is added to the plan.  A block cut short ends with its rate; one that
\* is prolonged would have ended that much earlier.  An offset that the oracle
\* has already is not pushed.
WithRate(found, i) ==
    LET duration == Till(i) - found.at
        own == Shift(duration)
        new == [from   |-> Till(i) - (IF own > 0 THEN own ELSE 0),
                offset |-> found.prior + own]
        pushed == own # 0 /\ new.from > found.last
    IN [found EXCEPT !.at = Till(i),
                    !.prior = new.offset,
                    !.offsets = IF pushed THEN Append(@, new) ELSE @,
                    !.rates = @ \o [k \in 1 .. NumBlocks(duration) |-> i]]

\* Mutant: the next rate is used before the service has it.
StoredOrNot(t) == {i \in 1 .. Len(Starts) - 1 : Starts[i] <= t /\ t < Till(i)}

\* The stored rate for moment t: the first that ends after it.
Stored(t) == {i \in 1 .. known : Till(i) > t /\ \A j \in 1 .. i - 1 : Till(j) <= t}

\* More than a block and a half ahead: something is wrong, and nothing is pushed.
TooMany(found) == 2 * (found.from + Len(found.rates) * Block) > 2 * now + 3 * Block

-----------------------------------------------------------------------------
(* The steps of an updater.                                                *)

\* Mutant: a claim that has not been written back is never taken over.
NeverExpired == FALSE

Expired == since < now - Expiry

\* Mutant: whether somebody holds the claim is not looked at.
EnterAnyway(p) ==
    /\ pc[p] = "out"
    /\ held' = TRUE
    /\ owner' = p
    /\ since' = now
    /\ pc' = [pc EXCEPT ![p] = "reading"]
    /\ UNCHANGED <<now, contract, known, plan, alarmed, faults>>

\* Claim the document, in one database transaction.
EnterCS(p) ==
    /\ pc[p] = "out"
    /\ ~ held \/ Expired
    /\ held' = TRUE
    /\ owner' = p
    /\ since' = now
    /\ pc' = [pc EXCEPT ![p] = "reading"]
    /\ UNCHANGED <<now, contract, known, plan, alarmed, faults>>

Read(p) ==
    /\ pc[p] = "reading"
    /\ plan' = [plan EXCEPT ![p] = NewPlan]
    /\ pc' = [pc EXCEPT ![p] = "fetching"]
    /\ UNCHANGED <<now, contract, known, doc, alarmed, faults>>

\* That a rate of the service does not begin where the oracle ends is logged.
Fetch(p) ==
    /\ pc[p] = "fetching"
    /\ plan[p].at < plan[p].till
    /\ \E i \in Stored(plan[p].at) :
          /\ plan' = [plan EXCEPT ![p] = WithRate(@, i)]
          /\ alarmed' = (alarmed \/ Starts[i] # plan[p].at)
    /\ UNCHANGED <<now, contract, known, doc, pc, faults>>

Fetched(p) ==
    /\ pc[p] = "fetching"
    /\ plan[p].at >= plan[p].till \/ Stored(plan[p].at) = {}
    /\ pc' = [pc EXCEPT ![p] = IF TooMany(plan[p]) THEN "leaving" ELSE "offsets"]
    /\ plan' = [plan EXCEPT ![p] = IF TooMany(@) THEN Nothing ELSE @]
    /\ UNCHANGED <<now, contract, known, doc, alarmed, faults>>

PushOffset(p) ==
    /\ pc[p] = "offsets"
    /\ plan[p].offsets # <<>>
    /\ UpdateOffset(Head(plan[p].offsets))
    /\ plan' = [plan EXCEPT ![p].offsets = Tail(@)]
    /\ UNCHANGED <<now, rates, known, doc, pc, alarmed, faults>>

OffsetsPushed(p) ==
    /\ pc[p] = "offsets"
    /\ plan[p].offsets = <<>>
    /\ pc' = [pc EXCEPT ![p] = IF plan[p].rates = <<>> THEN "leaving" ELSE "rates"]
    /\ plan' = [plan EXCEPT ![p] = IF @.rates = <<>> THEN Nothing ELSE @]
    /\ UNCHANGED <<now, contract, known, doc, alarmed, faults>>

PushRates(p) ==
    /\ pc[p] = "rates"
    /\ CanPush(plan[p].rates)
    /\ rates' = rates \o plan[p].rates
    /\ plan' = [plan EXCEPT ![p] = Nothing]
    /\ pc' = [pc EXCEPT ![p] = "leaving"]
    /\ UNCHANGED <<now, offsets, known, doc, alarmed, faults>>

\* The contract refuses, or the transaction fails: the update throws.
Throw(p) ==
    /\ \/ pc[p] = "rates" /\ ~ CanPush(plan[p].rates) /\ UNCHANGED faults
       \/ pc[p] \notin {"out", "leaving"} /\ faults < MaxFaults /\ faults' = faults + 1
    /\ plan' = [plan EXCEPT ![p] = Nothing]
    /\ pc' = [pc EXCEPT ![p] = "leaving"]
    /\ UNCHANGED <<now, contract, known, doc, alarmed>>

\* Write one's claim back: the two times agree again if it is the last claim.
ExitCS(p) ==
    /\ pc[p] = "leaving"
    /\ held' = (owner # p)
    /\ pc' = [pc EXCEPT ![p] = "out"]
    /\ UNCHANGED <<now, contract, known, owner, since, plan, alarmed, faults>>

\* The instance dies; in the model, early enough for its claim to expire.
Crash(p) ==
    /\ Inside(p)
    /\ since + Expiry < MaxTime
    /\ faults < MaxFaults
    /\ faults' = faults + 1
    /\ plan' = [plan EXCEPT ![p] = Nothing]
    /\ pc' = [pc EXCEPT ![p] = "out"]
    /\ UNCHANGED <<now, contract, known, doc, alarmed>>

\* Where the last of the blocks of rate i begins.
LastBlock(i) == Starts[i] + (NumBlocks(Till(i) - Starts[i]) - 1) * Block

\* The service stores its next rate: once the market has it, an hour before the
\* rate comes into force at most, or late, and then the rate is for all blocks
\* up to the one that is in progress.
StoreRate ==
    /\ known + 1 < Len(Starts)
    /\ IF LastBlock(known + 1) = Starts[known + 1]
       THEN Starts[known + 1] <= now + 1
       ELSE LastBlock(known + 1) <= now
    /\ known' = known + 1
    /\ UNCHANGED <<now, contract, doc, pc, plan, alarmed, faults>>

\* An hour passes.  An updater that does not die is done within the six hours;
\* a rate is stored before it ends.
Tick == /\ now < MaxTime
        /\ (\E p \in Updaters : Inside(p)) => now < since + Expiry
        /\ known + 1 < Len(Starts) => now + 1 < Till(known + 1)
        /\ now' = now + 1
        /\ UNCHANGED <<contract, known, doc, pc, plan, alarmed, faults>>

Work(p) == \/ Read(p) \/ Fetch(p) \/ Fetched(p)
           \/ PushOffset(p) \/ OffsetsPushed(p) \/ PushRates(p)
           \/ Throw(p) \/ ExitCS(p)

Next == \/ \E p \in Updaters : EnterCS(p) \/ Work(p) \/ Crash(p)
        \/ StoreRate
        \/ Tick

Spec == Init /\ [][Next]_vars

\* The service is called every hour; an instance that has entered goes on; the
\* market goes on.
Fairness == /\ WF_vars(\E p \in Updaters : EnterCS(p))
            /\ \A p \in Updaters : WF_vars(Work(p))
            /\ WF_vars(StoreRate)
            /\ WF_vars(Tick)

FairSpec == Spec /\ Fairness

-----------------------------------------------------------------------------
(* The calendar.                                                           *)

\* How far the start of rate i is from a whole number of blocks.
Season(i) == Starts[i] - (i - 1) * Block

\* The service is never late: it has a rate for every block, of New York time,
\* and clocks that change move the starts by at most one hour, forth and back.
Seasonal == /\ Block > 2
            /\ Starts[1] = 0
            /\ \A i, j \in DOMAIN Starts : Season(i) - Season(j) \in -1 .. 1

-----------------------------------------------------------------------------
Hours == 0 .. MaxTime

Plan == [from : Int, till : Int, last : Int, at : Int, prior : Int,
         offsets : Seq(Offset), rates : Seq(1 .. known)]

\* The variables have their types.
TypeOK == /\ now \in Hours
          /\ known \in 0 .. Len(Starts) - 1
          /\ rates \in Seq(1 .. known)
          /\ offsets \in Seq(Offset)
          /\ held \in BOOLEAN /\ owner \in Updaters /\ since \in 0 .. now
          /\ pc \in [Updaters -> {"out", "reading", "fetching", "offsets", "rates", "leaving"}]
          /\ plan \in [Updaters -> Plan]
          /\ alarmed \in BOOLEAN
          /\ faults \in 0 .. MaxFaults

\* Who is inside holds the claim, which has not expired.
ClaimHeld == \A p \in Updaters :
                 Inside(p) => held /\ owner = p /\ now <= since + Expiry

\* One updater at a time works between its claim and the end of it, although
\* a claim may be taken over: two would push the same rate twice.
MutualExclusion == \A p, q \in Updaters : Inside(p) /\ Inside(q) => p = q

InForce(t) == CHOOSE i \in 1 .. Len(Starts) - 1 : Starts[i] <= t /\ t < Till(i)

\* What can be read of the oracle is the rate that the service has for that
\* moment, when the clocks change too.  It can fail only where an updater has
\* logged that the two differ, which takes an updater that dies, or throws,
\* between its offset and its rates.
RateMatches ==
    /\ alarmed => faults > 0
    /\ ~ alarmed => \A t \in Hours : Readable(t) => RateAt(t) = InForce(t)

\* A rate that could be read does not change afterwards: amounts that were
\* converted with it can be checked by anyone, at any time.
RatesStable ==
    [][\A t \in Hours : Readable(t) => Readable(t)' /\ RateAt(t)' = RateAt(t)]_vars

\* Every hour that passes has a rate in the end, whichever updater dies with
\* the claim.
CatchesUp == <>(\A t \in 0 .. MaxTime - 1 : Readable(t))
=============================================================================
