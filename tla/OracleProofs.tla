--------------------------- MODULE OracleProofs ---------------------------
(***************************************************************************)
(* Proofs about the rates service and its contract, for every number of    *)
(* updaters, every list of rates and every length of a block: the types of *)
(* the state; that one updater works at a time; that what can be read of   *)
(* the contract is the rate that the service had to publish for the time   *)
(* that is asked for; and that a reading, once there, stays.               *)
(***************************************************************************)
EXTENDS OracleUpdater, WellFoundedInduction, SequenceTheorems, TLAPS

USE DEF Inside

-----------------------------------------------------------------------------
(* Types.                                                                  *)

\* The rest of a division has a sign, and is a whole number of hours.
LEMMA ShiftInt == ASSUME NEW duration \in Int
                  PROVE  Shift(duration) \in Int
<1>1. duration % Block \in Int  BY OracleAssumption DEF OracleAssumption
<1>. QED  BY <1>1, OracleAssumption DEF Shift, OracleAssumption

\* A block is not divided.
LEMMA NumBlocksInt == ASSUME NEW duration \in Int
                      PROVE  NumBlocks(duration) \in Int
<1>1. duration - Shift(duration) \in Int  BY ShiftInt
<1>. QED  BY <1>1, OracleAssumption DEF NumBlocks, OracleAssumption

\* The offset in effect is the last of those that have taken effect.
LEMMA OffsetTaken ==
    ASSUME offsets \in Seq(Offset), NEW t \in Int
    PROVE  \/ /\ GetOffset(t) = 0
              /\ \A x \in DOMAIN offsets : ~ (offsets[x].from <= t)
           \/ \E x \in DOMAIN offsets :
                 /\ GetOffset(t) = offsets[x].offset
                 /\ offsets[x].from <= t
                 /\ \A y \in DOMAIN offsets : offsets[y].from <= t => y <= x
<1>. DEFINE taken == {i \in DOMAIN offsets : offsets[i].from <= t}
            Newest(i) == \A j \in taken : j <= i
<1>1. CASE taken = {}  BY <1>1 DEF GetOffset
<1>2. CASE taken # {}
  <2>. DEFINE left == {Len(offsets) - i : i \in taken}
  <2>1. left \in SUBSET Nat  OBVIOUS
  <2>2. left # {}  BY <1>2
  <2>3. PICK n \in left : \A m \in left : n <= m
    <3>. HIDE DEF left
    <3>1. PICK n \in left : \A m \in left : ~ (<<m, n>> \in OpToRel(<, Nat))
      BY <2>1, <2>2, NatLessThanWellFounded, WFMin
    <3>2. \A m \in left : ~ (m < n)  BY <2>1, <3>1 DEF OpToRel
    <3>. QED  BY <2>1, <3>2
  <2>4. PICK k \in taken : n = Len(offsets) - k  OBVIOUS
  <2>5. ASSUME NEW j \in taken  PROVE j <= k
    <3>1. n <= Len(offsets) - j  BY <2>3
    <3>. QED  BY <2>4, <3>1
  <2>6. PICK x : x = CHOOSE i \in taken : Newest(i)  OBVIOUS
  <2>7. x \in taken /\ Newest(x)
    <3>. HIDE DEF taken, Newest
    <3>1. k \in taken /\ Newest(k)
      <4>. USE DEF Newest
      <4>. QED  BY <2>5
    <3>. QED  BY <2>6, <3>1
  <2>8. GetOffset(t) = offsets[x].offset  BY <1>2, <2>6 DEF GetOffset
  <2>. QED  BY <2>7, <2>8
<1>. QED  BY <1>1, <1>2

\* What is read of the contract is a number.
LEMMA OffsetsInt == ASSUME offsets \in Seq(Offset), NEW t \in Int
                    PROVE  GetOffset(t) \in Int /\ LastOffsetFrom \in Int
<1>1. LastOffsetFrom \in Int
  <2>1. CASE offsets = <<>>  BY <2>1 DEF LastOffsetFrom
  <2>2. CASE offsets # <<>>
    <3>1. Len(offsets) \in DOMAIN offsets  BY <2>2
    <3>2. offsets[Len(offsets)] \in Offset  BY <3>1
    <3>. QED  BY <2>2, <3>2 DEF LastOffsetFrom, Offset
  <2>. QED  BY <2>1, <2>2
<1>2. GetOffset(t) \in Int
  <2>1. \A x \in DOMAIN offsets : offsets[x] \in Offset  OBVIOUS
  <2>. QED  BY <2>1, OffsetTaken DEF Offset
<1>. QED  BY <1>1, <1>2

\* A plan that is made has the type of one.
LEMMA NewPlanType ==
    ASSUME offsets \in Seq(Offset), rates \in Seq(1 .. known),
           now \in Nat, known \in Nat
    PROVE  NewPlan \in Plan
<1>1. Block * Len(rates) \in Nat
  BY OracleAssumption DEF OracleAssumption
<1>2. Len(rates) * Block \in Int
  BY OracleAssumption DEF OracleAssumption
<1>3. ValidUntil \in Int
  <2>1. GetOffset(now) \in Int  BY OffsetsInt
  <2>. QED  BY <2>1, <1>2 DEF ValidUntil
<1>4. GetOffset(ValidUntil) \in Int /\ LastOffsetFrom \in Int
  BY <1>3, OffsetsInt
<1>5. <<>> \in Seq(Offset) /\ <<>> \in Seq(1 .. known)  OBVIOUS
<1>. QED  BY <1>3, <1>4, <1>5 DEF NewPlan, Plan

\* A rate that is added to a plan leaves it one.
LEMMA WithRateType ==
    ASSUME known \in 0 .. Len(Starts) - 1, NEW found \in Plan, NEW i \in 1 .. known
    PROVE  WithRate(found, i) \in Plan
<1>. DEFINE duration == Till(i) - found.at
            own == Shift(duration)
            new == [from   |-> Till(i) - (IF own > 0 THEN own ELSE 0),
                    offset |-> found.prior + own]
            pushed == own # 0 /\ new.from > found.last
            many == NumBlocks(duration)
            blocks == [k \in 1 .. many |-> i]
<1>1. Till(i) \in Int
  <2>1. i + 1 \in 1 .. Len(Starts)  BY UpdaterAssumption DEF UpdaterAssumption
  <2>2. Starts[i + 1] \in Nat  BY <2>1, UpdaterAssumption DEF UpdaterAssumption
  <2>. QED  BY <2>2 DEF Till
<1>2. duration \in Int  BY <1>1 DEF Plan
<1>3. own \in Int /\ many \in Int  BY <1>2, ShiftInt, NumBlocksInt
<1>4. new \in Offset
  <2>. HIDE DEF own
  <2>. QED  BY <1>1, <1>3, SMTT(20) DEF Plan, Offset
<1>5. blocks \in Seq(1 .. known)
  <2>. HIDE DEF many
  <2>1. CASE many \in Nat  BY <2>1
  <2>2. CASE many \notin Nat
    <3>1. 1 .. many = {}  BY <1>3, <2>2
    <3>2. blocks = <<>>  BY <3>1
    <3>3. <<>> \in Seq(1 .. known)  OBVIOUS
    <3>. QED  BY <3>2, <3>3
  <2>. QED  BY <2>1, <2>2
<1>6. found.rates \o blocks \in Seq(1 .. known)
  <2>1. found.rates \in Seq(1 .. known)  BY DEF Plan
  <2>. HIDE DEF blocks
  <2>. QED  BY <1>5, <2>1
<1>7. (IF pushed THEN Append(found.offsets, new) ELSE found.offsets) \in Seq(Offset)
  <2>1. found.offsets \in Seq(Offset)  BY DEF Plan
  <2>. HIDE DEF pushed, new
  <2>. QED  BY <1>4, <2>1
<1>8. new.offset \in Int  BY <1>4 DEF Offset
<1>9. WithRate(found, i)
        = [found EXCEPT !.at = Till(i),
                        !.prior = new.offset,
                        !.offsets = IF pushed THEN Append(@, new) ELSE @,
                        !.rates = @ \o blocks]
  BY DEF WithRate
<1>. HIDE DEF new, pushed, blocks
<1>. QED  BY <1>1, <1>6, <1>7, <1>8, <1>9 DEF Plan

-----------------------------------------------------------------------------
(* The invariant: the types, and that who is inside holds the claim.       *)

Inv == TypeOK /\ ClaimHeld

LEMMA InitInv == Init => Inv
<1>1. ASSUME Init  PROVE TypeOK
  <2>1. now \in Hours /\ known \in 0 .. Len(Starts) - 1 /\ since \in 0 .. now
    BY <1>1, UpdaterAssumption DEF Init, Hours, UpdaterAssumption
  <2>2. rates \in Seq(1 .. known) /\ offsets \in Seq(Offset)  BY <1>1 DEF Init
  <2>3. Nothing \in Plan
    <3>1. <<>> \in Seq(1 .. known) /\ <<>> \in Seq(Offset)  OBVIOUS
    <3>. QED  BY <3>1 DEF Nothing, Plan
  <2>4. plan \in [Updaters -> Plan]  BY <1>1, <2>3 DEF Init
  <2>5. pc \in [Updaters -> {"out", "reading", "fetching", "offsets", "rates", "leaving"}]
    BY <1>1 DEF Init
  <2>6. held \in BOOLEAN /\ owner \in Updaters /\ alarmed \in BOOLEAN
    BY <1>1 DEF Init
  <2>7. faults \in 0 .. MaxFaults  BY <1>1, UpdaterAssumption DEF Init, UpdaterAssumption
  <2>. QED  BY <2>1, <2>2, <2>4, <2>5, <2>6, <2>7 DEF TypeOK
<1>2. Init => ClaimHeld  BY DEF Init, ClaimHeld
<1>. QED  BY <1>1, <1>2 DEF Inv

\* The steps inside leave the claim and the time alone.
LEMMA InsideKeepsClaim ==
    ASSUME Inv, NEW p \in Updaters, Inside(p),
           UNCHANGED <<now, doc>>,
           \A q \in Updaters \ {p} : pc'[q] = pc[q]
    PROVE  ClaimHeld'
BY DEF Inv, ClaimHeld, doc

\* A step that leaves the contract and what is stored alone keeps the types
\* of these.
LEMMA StepKeepsTypes ==
    ASSUME Inv, [Next]_vars  PROVE TypeOK'
<1>. USE DEF Inv, TypeOK
<1>1. Nothing \in Plan
  <2>1. <<>> \in Seq(1 .. known) /\ <<>> \in Seq(Offset)  OBVIOUS
  <2>. QED  BY <2>1 DEF Nothing, Plan
<1>2. known \in Nat /\ now \in Nat  BY DEF Hours
<1>3. ASSUME NEW p \in Updaters, EnterCS(p)  PROVE TypeOK'
  <2>1. held' \in BOOLEAN /\ owner' \in Updaters /\ since' \in 0 .. now'
    BY <1>2, <1>3 DEF EnterCS
  <2>2. pc' \in [Updaters -> {"out", "reading", "fetching", "offsets", "rates", "leaving"}]
    BY <1>3 DEF EnterCS
  <2>3. UNCHANGED <<now, rates, offsets, known, plan, alarmed, faults>>
    BY <1>3 DEF EnterCS, contract
  <2>. QED  BY <2>1, <2>2, <2>3 DEF Plan
<1>4. ASSUME NEW p \in Updaters, Read(p)  PROVE TypeOK'
  <2>1. NewPlan \in Plan  BY <1>2, NewPlanType
  <2>2. UNCHANGED <<now, rates, offsets, known, held, owner, since, alarmed, faults>>
    BY <1>4 DEF Read, contract, doc
  <2>. QED  BY <1>4, <2>1, <2>2 DEF Read, Plan
<1>5. ASSUME NEW p \in Updaters, Fetch(p)  PROVE TypeOK'
  <2>1. PICK i \in Stored(plan[p].at) :
             /\ plan' = [plan EXCEPT ![p] = WithRate(@, i)]
             /\ alarmed' = (alarmed \/ Starts[i] # plan[p].at)
    BY <1>5 DEF Fetch
  <2>2. i \in 1 .. known  BY DEF Stored
  <2>3. WithRate(plan[p], i) \in Plan  BY <2>2, WithRateType
  <2>4. UNCHANGED <<now, rates, offsets, known, held, owner, since, pc, faults>>
    BY <1>5 DEF Fetch, contract, doc
  <2>5. plan' \in [Updaters -> Plan]  BY <2>1, <2>3
  <2>6. Plan' = Plan  BY <2>4 DEF Plan
  <2>7. alarmed' \in BOOLEAN  BY <2>1
  <2>. QED  BY <2>4, <2>5, <2>6, <2>7
<1>6. ASSUME NEW p \in Updaters, Fetched(p)  PROVE TypeOK'
  <2>1. UNCHANGED <<now, rates, offsets, known, held, owner, since, alarmed, faults>>
    BY <1>6 DEF Fetched, contract, doc
  <2>2. plan' \in [Updaters -> Plan]  BY <1>1, <1>6 DEF Fetched
  <2>3. Plan' = Plan  BY <2>1 DEF Plan
  <2>. QED  BY <1>6, <2>1, <2>2, <2>3 DEF Fetched
<1>7. ASSUME NEW p \in Updaters, PushOffset(p)  PROVE TypeOK'
  <2>1. UNCHANGED <<now, rates, known, held, owner, since, pc, alarmed, faults>>
    BY <1>7 DEF PushOffset, doc
  <2>2. plan[p] \in Plan /\ plan[p].offsets \in Seq(Offset) /\ plan[p].offsets # <<>>
    BY <1>7 DEF PushOffset, Plan
  <2>3. Head(plan[p].offsets) \in Offset /\ Tail(plan[p].offsets) \in Seq(Offset)
    BY <2>2
  <2>4. offsets' \in Seq(Offset)  BY <1>7, <2>3 DEF PushOffset, UpdateOffset
  <2>5. [plan[p] EXCEPT !.offsets = Tail(@)] \in Plan  BY <2>2, <2>3 DEF Plan
  <2>6. plan' \in [Updaters -> Plan]  BY <1>7, <2>5 DEF PushOffset
  <2>7. Plan' = Plan  BY <2>1 DEF Plan
  <2>. QED  BY <2>1, <2>4, <2>6, <2>7
<1>8. ASSUME NEW p \in Updaters, OffsetsPushed(p)  PROVE TypeOK'
  <2>1. UNCHANGED <<now, rates, offsets, known, held, owner, since, alarmed, faults>>
    BY <1>8 DEF OffsetsPushed, contract, doc
  <2>2. plan' \in [Updaters -> Plan]  BY <1>1, <1>8 DEF OffsetsPushed
  <2>3. Plan' = Plan  BY <2>1 DEF Plan
  <2>. QED  BY <1>8, <2>1, <2>2, <2>3 DEF OffsetsPushed
<1>9. ASSUME NEW p \in Updaters, PushRates(p)  PROVE TypeOK'
  <2>1. UNCHANGED <<now, offsets, known, held, owner, since, alarmed, faults>>
    BY <1>9 DEF PushRates, doc
  <2>2. plan[p].rates \in Seq(1 .. known)  BY <1>9 DEF PushRates, Plan
  <2>3. rates' \in Seq(1 .. known)  BY <1>9, <2>2 DEF PushRates
  <2>4. plan' \in [Updaters -> Plan]  BY <1>1, <1>9 DEF PushRates
  <2>5. Plan' = Plan  BY <2>1 DEF Plan
  <2>. QED  BY <1>9, <2>1, <2>3, <2>4, <2>5 DEF PushRates
<1>10. ASSUME NEW p \in Updaters, Throw(p)  PROVE TypeOK'
  <2>1. UNCHANGED <<now, rates, offsets, known, held, owner, since, alarmed>>
    BY <1>10 DEF Throw, contract, doc
  <2>2. plan' \in [Updaters -> Plan]  BY <1>1, <1>10 DEF Throw
  <2>3. Plan' = Plan  BY <2>1 DEF Plan
  <2>4. faults' \in 0 .. MaxFaults
    BY <1>10, UpdaterAssumption DEF Throw, UpdaterAssumption
  <2>. QED  BY <1>10, <2>1, <2>2, <2>3, <2>4 DEF Throw
<1>11. ASSUME NEW p \in Updaters, ExitCS(p)  PROVE TypeOK'
  BY <1>11 DEF ExitCS, contract, Plan
<1>12. ASSUME NEW p \in Updaters, Crash(p)  PROVE TypeOK'
  <2>1. UNCHANGED <<now, rates, offsets, known, held, owner, since, alarmed>>
    BY <1>12 DEF Crash, contract, doc
  <2>2. plan' \in [Updaters -> Plan]  BY <1>1, <1>12 DEF Crash
  <2>3. Plan' = Plan  BY <2>1 DEF Plan
  <2>4. faults' \in 0 .. MaxFaults
    BY <1>12, UpdaterAssumption DEF Crash, UpdaterAssumption
  <2>. QED  BY <1>12, <2>1, <2>2, <2>3, <2>4 DEF Crash
<1>13. ASSUME StoreRate  PROVE TypeOK'
  <2>1. UNCHANGED <<now, rates, offsets, held, owner, since, pc, plan, alarmed, faults>>
    BY <1>13 DEF StoreRate, contract, doc
  <2>2. known' = known + 1 /\ known' \in 0 .. Len(Starts) - 1
    BY <1>2, <1>13, UpdaterAssumption DEF StoreRate, UpdaterAssumption
  <2>3. 1 .. known \subseteq 1 .. known'  BY <1>2, <2>2
  <2>4. ASSUME NEW s \in Seq(1 .. known)  PROVE s \in Seq(1 .. known')
    BY <2>3, SeqMonotonic
  <2>5. Plan \subseteq Plan'  BY <2>4 DEF Plan
  <2>6. rates' \in Seq(1 .. known')  BY <2>1, <2>4
  <2>7. plan' \in [Updaters -> Plan']  BY <2>1, <2>5
  <2>. QED  BY <2>1, <2>2, <2>6, <2>7
<1>14. ASSUME Tick  PROVE TypeOK'
  <2>1. UNCHANGED <<rates, offsets, known, held, owner, since, pc, plan, alarmed, faults>>
    BY <1>14 DEF Tick, contract, doc
  <2>2. now' \in Hours /\ since \in 0 .. now'
    BY <1>14, UpdaterAssumption DEF Tick, Hours, UpdaterAssumption
  <2>3. Plan' = Plan  BY <2>1 DEF Plan
  <2>. QED  BY <2>1, <2>2, <2>3
<1>15. CASE UNCHANGED vars
  <2>1. UNCHANGED <<now, rates, offsets, known, held, owner, since, pc, plan, alarmed, faults>>
    BY <1>15 DEF vars, contract, doc
  <2>2. Plan' = Plan  BY <2>1 DEF Plan
  <2>. QED  BY <2>1, <2>2
<1>. QED
  BY <1>3, <1>4, <1>5, <1>6, <1>7, <1>8, <1>9, <1>10, <1>11, <1>12, <1>13, <1>14,
     <1>15 DEF Next, Work

\* A claim is taken from nobody who is inside.
LEMMA StepKeepsClaim ==
    ASSUME Inv, [Next]_vars  PROVE ClaimHeld'
<1>. USE DEF Inv
<1>1. now \in Nat /\ since \in Nat /\ Expiry \in Nat /\ DOMAIN pc = Updaters
  BY UpdaterAssumption DEF TypeOK, Hours, UpdaterAssumption
<1>2. ASSUME NEW p \in Updaters, EnterCS(p)  PROVE ClaimHeld'
  <2>1. \A q \in Updaters : pc[q] = "out"
    BY <1>1, <1>2 DEF EnterCS, Expired, ClaimHeld
  <2>. QED  BY <1>1, <1>2, <2>1 DEF EnterCS, ClaimHeld
<1>3. ASSUME NEW p \in Updaters, Work(p)  PROVE ClaimHeld'
  <2>1. CASE ExitCS(p)
    <3>1. \A q \in Updaters \ {p} : pc[q] = "out"
      BY <2>1 DEF ExitCS, ClaimHeld
    <3>. QED  BY <1>1, <2>1, <3>1 DEF ExitCS, ClaimHeld
  <2>2. CASE ~ ExitCS(p)
    <3>1. UNCHANGED <<now, doc>>
      BY <1>3, <2>2
      DEF Work, Read, Fetch, Fetched, PushOffset, OffsetsPushed, PushRates, Throw
    <3>2. pc[p] # "out"
      BY <1>3, <2>2
      DEF Work, Read, Fetch, Fetched, PushOffset, OffsetsPushed, PushRates, Throw
    <3>3. \A q \in Updaters \ {p} : pc'[q] = pc[q]
      BY <1>1, <1>3, <2>2
      DEF Work, Read, Fetch, Fetched, PushOffset, OffsetsPushed, PushRates, Throw
    <3>. QED  BY <3>1, <3>2, <3>3, InsideKeepsClaim
  <2>. QED  BY <2>1, <2>2
<1>4. ASSUME NEW p \in Updaters, Crash(p)  PROVE ClaimHeld'
  <2>1. UNCHANGED <<now, doc>> /\ \A q \in Updaters \ {p} : pc'[q] = pc[q]
    BY <1>1, <1>4 DEF Crash
  <2>. QED  BY <1>4, <2>1, InsideKeepsClaim DEF Crash
<1>5. CASE StoreRate  BY <1>5 DEF StoreRate, ClaimHeld, doc
<1>6. ASSUME Tick  PROVE ClaimHeld'
  BY <1>1, <1>6 DEF Tick, ClaimHeld, doc
<1>7. CASE UNCHANGED vars  BY <1>7 DEF vars, ClaimHeld, doc
<1>. QED  BY <1>2, <1>3, <1>4, <1>5, <1>6, <1>7 DEF Next

LEMMA SpecInv == Spec => []Inv
<1>1. Inv /\ [Next]_vars => Inv'  BY StepKeepsTypes, StepKeepsClaim DEF Inv
<1>. QED  BY InitInv, <1>1, PTL DEF Spec

-----------------------------------------------------------------------------
(* The calendar.                                                           *)

LEMMA Multiples ==
    ASSUME NEW a \in Int, NEW b \in Int
    PROVE  /\ (a + 1) * Block = a * Block + Block
           /\ a * Block \in Int
           /\ a < b => a * Block + Block <= b * Block
<1>1. (a + 1) * Block = a * Block + Block /\ a * Block \in Int
  BY OracleAssumption DEF OracleAssumption
<1>2. ASSUME a < b  PROVE a * Block + Block <= b * Block
  <2>1. /\ b - a - 1 \in Nat /\ Block \in Nat
        /\ (b - a - 1) * Block = b * Block - a * Block - Block
    BY <1>2, OracleAssumption DEF OracleAssumption
  <2>2. (b - a - 1) * Block \in Nat
    BY <2>1
  <2>3. b * Block \in Int
    BY OracleAssumption DEF OracleAssumption
  <2> QED
    BY <1>1, <2>1, <2>2, <2>3
<1> QED
  BY <1>1, <1>2

LEMMA DivisionExact ==
    ASSUME NEW b \in Nat \ {0}, NEW x \in Int, NEW k \in Int,
           k * b <= x, x < k * b + b
    PROVE  x \div b = k
OBVIOUS

LEMMA StartsType ==
    /\ Starts \in Seq(Nat) /\ Len(Starts) \in Nat \ {0}
    /\ DOMAIN Starts = 1 .. Len(Starts)
    /\ \A i \in DOMAIN Starts : /\ Starts[i] \in Nat /\ Season(i) \in Int
                                /\ Starts[i] = (i - 1) * Block + Season(i)
<1>1. Starts \in Seq(Nat) /\ Len(Starts) \in Nat \ {0} /\ DOMAIN Starts = 1 .. Len(Starts)
  BY UpdaterAssumption DEF UpdaterAssumption
<1>2. ASSUME NEW i \in DOMAIN Starts
      PROVE  /\ Starts[i] \in Nat /\ Season(i) \in Int
             /\ Starts[i] = (i - 1) * Block + Season(i)
  <2>1. Starts[i] \in Nat /\ i - 1 \in Int
    BY <1>1
  <2>2. (i - 1) * Block \in Int
    BY <2>1, Multiples
  <2> QED
    BY <2>1, <2>2 DEF Season
<1> QED
  BY <1>1, <1>2

\* A rate is in force for a block, an hour less or an hour more.
LEMMA StartsApart ==
    ASSUME Seasonal, NEW i \in DOMAIN Starts, NEW j \in DOMAIN Starts, i < j
    PROVE  /\ Starts[i] + Block <= Starts[j] + 1
           /\ j = i + 1 => Starts[j] = Starts[i] + Block + Season(j) - Season(i)
<1>1. i - 1 \in Int /\ j - 1 \in Int /\ i - 1 < j - 1
  BY StartsType
<1>2. (i - 1) * Block + Block <= (j - 1) * Block
  BY <1>1, Multiples
<1>3. ASSUME j = i + 1
      PROVE  (j - 1) * Block = (i - 1) * Block + Block
  <2>1. PICK a \in Int : a = i - 1 /\ a + 1 = j - 1
    BY <1>1, <1>3, StartsType
  <2> QED
    BY <2>1, Multiples
<1>4. Season(i) - Season(j) \in -1 .. 1
  BY DEF Seasonal
<1>5. (i - 1) * Block \in Int /\ (j - 1) * Block \in Int
  BY <1>1, Multiples
<1>6. Block \in Nat
  BY OracleAssumption DEF OracleAssumption
<1>7. /\ Starts[i] = (i - 1) * Block + Season(i) /\ Season(i) \in Int
      /\ Starts[j] = (j - 1) * Block + Season(j) /\ Season(j) \in Int
  BY StartsType
<1>8. PICK m \in Int, n \in Int : m = (i - 1) * Block /\ n = (j - 1) * Block
  BY <1>5
<1> HIDE OracleAssumption
<1> QED
  BY <1>2, <1>3, <1>4, <1>6, <1>7, <1>8

Rounds == 1 .. Len(Starts) - 1

\* The rates whose length is not a block, and the offset of each.
Changes == {i \in Rounds : Season(i + 1) # Season(i)}
ChangeFrom(i) == IF Season(i + 1) > Season(i) THEN Till(i) - 1 ELSE Till(i)
Change(i) == [from |-> ChangeFrom(i), offset |-> Season(i + 1)]

\* An offset takes effect in the last hours of its rate.
LEMMA ChangeInRate ==
    ASSUME Seasonal, NEW i \in Rounds
    PROVE  /\ i \in DOMAIN Starts /\ i + 1 \in DOMAIN Starts
           /\ Till(i) \in Nat /\ Till(i) = Starts[i + 1]
           /\ Till(i) = Starts[i] + Block + Season(i + 1) - Season(i)
           /\ Season(i + 1) \in {Season(i) - 1, Season(i), Season(i) + 1}
           /\ ChangeFrom(i) \in Int
           /\ Starts[i] + 1 < ChangeFrom(i) /\ ChangeFrom(i) <= Till(i)
           /\ Starts[i] + Block <= Till(i) + 1
<1>1. i \in DOMAIN Starts /\ i + 1 \in DOMAIN Starts /\ i < i + 1
  BY StartsType DEF Rounds
<1>2. Till(i) \in Nat /\ Till(i) = Starts[i + 1]
  BY <1>1, StartsType DEF Till
<1>3. /\ Till(i) = Starts[i] + Block + Season(i + 1) - Season(i)
      /\ Starts[i] + Block <= Till(i) + 1
  BY <1>1, <1>2, StartsApart
<1>4. Season(i + 1) - Season(i) \in -1 .. 1 /\ Block > 2
  BY <1>1 DEF Seasonal
<1>5. Season(i) \in Int /\ Season(i + 1) \in Int /\ Starts[i] \in Nat /\ Block \in Nat
  BY <1>1, StartsType, OracleAssumption DEF OracleAssumption
<1>6. Season(i + 1) \in {Season(i) - 1, Season(i), Season(i) + 1}
  BY <1>4, <1>5
<1>7. /\ ChangeFrom(i) \in Int
      /\ Starts[i] + 1 < ChangeFrom(i) /\ ChangeFrom(i) <= Till(i)
  BY <1>2, <1>3, <1>4, <1>5, <1>6 DEF ChangeFrom
<1> QED
  BY <1>1, <1>2, <1>3, <1>6, <1>7

\* So the offsets are in the order of their rates.
LEMMA ChangesApart ==
    ASSUME Seasonal, NEW i \in Rounds, NEW j \in Rounds, i < j
    PROVE  Till(i) <= Starts[j] /\ ChangeFrom(i) < ChangeFrom(j)
<1>1. /\ ChangeFrom(i) <= Till(i) /\ Starts[j] + 1 < ChangeFrom(j)
      /\ ChangeFrom(i) \in Int /\ ChangeFrom(j) \in Int
      /\ Till(i) \in Nat /\ Till(i) = Starts[i + 1]
      /\ i + 1 \in DOMAIN Starts /\ j \in DOMAIN Starts
  BY ChangeInRate
<1>2. Starts[i + 1] <= Starts[j] /\ Starts[j] \in Nat
  <2>1. CASE i + 1 = j
    BY <1>1, <2>1, StartsType
  <2>2. CASE i + 1 # j
    <3>1. i + 1 < j
      BY <2>2 DEF Rounds
    <3>2. Starts[i + 1] + Block <= Starts[j] + 1
      BY <1>1, <3>1, StartsApart
    <3>3. Block > 2 /\ Block \in Nat /\ Starts[j] \in Nat /\ Starts[i + 1] \in Nat
      BY <1>1, StartsType, OracleAssumption DEF Seasonal, OracleAssumption
    <3> QED
      BY <3>2, <3>3
  <2> QED
    BY <2>1, <2>2
<1> QED
  BY <1>1, <1>2

\* Between two changes the season is one.
LEMMA SeasonLasts ==
    ASSUME NEW a \in DOMAIN Starts, NEW b \in DOMAIN Starts, a <= b,
           \A i \in Changes : i < a \/ b <= i
    PROVE  Season(b) = Season(a)
<1>1. a \in Nat /\ b \in Nat /\ a >= 1 /\ b <= Len(Starts) /\ Len(Starts) \in Nat
  BY StartsType
<1> DEFINE others == {i \in a .. b : Season(i) # Season(a)}
<1>2. SUFFICES ASSUME others # {} PROVE FALSE
  BY <1>1
<1>3. others \in SUBSET Nat
  BY <1>1
<1>4. PICK n \in others : \A m \in others : n <= m
  <2> HIDE DEF others
  <2>1. PICK n \in others : \A m \in others : ~ (<<m, n>> \in OpToRel(<, Nat))
    BY <1>2, <1>3, NatLessThanWellFounded, WFMin
  <2>2. \A m \in others : m \in Nat /\ n \in Nat /\ ~ (m < n)
    BY <1>3, <2>1 DEF OpToRel
  <2>3. \A m \in others : n <= m
    BY <2>2
  <2> QED
    BY <2>1, <2>3
<1>5. n \in a .. b /\ Season(n) # Season(a) /\ n \in Nat
  BY <1>1
<1>6. n - 1 \in a .. b /\ n - 1 \notin others
  BY <1>1, <1>4, <1>5
<1>7. Season(n - 1) = Season(a)
  BY <1>6
<1>8. PICK k \in Int : k = n - 1 /\ k + 1 = n
  BY <1>5
<1>9. k \in Changes /\ a <= k /\ k < b
  BY <1>1, <1>5, <1>6, <1>7, <1>8 DEF Changes, Rounds
<1> QED
  BY <1>1, <1>9 DEF Changes, Rounds

-----------------------------------------------------------------------------
(* The offsets.                                                            *)

\* The offsets os are those of the calendar, in its order, and none is missed.
Faithful(os) ==
    /\ \A x \in DOMAIN os : \E i \in Changes : os[x] = Change(i)
    /\ \A x, y \in DOMAIN os : x < y => os[x].from < os[y].from
    /\ \A x \in DOMAIN os, i \in Changes :
          ChangeFrom(i) <= os[x].from => \E y \in 1 .. x : os[y] = Change(i)

\* They have all those of the first k rates, or no other.
Complete(os, k) == \A i \in Changes : i <= k => \E x \in DOMAIN os : os[x] = Change(i)
Within(os, k) == \A x \in DOMAIN os, i \in Changes : os[x] = Change(i) => i <= k

\* The offset of moment t is right for the rate after k, if all offsets of the
\* first k rates have taken effect and no other has.
LEMMA OffsetAt ==
    ASSUME Seasonal, offsets \in Seq(Offset), Faithful(offsets), NEW t \in Int,
           NEW k \in 0 .. Len(Starts) - 1, Complete(offsets, k),
           \A i \in Changes : i <= k => ChangeFrom(i) <= t,
           \A x \in DOMAIN offsets, i \in Changes :
              offsets[x] = Change(i) /\ ChangeFrom(i) <= t => i <= k
    PROVE  GetOffset(t) = Season(k + 1)
<1>1. k \in Nat /\ k + 1 \in DOMAIN Starts /\ 1 \in DOMAIN Starts
  BY StartsType
<1>2. \A i \in Changes : /\ i \in Rounds /\ i \in Int /\ i + 1 \in DOMAIN Starts
                         /\ ChangeFrom(i) \in Int
                         /\ Change(i).from = ChangeFrom(i)
                         /\ Change(i).offset = Season(i + 1)
  BY ChangeInRate DEF Changes, Rounds, Change
<1>3. CASE \A x \in DOMAIN offsets : ~ (offsets[x].from <= t)
  <2>1. GetOffset(t) = 0
    BY <1>3, OffsetTaken
  <2>2. \A i \in Changes : k + 1 <= i
    <3> SUFFICES ASSUME NEW i \in Changes, ~ (k + 1 <= i) PROVE FALSE
      OBVIOUS
    <3>1. i <= k
      BY <1>1, <1>2
    <3>2. PICK x \in DOMAIN offsets : offsets[x] = Change(i)
      BY <3>1 DEF Complete
    <3> QED
      BY <1>2, <1>3, <3>1, <3>2
  <2>3. Season(k + 1) = Season(1)
    <3>1. 1 <= k + 1
      BY <1>1
    <3> QED
      BY <1>1, <2>2, <3>1, SeasonLasts
  <2>4. Season(1) = 0
    BY Multiples, <1>1, OracleAssumption DEF Season, Seasonal, OracleAssumption
  <2> QED
    BY <2>1, <2>3, <2>4
<1>4. CASE ~ \A x \in DOMAIN offsets : ~ (offsets[x].from <= t)
  <2>1. PICK x \in DOMAIN offsets :
             /\ GetOffset(t) = offsets[x].offset /\ offsets[x].from <= t
             /\ \A y \in DOMAIN offsets : offsets[y].from <= t => y <= x
    BY <1>4, OffsetTaken
  <2>2. PICK j \in Changes : offsets[x] = Change(j)
    BY DEF Faithful
  <2>3. j <= k /\ j + 1 \in DOMAIN Starts /\ j \in Int
    BY <1>2, <2>1, <2>2
  <2>4. ASSUME NEW i \in Changes, ~ (i < j + 1), ~ (k + 1 <= i) PROVE FALSE
    <3>1. i <= k /\ j < i
      BY <1>1, <1>2, <2>3, <2>4
    <3>2. ChangeFrom(j) < ChangeFrom(i)
      BY <1>2, <3>1, ChangesApart
    <3>3. PICK y \in DOMAIN offsets : offsets[y] = Change(i)
      BY <3>1 DEF Complete
    <3>4. offsets[y].from <= t /\ y <= x
      BY <1>2, <2>1, <3>1, <3>3
    <3>5. offsets[x].from < offsets[y].from
      BY <1>2, <2>2, <3>2, <3>3
    <3>6. ~ (offsets[y].from < offsets[x].from) /\ y # x
      BY <1>2, <2>2, <3>3, <3>2
    <3>7. y < x
      BY <3>4, <3>6
    <3> QED
      BY <3>6, <3>7 DEF Faithful
  <2>5. Season(k + 1) = Season(j + 1)
    <3>1. j + 1 <= k + 1
      BY <1>1, <2>3
    <3> QED
      BY <1>1, <2>3, <2>4, <3>1, SeasonLasts
  <2> QED
    BY <1>2, <2>1, <2>2, <2>5
<1> QED
  BY <1>3, <1>4

\* Whatever has taken effect, it is the offset of some season.
LEMMA OffsetOfSeason ==
    ASSUME Seasonal, offsets \in Seq(Offset), Faithful(offsets), NEW t \in Int
    PROVE  \E i \in DOMAIN Starts : GetOffset(t) = Season(i)
<1>1. 1 \in DOMAIN Starts /\ Season(1) = 0
  BY StartsType, Multiples, OracleAssumption DEF Season, Seasonal, OracleAssumption
<1>2. \A i \in Changes : i + 1 \in DOMAIN Starts /\ Change(i).offset = Season(i + 1)
  BY ChangeInRate DEF Changes, Change
<1> QED
  BY <1>1, <1>2, OffsetTaken DEF Faithful

LEMMA StartsOrdered ==
    ASSUME Seasonal, NEW i \in DOMAIN Starts, NEW j \in DOMAIN Starts
    PROVE  /\ Starts[i] \in Nat /\ Starts[j] \in Nat
           /\ i <= j => Starts[i] <= Starts[j]
           /\ i < j => Starts[i] + 1 < Starts[j]
<1>1. Starts[i] \in Nat /\ Starts[j] \in Nat /\ i \in Nat /\ j \in Nat
  BY StartsType
<1>2. ASSUME i < j PROVE Starts[i] + 1 < Starts[j]
  <2>1. Starts[i] + Block <= Starts[j] + 1
    BY <1>2, StartsApart
  <2>2. Block > 2 /\ Block \in Nat
    BY OracleAssumption DEF Seasonal, OracleAssumption
  <2> QED
    BY <1>1, <2>1, <2>2
<1> QED
  BY <1>1, <1>2

\* When rate k + 1 starts, the offsets of the first k rates have taken effect.
LEMMA TakenAtStart ==
    ASSUME Seasonal, NEW k \in 0 .. Len(Starts) - 1, NEW i \in Changes
    PROVE  ChangeFrom(i) <= Starts[k + 1] <=> i <= k
<1>1. /\ i \in Rounds /\ i \in DOMAIN Starts /\ i + 1 \in DOMAIN Starts
      /\ ChangeFrom(i) \in Int /\ Till(i) = Starts[i + 1]
      /\ Starts[i] + 1 < ChangeFrom(i) /\ ChangeFrom(i) <= Till(i)
  BY ChangeInRate DEF Changes
<1>2. k + 1 \in DOMAIN Starts /\ k \in Nat /\ i \in Nat
  BY <1>1, StartsType
<1>3. ASSUME i <= k PROVE ChangeFrom(i) <= Starts[k + 1]
  <2>1. Starts[i + 1] <= Starts[k + 1] /\ Starts[i + 1] \in Nat /\ Starts[k + 1] \in Nat
    <3>1. i + 1 <= k + 1
      BY <1>2, <1>3
    <3> QED
      BY <1>1, <1>2, <3>1, StartsOrdered
  <2> QED
    BY <1>1, <2>1
<1>4. ASSUME ~ (i <= k) PROVE ~ (ChangeFrom(i) <= Starts[k + 1])
  <2>1. Starts[k + 1] <= Starts[i] /\ Starts[i] \in Nat /\ Starts[k + 1] \in Nat
    <3>1. k + 1 <= i
      BY <1>2, <1>4
    <3> QED
      BY <1>1, <1>2, <3>1, StartsOrdered
  <2> QED
    BY <1>1, <2>1
<1> QED
  BY <1>3, <1>4

LEMMA OffsetAtStart ==
    ASSUME Seasonal, offsets \in Seq(Offset), Faithful(offsets),
           NEW k \in 0 .. Len(Starts) - 1, Complete(offsets, k)
    PROVE  GetOffset(Starts[k + 1]) = Season(k + 1)
<1>1. Starts[k + 1] \in Int
  BY StartsType
<1> QED
  BY <1>1, TakenAtStart, OffsetAt

\* It stays if nothing is known of what follows.
LEMMA OffsetAfter ==
    ASSUME Seasonal, offsets \in Seq(Offset), Faithful(offsets), NEW t \in Int,
           NEW k \in 0 .. Len(Starts) - 1, Complete(offsets, k), Within(offsets, k),
           Starts[k + 1] <= t
    PROVE  GetOffset(t) = Season(k + 1)
<1>1. Starts[k + 1] \in Int
  BY StartsType
<1>2. ASSUME NEW i \in Changes, i <= k PROVE ChangeFrom(i) <= t
  <2>1. ChangeFrom(i) <= Starts[k + 1] /\ ChangeFrom(i) \in Int
    BY <1>2, TakenAtStart, ChangeInRate DEF Changes
  <2> QED
    BY <1>1, <2>1
<1> QED
  BY <1>2, OffsetAt DEF Within

LEMMA FaithfulPrefix ==
    ASSUME NEW s \in Seq(Offset), NEW r \in Seq(Offset), Len(r) <= Len(s),
           \A x \in DOMAIN r : r[x] = s[x], Faithful(s)
    PROVE  Faithful(r)
<1>1. /\ DOMAIN r \subseteq DOMAIN s
      /\ \A x \in DOMAIN r : 1 .. x \subseteq DOMAIN r
  OBVIOUS
<1>2. \A x \in DOMAIN r : \E i \in Changes : r[x] = Change(i)
  BY <1>1 DEF Faithful
<1>3. \A x, y \in DOMAIN r : x < y => r[x].from < r[y].from
  BY <1>1 DEF Faithful
<1>4. ASSUME NEW x \in DOMAIN r, NEW i \in Changes, ChangeFrom(i) <= r[x].from
      PROVE  \E y \in 1 .. x : r[y] = Change(i)
  <2>1. PICK y \in 1 .. x : s[y] = Change(i)
    BY <1>1, <1>4 DEF Faithful
  <2> QED
    BY <1>1, <2>1
<1> QED
  BY <1>2, <1>3, <1>4 DEF Faithful

LEMMA ChangeOffset ==
    ASSUME Seasonal, NEW i \in Changes
    PROVE  Change(i) \in Offset
BY ChangeInRate, StartsType DEF Changes, Change, Offset

\* The next offset of the calendar is added.
LEMMA FaithfulAppend ==
    ASSUME Seasonal, NEW s \in Seq(Offset), Faithful(s), NEW i \in Changes,
           Complete(s, i - 1), \A x \in DOMAIN s : s[x].from < ChangeFrom(i)
    PROVE  Faithful(Append(s, Change(i))) /\ Complete(Append(s, Change(i)), i)
<1>1. PICK r \in Seq(Offset) : r = Append(s, Change(i))
  <2>1. Change(i) \in Offset
    BY ChangeOffset
  <2>2. Append(s, Change(i)) \in Seq(Offset)
    BY <2>1
  <2> QED
    BY <2>2
<1>2. PICK n \in Nat \ {0} : /\ n = Len(r) /\ DOMAIN r = 1 .. n /\ r[n] = Change(i)
                             /\ DOMAIN s = 1 .. n - 1
                             /\ \A x \in 1 .. n - 1 : r[x] = s[x]
  BY <1>1, ChangeOffset
<1>3. \A x \in DOMAIN r : \E j \in Changes : r[x] = Change(j)
  BY <1>2 DEF Faithful
<1>4. Change(i).from = ChangeFrom(i)
  BY DEF Change
<1>5. \A x, y \in DOMAIN r : x < y => r[x].from < r[y].from
  <2> SUFFICES ASSUME NEW x \in DOMAIN r, NEW y \in DOMAIN r, x < y
               PROVE  r[x].from < r[y].from
    OBVIOUS
  <2>1. CASE y = n
    BY <1>2, <1>4, <2>1
  <2>2. CASE y # n
    <3>1. x \in DOMAIN s /\ y \in DOMAIN s /\ r[x] = s[x] /\ r[y] = s[y]
      BY <1>2, <2>2
    <3> QED
      BY <3>1 DEF Faithful
  <2> QED
    BY <2>1, <2>2
<1>6. Complete(r, i)
  <2> SUFFICES ASSUME NEW j \in Changes, j <= i PROVE \E x \in DOMAIN r : r[x] = Change(j)
    BY DEF Complete
  <2>1. j \in Int /\ i \in Int
    BY DEF Changes, Rounds
  <2>2. CASE j = i
    BY <1>2, <2>2
  <2>3. CASE j # i
    <3>1. j <= i - 1
      BY <2>1, <2>3
    <3>2. PICK x \in DOMAIN s : s[x] = Change(j)
      BY <3>1 DEF Complete
    <3> QED
      BY <1>2, <3>2
  <2> QED
    BY <2>2, <2>3
<1>7. ASSUME NEW x \in DOMAIN r, NEW j \in Changes, ChangeFrom(j) <= r[x].from
      PROVE  \E y \in 1 .. x : r[y] = Change(j)
  <2>1. CASE x = n
    <3>1. j <= i
      <4> SUFFICES ASSUME ~ (j <= i) PROVE FALSE
        OBVIOUS
      <4>1. i < j /\ i \in Rounds /\ j \in Rounds
        BY DEF Changes, Rounds
      <4>2. ChangeFrom(i) < ChangeFrom(j) /\ ChangeFrom(i) \in Int /\ ChangeFrom(j) \in Int
        BY <4>1, ChangesApart, ChangeInRate
      <4> QED
        BY <1>2, <1>4, <1>7, <2>1, <4>2
    <3> QED
      BY <1>2, <1>6, <2>1, <3>1 DEF Complete
  <2>2. CASE x # n
    <3>1. x \in DOMAIN s /\ r[x] = s[x]
      BY <1>2, <2>2
    <3>2. PICK y \in 1 .. x : s[y] = Change(j)
      BY <1>7, <3>1 DEF Faithful
    <3>3. y \in 1 .. n - 1
      BY <1>2, <3>1
    <3> QED
      BY <1>2, <3>2, <3>3
  <2> QED
    BY <2>1, <2>2
<1> QED
  BY <1>1, <1>3, <1>5, <1>6, <1>7 DEF Faithful

-----------------------------------------------------------------------------
(* What is published.                                                      *)

\* The oracle has the first rates of the service, and their offsets.
Published == /\ \A j \in DOMAIN rates : rates[j] = j
             /\ Faithful(offsets) /\ Complete(offsets, Len(rates))

LEMMA DivisionBounds ==
    ASSUME NEW b \in Nat \ {0}, NEW x \in Int
    PROVE  x \div b \in Int /\ (x \div b) * b <= x /\ x < (x \div b) * b + b
OBVIOUS

LEMMA PublishedStored ==
    ASSUME TypeOK, Published
    PROVE  /\ Len(rates) \in 0 .. known /\ Len(rates) \in 0 .. Len(Starts) - 1
           /\ DOMAIN rates = 1 .. Len(rates)
<1>1. /\ rates \in Seq(1 .. known) /\ known \in Nat /\ known <= Len(Starts) - 1
      /\ Len(Starts) \in Nat
  BY StartsType DEF TypeOK
<1>2. DOMAIN rates = 1 .. Len(rates) /\ Len(rates) \in Nat
  BY <1>1
<1>3. Len(rates) <= known
  <2>1. CASE Len(rates) = 0
    BY <1>1, <2>1
  <2>2. CASE Len(rates) # 0
    <3>1. Len(rates) \in DOMAIN rates
      BY <1>2, <2>2
    <3>2. rates[Len(rates)] \in 1 .. known
      BY <1>1, <3>1
    <3> QED
      BY <3>1, <3>2 DEF Published
  <2> QED
    BY <2>1, <2>2
<1> QED
  BY <1>1, <1>2, <1>3

\* No moment of rate r is answered with a later rate.
LEMMA NotLater ==
    ASSUME Seasonal, offsets \in Seq(Offset), Faithful(offsets), NEW t \in Nat,
           NEW r \in Rounds, Complete(offsets, r),
           t = Starts[r] - 1
    PROVE  GetOffset(t) >= Season(r)
<1>1. r \in DOMAIN Starts /\ r \in Nat /\ Starts[1] = 0 /\ 1 \in DOMAIN Starts
  BY StartsType, ChangeInRate DEF Rounds, Seasonal
<1>2. r # 1
  BY <1>1
<1>3. PICK u \in Rounds : u = r - 1 /\ u + 1 = r /\ u \in Nat /\ u - 1 \in Nat
  BY <1>1, <1>2 DEF Rounds
<1>4. /\ Till(u) = Starts[r] /\ Till(u) \in Nat /\ Starts[u] <= t
      /\ u \in DOMAIN Starts /\ Starts[u] \in Nat
  <2>1. Till(u) = Starts[r] /\ Till(u) \in Nat /\ u \in DOMAIN Starts
    BY <1>3, ChangeInRate
  <2>2. Starts[u] + 1 < Starts[r] /\ Starts[u] \in Nat
    BY <1>1, <1>3, <2>1, StartsOrdered
  <2> QED
    BY <1>1, <2>1, <2>2
<1>5. u \in 0 .. Len(Starts) - 1 /\ u - 1 \in 0 .. Len(Starts) - 1
  BY <1>3 DEF Rounds
<1>6. \A i \in Changes : /\ ChangeFrom(i) \in Int /\ i \in Nat /\ i \in Rounds
                         /\ ChangeFrom(i) <= t => i <= u
  <2> TAKE i \in Changes
  <2>1. ChangeFrom(i) \in Int /\ i \in Nat /\ i \in Rounds
    BY ChangeInRate DEF Changes, Rounds
  <2>2. ChangeFrom(i) <= Starts[u + 1] <=> i <= u
    BY <1>5, TakenAtStart
  <2> QED
    BY <1>3, <1>4, <2>1, <2>2
<1>7. Complete(offsets, u) /\ Complete(offsets, u - 1)
  BY <1>3, <1>6 DEF Complete
<1>8. CASE u \in Changes /\ ChangeFrom(u) <= t
  <2>1. ASSUME NEW i \in Changes, i <= u PROVE ChangeFrom(i) <= t
    <3>1. CASE i = u
      BY <1>8, <3>1
    <3>2. CASE i # u
      <4>1. ChangeFrom(i) < ChangeFrom(u)
        BY <1>3, <1>6, <2>1, <3>2, ChangesApart
      <4> QED
        BY <1>6, <1>8, <4>1
    <3> QED
      BY <3>1, <3>2
  <2>2. GetOffset(t) = Season(u + 1)
    BY <1>3, <1>5, <1>6, <1>7, <2>1, OffsetAt
  <2>3. Season(r) \in Int
    BY <1>1, StartsType
  <2> QED
    BY <1>3, <2>2, <2>3
<1>9. CASE ~ (u \in Changes /\ ChangeFrom(u) <= t)
  <2>1. ASSUME NEW i \in Changes, i <= u - 1 PROVE ChangeFrom(i) <= t
    <3>1. ChangeFrom(i) <= Starts[u - 1 + 1]
      BY <1>5, <2>1, TakenAtStart
    <3> QED
      BY <1>3, <1>4, <1>6, <3>1
  <2>2. ASSUME NEW i \in Changes, ChangeFrom(i) <= t PROVE i <= u - 1
    <3>1. i <= u /\ i # u
      BY <1>6, <1>9, <2>2
    <3> QED
      BY <1>3, <1>6, <3>1
  <2>3. GetOffset(t) = Season(u)
    <3>1. PICK v \in 0 .. Len(Starts) - 1 : v = u - 1 /\ v + 1 = u
      BY <1>3, <1>5
    <3>2. /\ Complete(offsets, v)
          /\ \A i \in Changes : i <= v => ChangeFrom(i) <= t
          /\ \A i \in Changes : ChangeFrom(i) <= t => i <= v
      BY <1>7, <2>1, <2>2, <3>1
    <3>3. GetOffset(t) = Season(v + 1)
      BY <3>2, OffsetAt
    <3> QED
      BY <3>1, <3>3
  <2>4. Season(u) >= Season(r)
    <3> SUFFICES ASSUME ~ (Season(u) >= Season(r)) PROVE FALSE
      OBVIOUS
    <3>1. Season(u) \in Int /\ Season(r) \in Int
      BY <1>1, <1>4, StartsType
    <3>2. u \in Changes /\ Season(u + 1) > Season(u)
      BY <1>3, <3>1 DEF Changes
    <3>3. ChangeFrom(u) = Till(u) - 1
      BY <3>2 DEF ChangeFrom
    <3> QED
      BY <1>4, <1>9, <3>2, <3>3
  <2> QED
    BY <1>3, <2>3, <2>4
<1> QED
  BY <1>8, <1>9

\* Whatever can be read is what the service has for that moment, which is one
\* before the end of the last rate.
LEMMA PublishedRight ==
    ASSUME Seasonal, TypeOK, Published, NEW t \in Hours, Readable(t)
    PROVE  RateAt(t) = InForce(t) /\ t < Starts[Len(rates) + 1]
<1>1. /\ t \in Nat /\ offsets \in Seq(Offset) /\ Block \in Nat \ {0}
      /\ Faithful(offsets) /\ Len(rates) \in 0 .. Len(Starts) - 1
      /\ DOMAIN rates = 1 .. Len(rates)
  BY PublishedStored, OracleAssumption DEF TypeOK, Hours, Published, OracleAssumption
<1>2. PICK g \in Int, j \in DOMAIN Starts : GetOffset(t) = g /\ g = Season(j)
  BY <1>1, OffsetOfSeason, StartsType
<1>3. PICK x \in Int : /\ x = GetBlockIndexFor(t) /\ x \in 0 .. Len(rates) - 1
                       /\ x * Block <= t - g /\ t - g < x * Block + Block
  <2>1. PICK d \in Int : d = t - g
    BY <1>1, <1>2
  <2>2. GetBlockIndexFor(t) = d \div Block
    BY <1>2, <2>1 DEF GetBlockIndexFor
  <2> QED
    BY <1>1, <2>1, <2>2, DivisionBounds DEF Readable
<1>4. PICK r \in Nat : /\ r = x + 1 /\ r - 1 = x /\ r \in 1 .. Len(rates) /\ r \in Rounds
                       /\ r \in DOMAIN Starts /\ r + 1 \in DOMAIN Starts
                       /\ r \in 0 .. Len(Starts) - 1
  <2>1. PICK n \in Nat, m \in Nat : n = Len(rates) /\ m = Len(Starts) /\ n < m
    <3>1. Len(rates) \in Nat /\ Len(Starts) \in Nat /\ Len(rates) < Len(Starts)
      BY <1>1, StartsType
    <3> QED
      BY <3>1
  <2>2. PICK r \in Nat : r = x + 1 /\ r - 1 = x /\ r \in 1 .. n
    BY <1>3, <2>1
  <2>3. r \in 1 .. m - 1 /\ r \in 1 .. m /\ r + 1 \in 1 .. m /\ r \in 0 .. m - 1
    BY <2>1, <2>2
  <2> QED
    BY <2>1, <2>2, <2>3, StartsType DEF Rounds
<1>5. RateAt(t) = r
  <2>1. r \in DOMAIN rates
    BY <1>1, <1>4
  <2> QED
    BY <1>3, <1>4, <2>1 DEF RateAt, Published
<1>0. t \in Nat /\ Block \in Nat /\ Season(r) \in Int /\ Season(r + 1) \in Int
  BY <1>1, <1>4, StartsType
<1>6. PICK b \in Int : /\ b <= t - g /\ t - g < b + Block
                       /\ Starts[r] = b + Season(r)
                       /\ Till(r) = b + Block + Season(r + 1)
  <2>1. PICK b \in Int : b = x * Block
    BY <1>3, Multiples
  <2>2. Starts[r] = x * Block + Season(r)
    <3>1. Starts[r] = (r - 1) * Block + Season(r)
      BY <1>4, StartsType
    <3> QED
      BY <1>4, <3>1
  <2>3. Till(r) = Starts[r] + Block + Season(r + 1) - Season(r)
    BY <1>4, ChangeInRate
  <2>4. b <= t - g /\ t - g < b + Block /\ Starts[r] = b + Season(r)
    BY <1>3, <2>1, <2>2
  <2>5. Till(r) = b + Block + Season(r + 1)
    BY <1>0, <2>1, <2>3, <2>4
  <2> QED
    BY <2>1, <2>4, <2>5
<1>7. /\ Season(r) \in Int /\ Season(r + 1) \in Int
      /\ g - Season(r) \in -1 .. 1 /\ g - Season(r + 1) \in -1 .. 1
  BY <1>2, <1>4, StartsType DEF Seasonal
<1>8. Complete(offsets, r)
  BY <1>1, <1>4 DEF Complete, Published, Changes, Rounds
<1>9. Starts[r] <= t
  <2> SUFFICES ASSUME ~ (Starts[r] <= t) PROVE FALSE
    OBVIOUS
  <2>1. t = Starts[r] - 1 /\ g = Season(r) - 1
    BY <1>0, <1>2, <1>6, <1>7
  <2>2. GetOffset(t) >= Season(r)
    BY <1>1, <1>4, <1>8, <2>1, NotLater
  <2> QED
    BY <1>2, <1>7, <2>1, <2>2
<1>10. t < Till(r)
  <2> SUFFICES ASSUME ~ (t < Till(r)) PROVE FALSE
    OBVIOUS
  <2>1. t = Till(r) /\ g = Season(r + 1) + 1
    BY <1>0, <1>2, <1>6, <1>7
  <2>2. GetOffset(Till(r)) = Season(r + 1)
    BY <1>1, <1>4, <1>8, OffsetAtStart DEF Till
  <2> QED
    BY <1>2, <1>7, <2>1, <2>2
<1>11. ASSUME NEW i \in 1 .. Len(Starts) - 1, Starts[i] <= t, t < Till(i)
       PROVE  i = r
  <2>1. i \in Rounds /\ i \in Int
    BY DEF Rounds
  <2>2. /\ Till(i) \in Nat /\ Starts[i] \in Nat /\ Till(r) \in Nat /\ Starts[r] \in Nat
    BY <1>4, <2>1, ChangeInRate, StartsType
  <2>3. ~ (i < r)
    <3> SUFFICES ASSUME i < r PROVE FALSE
      OBVIOUS
    <3>1. Till(i) <= Starts[r]
      BY <1>4, <2>1, ChangesApart
    <3> QED
      BY <1>1, <1>9, <1>11, <2>2, <3>1
  <2>4. ~ (r < i)
    <3> SUFFICES ASSUME r < i PROVE FALSE
      OBVIOUS
    <3>1. Till(r) <= Starts[i]
      BY <1>4, <2>1, ChangesApart
    <3> QED
      BY <1>1, <1>10, <1>11, <2>2, <3>1
  <2> QED
    BY <1>4, <2>1, <2>3, <2>4
<1>12. r \in 1 .. Len(Starts) - 1
  BY <1>4 DEF Rounds
<1>13. RateAt(t) = InForce(t)
  BY <1>5, <1>9, <1>10, <1>11, <1>12 DEF InForce
<1>14. t < Starts[Len(rates) + 1]
  <2>1. PICK m \in Int : /\ m = Len(rates) + 1 /\ r + 1 <= m
                         /\ m \in 1 .. Len(Starts) /\ r \in Int
    <3>1. Len(rates) \in Nat /\ Len(rates) + 1 \in 1 .. Len(Starts)
      BY <1>1, StartsType
    <3> QED
      BY <1>4, <3>1
  <2>2. Starts[r + 1] <= Starts[m] /\ Starts[m] \in Nat /\ Starts[r + 1] \in Nat
    BY <1>4, <2>1, StartsType, StartsOrdered
  <2>3. Till(r) = Starts[r + 1]
    BY DEF Till
  <2> QED
    BY <1>1, <1>10, <2>1, <2>2, <2>3
<1> QED
  BY <1>13, <1>14

-----------------------------------------------------------------------------
(* The plan of an updater.                                                 *)

\* How many rates there will be, and which offsets, once p has pushed its plan.
Reach(p) == Len(rates) + Len(plan[p].rates)
Ahead(p) == offsets \o plan[p].offsets

\* The plan goes on with the next rates and with all offsets that they need,
\* up to a rate that has started.
Planned(p) ==
    pc[p] \in {"fetching", "offsets", "rates"} =>
       /\ \A j \in DOMAIN plan[p].rates : plan[p].rates[j] = Len(rates) + j
       /\ Faithful(Ahead(p)) /\ Complete(Ahead(p), Reach(p))
       /\ Within(plan[p].offsets, Reach(p))
       /\ Reach(p) <= known
       /\ plan[p].till <= now
       /\ plan[p].rates # <<>> => Starts[Reach(p)] < plan[p].till
       /\ faults = 0 => Within(Ahead(p), Reach(p))
       /\ pc[p] = "rates" => plan[p].offsets = <<>> /\ plan[p].rates # <<>>

\* What is fetched next is the rate after those; or nothing is, or a rate that
\* began elsewhere, which is logged.
OnTrack(p) == /\ plan[p].at = Starts[Reach(p) + 1]
              /\ plan[p].prior = Season(Reach(p) + 1)
              /\ plan[p].last = LastOffsetFrom
Astray(p) == /\ plan[p].rates = <<>> /\ plan[p].offsets = <<>>
             /\ \/ plan[p].at >= plan[p].till
                \/ faults > 0 /\ \A i \in DOMAIN Starts : Starts[i] # plan[p].at
Fetching(p) == pc[p] = "fetching" => OnTrack(p) \/ Astray(p)

\* Until an updater logs something, all of this holds; and before the first
\* fault none does, and no updater has left the contract with an offset whose
\* rate is missing.
Aligned == ~ alarmed => Published /\ \A p \in Updaters : Planned(p) /\ Fetching(p)
Settled == faults = 0 =>
             /\ ~ alarmed
             /\ (\A p \in Updaters : pc[p] \notin {"offsets", "rates"})
                  => Within(offsets, Len(rates))

RatesInv == Aligned /\ Settled

LEMMA RestOf ==
    ASSUME NEW b \in Nat, b > 2
    PROVE  (b - 1) % b = b - 1 /\ b % b = 0 /\ (b + 1) % b = 1
OBVIOUS

\* Each rate is one block, and its offset is what its season differs.
LEMMA RateShift ==
    ASSUME Seasonal, NEW i \in Rounds
    PROVE  /\ Shift(Till(i) - Starts[i]) = Season(i + 1) - Season(i)
           /\ NumBlocks(Till(i) - Starts[i]) = 1
<1>1. /\ Block \in Nat \ {0} /\ Block > 2 /\ Till(i) \in Nat /\ Starts[i] \in Nat
      /\ Season(i) \in Int /\ Season(i + 1) \in Int
  BY ChangeInRate, StartsType, OracleAssumption DEF Seasonal, OracleAssumption
<1>2. PICK d \in Int, e \in Int :
           /\ d = Till(i) - Starts[i] /\ e = Season(i + 1) - Season(i)
           /\ d = Block + e /\ e \in {-1, 0, 1}
  BY <1>1, ChangeInRate
<1>3. Shift(d) = e
  <2>1. CASE e = -1
    <3>1. d = Block - 1 /\ d % Block = Block - 1
      BY <1>1, <1>2, <2>1, RestOf
    <3> QED
      BY <1>1, <2>1, <3>1 DEF Shift
  <2>2. CASE e = 0
    <3>1. d = Block /\ d % Block = 0
      BY <1>1, <1>2, <2>2, RestOf
    <3> QED
      BY <1>1, <2>2, <3>1 DEF Shift
  <2>3. CASE e = 1
    <3>1. d = Block + 1 /\ d % Block = 1
      BY <1>1, <1>2, <2>3, RestOf
    <3> QED
      BY <1>1, <2>3, <3>1 DEF Shift
  <2> QED
    BY <1>2, <2>1, <2>2, <2>3
<1>4. NumBlocks(d) = 1
  <2>1. d - Shift(d) = Block
    BY <1>1, <1>2, <1>3
  <2>2. Block \div Block = 1
    BY <1>1, DivisionExact
  <2> QED
    BY <2>1, <2>2 DEF NumBlocks
<1> QED
  BY <1>2, <1>3, <1>4

\* So a plan that is at the start of a rate goes on to its end.
LEMMA WithRateNext ==
    ASSUME Seasonal, NEW found \in Plan, NEW i \in Rounds,
           found.at = Starts[i], found.prior = Season(i)
    PROVE  WithRate(found, i)
             = [found EXCEPT !.at = Starts[i + 1],
                             !.prior = Season(i + 1),
                             !.offsets = IF i \in Changes /\ ChangeFrom(i) > found.last
                                         THEN Append(@, Change(i)) ELSE @,
                             !.rates = Append(@, i)]
<1> DEFINE own == Shift(Till(i) - found.at)
           new == [from   |-> Till(i) - (IF own > 0 THEN own ELSE 0),
                   offset |-> found.prior + own]
           pushed == own # 0 /\ new.from > found.last
           many == NumBlocks(Till(i) - found.at)
<1>1. /\ Season(i) \in Int /\ Season(i + 1) \in Int /\ Till(i) = Starts[i + 1]
      /\ Till(i) \in Nat
      /\ Season(i + 1) \in {Season(i) - 1, Season(i), Season(i) + 1}
  BY ChangeInRate, StartsType
<1>2. own = Season(i + 1) - Season(i) /\ many = 1
  BY RateShift
<1> HIDE DEF own, many
<1>3. i \in Changes <=> own # 0
  BY <1>1, <1>2 DEF Changes
<1>4. new = Change(i)
  <2>1. found.prior + own = Season(i + 1)
    BY <1>1, <1>2
  <2>2. Till(i) - (IF own > 0 THEN own ELSE 0) = ChangeFrom(i)
    BY <1>1, <1>2 DEF ChangeFrom
  <2> QED
    BY <2>1, <2>2 DEF Change
<1>5. pushed <=> i \in Changes /\ ChangeFrom(i) > found.last
  BY <1>3, <1>4 DEF Change
<1>6. found.rates \o [k \in 1 .. many |-> i] = Append(found.rates, i)
  <2>1. [k \in 1 .. many |-> i] = <<i>>
    BY <1>2
  <2>2. PICK rs \in Seq(1 .. known) : rs = found.rates
    BY DEF Plan
  <2>3. i \in Int /\ rs \in Seq(Int)
    <3>1. 1 .. known \subseteq Int
      OBVIOUS
    <3>2. rs \in Seq(Int)
      BY <2>2, <3>1, SeqMonotonic
    <3> QED
      BY <3>2 DEF Rounds
  <2>4. rs \o <<i>> = Append(rs, i)
    BY <2>3
  <2> QED
    BY <2>1, <2>2, <2>4
<1>7. WithRate(found, i)
        = [found EXCEPT !.at = Till(i),
                        !.prior = new.offset,
                        !.offsets = IF pushed THEN Append(@, new) ELSE @,
                        !.rates = @ \o [k \in 1 .. many |-> i]]
  BY DEF WithRate, own, many
<1>8. new.offset = Season(i + 1)
  BY <1>4 DEF Change
<1> HIDE DEF new, pushed
<1> QED
  BY <1>1, <1>4, <1>5, <1>6, <1>7, <1>8

\* The rate that the service has for the start of rate i is rate i.
LEMMA StoredNext ==
    ASSUME Seasonal, TypeOK, NEW k \in 0 .. known, NEW i \in Stored(Starts[k + 1])
    PROVE  i = k + 1 /\ i \in Rounds /\ i <= known
<1>1. /\ known \in Nat /\ known <= Len(Starts) - 1 /\ Len(Starts) \in Nat
      /\ i \in 1 .. known
      /\ Till(i) > Starts[k + 1]
      /\ \A j \in 1 .. i - 1 : Till(j) <= Starts[k + 1]
  BY StartsType DEF TypeOK, Stored
<1>2. i \in Rounds /\ i \in Nat /\ k \in Nat /\ k + 1 \in DOMAIN Starts
  BY <1>1, StartsType DEF Rounds
<1>3. ~ (i <= k)
  <2> SUFFICES ASSUME i <= k PROVE FALSE
    OBVIOUS
  <2>1. /\ i + 1 \in DOMAIN Starts /\ i + 1 <= k + 1 /\ Till(i) = Starts[i + 1]
        /\ Till(i) \in Nat
    BY <1>2, ChangeInRate
  <2>2. Starts[i + 1] <= Starts[k + 1] /\ Starts[k + 1] \in Nat
    BY <1>2, <2>1, StartsOrdered
  <2> QED
    BY <1>1, <2>1, <2>2
<1>4. ~ (k + 1 < i)
  <2> SUFFICES ASSUME k + 1 < i PROVE FALSE
    OBVIOUS
  <2>1. Till(k + 1) <= Starts[k + 1] /\ k + 1 \in Rounds
    <3>1. k + 1 \in 1 .. i - 1
      BY <1>2
    <3>2. k + 1 \in Rounds
      BY <1>1, <1>2 DEF Rounds
    <3> QED
      BY <1>1, <3>1, <3>2
  <2>2. Starts[k + 1] + 1 < ChangeFrom(k + 1) /\ ChangeFrom(k + 1) <= Till(k + 1)
        /\ ChangeFrom(k + 1) \in Int /\ Till(k + 1) \in Nat /\ Starts[k + 1] \in Nat
    BY <1>2, <2>1, ChangeInRate, StartsType
  <2> QED
    BY <2>1, <2>2
<1> QED
  BY <1>1, <1>2, <1>3, <1>4

\* What is read of the contract continues it, or leads nowhere.
LEMMA ReadPlan ==
    ASSUME Seasonal, TypeOK, Published,
           faults = 0 => Within(offsets, Len(rates))
    PROVE  \/ /\ ValidUntil = Starts[Len(rates) + 1]
              /\ GetOffset(ValidUntil) = Season(Len(rates) + 1)
           \/ ValidUntil >= now
           \/ faults > 0 /\ \A i \in DOMAIN Starts : Starts[i] # ValidUntil
<1>1. PICK n \in Nat : /\ n = Len(rates) /\ n \in 0 .. Len(Starts) - 1
                       /\ n + 1 \in DOMAIN Starts
  <2>1. Len(rates) \in 0 .. Len(Starts) - 1
    BY PublishedStored
  <2> QED
    BY <2>1, StartsType
<1>2. /\ now \in Nat /\ offsets \in Seq(Offset) /\ faults \in Nat
      /\ Faithful(offsets) /\ Complete(offsets, n)
  BY <1>1, UpdaterAssumption DEF TypeOK, Hours, Published, UpdaterAssumption
<1>3. PICK g \in Int : g = GetOffset(now)
  BY <1>2, OffsetsInt
<1>7. PICK s \in Nat, e \in Int, b \in Int :
           /\ s = Starts[n + 1] /\ e = Season(n + 1) /\ b = n * Block /\ s = b + e
  <2>1. /\ Starts[n + 1] = (n + 1 - 1) * Block + Season(n + 1)
        /\ Season(n + 1) \in Int /\ Starts[n + 1] \in Nat
    BY <1>1, StartsType
  <2>2. n + 1 - 1 = n
    BY <1>1
  <2>3. n * Block \in Int
    BY <1>1, Multiples
  <2> QED
    BY <2>1, <2>2, <2>3
<1>8. g - e \in -1 .. 1
  <2>1. PICK j \in DOMAIN Starts : g = Season(j)
    BY <1>2, <1>3, OffsetOfSeason
  <2> QED
    BY <1>1, <1>7, <2>1 DEF Seasonal
<1>9. ValidUntil = g + b
  BY <1>1, <1>3, <1>7 DEF ValidUntil
<1>10. PICK m \in Int : m = n + 1
  BY <1>1
<1>11. /\ m \in DOMAIN Starts /\ s = Starts[m] /\ e = Season(m) /\ s = b + e
  BY <1>1, <1>7, <1>10
<1>4. PICK v \in Int : v = ValidUntil /\ v - s \in -1 .. 1 /\ (v = s <=> g = e)
  <2>1. PICK v \in Int : v = g + b
    OBVIOUS
  <2> QED
    BY <1>8, <1>9, <1>11, <2>1
<1>5. CASE v = s
  <2>1. GetOffset(Starts[n + 1]) = Season(n + 1)
    BY <1>1, <1>2, OffsetAtStart
  <2> QED
    BY <1>1, <1>4, <1>5, <1>7, <2>1
<1>6. CASE v # s /\ v < now
  <2>1. \A i \in DOMAIN Starts : Starts[i] # v
    <3> SUFFICES ASSUME NEW i \in DOMAIN Starts, Starts[i] = v PROVE FALSE
      OBVIOUS
    <3>1. i \in Nat
      BY StartsType
    <3>2. CASE i < m
      <4>1. Starts[i] + 1 < Starts[m]
        BY <1>11, <3>2, StartsOrdered
      <4> QED
        BY <1>4, <1>11, <4>1
    <3>3. CASE m < i
      <4>1. Starts[m] + 1 < Starts[i]
        BY <1>11, <3>3, StartsOrdered
      <4> QED
        BY <1>4, <1>11, <4>1
    <3>4. CASE i = m
      BY <1>6, <1>11, <3>4
    <3> QED
      BY <1>10, <3>1, <3>2, <3>3, <3>4
  <2>2. faults # 0
    <3> SUFFICES ASSUME faults = 0 PROVE FALSE
      OBVIOUS
    <3>1. s <= now
      BY <1>2, <1>4, <1>6
    <3>3. Starts[n + 1] <= now /\ Within(offsets, n)
      BY <1>1, <1>7, <3>1
    <3>2. GetOffset(now) = Season(n + 1)
      BY <1>1, <1>2, <3>3, OffsetAfter
    <3> QED
      BY <1>3, <1>4, <1>6, <1>7, <3>2
  <2> QED
    BY <1>2, <1>4, <2>1, <2>2
<1> QED
  BY <1>2, <1>4, <1>5, <1>6

LEMMA Distribute ==
    ASSUME NEW b \in Nat, NEW m \in Int, NEW n \in Int
    PROVE  (m + n) * b = m * b + n * b /\ 1 * b = b
OBVIOUS

\* The contract takes what a plan pushes, however long it took.
LEMMA PlanTaken ==
    ASSUME Seasonal, TypeOK, Published, NEW p \in Updaters, Planned(p),
           pc[p] = "rates"
    PROVE  CanPush(plan[p].rates)
<1>1. /\ plan[p].offsets = <<>> /\ plan[p].rates # <<>>
      /\ Complete(Ahead(p), Reach(p)) /\ Reach(p) <= known
      /\ plan[p].till <= now /\ Starts[Reach(p)] < plan[p].till
  BY DEF Planned
<1>2. /\ now \in Nat /\ offsets \in Seq(Offset) /\ Faithful(offsets)
      /\ known \in Nat /\ known <= Len(Starts) - 1 /\ Len(Starts) \in Nat
  BY StartsType DEF TypeOK, Hours, Published
<1>3. plan[p].till \in Int /\ plan[p].rates \in Seq(1 .. known)
  BY DEF TypeOK, Plan
<1>4. PICK n \in Nat, c \in Nat \ {0}, k \in Nat :
           /\ n = Len(rates) /\ c = Len(plan[p].rates) /\ k = n + c /\ k = Reach(p)
           /\ n \in 0 .. Len(Starts) - 1
  <2>1. Len(rates) \in Nat /\ Len(rates) \in 0 .. Len(Starts) - 1
    BY PublishedStored
  <2>2. Len(plan[p].rates) \in Nat \ {0}
    BY <1>1, <1>3
  <2> QED
    BY <2>1, <2>2 DEF Reach
<1>5. k \in 1 .. Len(Starts) /\ n + 1 \in 1 .. Len(Starts)
  BY <1>1, <1>2, <1>4
<1>6. k \in DOMAIN Starts /\ n + 1 \in DOMAIN Starts
  BY <1>5, StartsType
<1>7. PICK g \in Int, e \in Int : /\ g = GetOffset(now) /\ e = Season(k)
                                  /\ g - e \in -1 .. 1
  <2>1. PICK j \in DOMAIN Starts : GetOffset(now) = Season(j)
    BY <1>2, OffsetOfSeason
  <2>2. Season(j) - Season(k) \in -1 .. 1 /\ Season(j) \in Int /\ Season(k) \in Int
    BY <1>6, StartsType DEF Seasonal
  <2> QED
    BY <2>1, <2>2
<1>8. PICK b \in Int, d \in Int, f \in Int :
           /\ b = n * Block /\ d = c * Block /\ b + d = f + Block
           /\ Starts[k] = f + e
           /\ c = 1 => d = Block
  <2>1. Starts[k] = (k - 1) * Block + Season(k)
    BY <1>6, StartsType
  <2>8. /\ k - 1 \in Int /\ k - 1 + 1 = k /\ n \in Int /\ c \in Int /\ k = n + c
    BY <1>4
  <2>2. PICK j \in Int : j = k - 1 /\ j + 1 = k
    BY <2>8
  <2>3. n * Block \in Int /\ c * Block \in Int /\ j * Block \in Int
    BY <2>2, <2>8, Multiples
  <2>4. (n + c) * Block = j * Block + Block
    BY <2>2, <2>8, Multiples
  <2>5. (n + c) * Block = n * Block + c * Block /\ 1 * Block = Block
    BY <2>8, Distribute, OracleAssumption DEF OracleAssumption
  <2>6. Starts[k] = j * Block + e
    BY <1>7, <2>1, <2>2
  <2>7. /\ n * Block + c * Block = j * Block + Block
        /\ c = 1 => c * Block = Block
    BY <2>4, <2>5
  <2> QED
    BY <2>3, <2>6, <2>7
<1>9. /\ b \in Int /\ d \in Int /\ f \in Int
      /\ Block \in Nat /\ Starts[k] = f + e /\ b + d = f + Block /\ (c = 1 => d = Block)
  BY <1>8, OracleAssumption DEF OracleAssumption
<1>10. f + e < now
  BY <1>1, <1>2, <1>3, <1>4, <1>9
<1>11. ValidUntil = g + b /\ Len(plan[p].rates) * Block = d
  BY <1>4, <1>7, <1>8 DEF ValidUntil
<1>12. CASE c = 1
  <2>1. k = n + 1 /\ b = f
    BY <1>4, <1>9, <1>12
  <2>2. g + b < now
    <3> SUFFICES ASSUME ~ (g + b < now) PROVE FALSE
      OBVIOUS
    <3>0. /\ now \in Int /\ f + e < now /\ ~ (g + f < now) /\ g - e \in -1 .. 1
          /\ Starts[n + 1] = f + e /\ f + e \in Int
      BY <1>2, <1>7, <1>9, <1>10, <2>1
    <3>1. g = e + 1 /\ now = Starts[n + 1] + 1
      BY <3>0
    <3>2. Complete(offsets, n)
      BY <1>4 DEF Published
    <3>3. ASSUME NEW i \in Changes PROVE ChangeFrom(i) <= now <=> i <= n
      <4>1. /\ i \in Rounds /\ i \in Nat /\ ChangeFrom(i) \in Int
            /\ Starts[i] + 1 < ChangeFrom(i) /\ i \in DOMAIN Starts
        BY ChangeInRate DEF Changes, Rounds
      <4>2. ChangeFrom(i) <= Starts[n + 1] <=> i <= n
        BY <1>4, TakenAtStart
      <4>3. ASSUME ~ (i <= n) PROVE Starts[n + 1] <= Starts[i]
        <5>1. n + 1 <= i
          BY <1>4, <4>1, <4>3
        <5> QED
          BY <1>6, <4>1, <5>1, StartsOrdered
      <4>4. Starts[n + 1] \in Nat /\ Starts[i] \in Nat
        BY <1>6, <4>1, StartsType
      <4> QED
        BY <3>1, <4>1, <4>2, <4>3, <4>4
    <3>4. /\ \A i \in Changes : i <= n => ChangeFrom(i) <= now
          /\ \A i \in Changes : ChangeFrom(i) <= now => i <= n
      BY <3>3
    <3>5. GetOffset(now) = Season(n + 1)
      BY <1>2, <1>4, <3>2, <3>4, OffsetAt
    <3>6. e = Season(n + 1) /\ g = Season(n + 1)
      BY <1>7, <2>1, <3>5
    <3> QED
      BY <1>7, <3>1, <3>6
  <2> QED
    BY <1>2, <1>4, <1>7, <1>9, <1>11, <1>12, <2>2 DEF CanPush, CanUpdate
<1>13. CASE c # 1
  <2>2. g <= e + 1 /\ now \in Nat
    BY <1>2, <1>7
  <2>1. g + b + d <= now + Block
    BY <1>9, <1>10, <2>2
  <2> QED
    BY <1>4, <1>11, <1>13, <2>1 DEF CanPush, CanBulkUpdate
<1> QED
  BY <1>12, <1>13

-----------------------------------------------------------------------------
(* Each step keeps what is published right.                                *)

\* What a step that pushes nothing leaves of a plan.
LEMMA PlanKept ==
    ASSUME TypeOK, TypeOK', NEW p \in Updaters, Planned(p) /\ Fetching(p),
           UNCHANGED contract, plan'[p] = plan[p], pc'[p] = pc[p],
           known <= known', now <= now', faults <= faults'
    PROVE  Planned(p)' /\ Fetching(p)'
<1>1. /\ known \in Nat /\ known' \in Nat /\ now \in Nat /\ now' \in Nat
      /\ faults \in Nat /\ faults' \in Nat /\ plan[p].till \in Int
      /\ Reach(p) \in Nat
  <2>1. /\ known \in Nat /\ known' \in Nat /\ now \in Nat /\ now' \in Nat
        /\ faults \in Nat /\ faults' \in Nat
    BY StartsType, UpdaterAssumption DEF TypeOK, Hours, UpdaterAssumption
  <2>2. /\ plan[p].till \in Int /\ plan[p].rates \in Seq(1 .. known)
        /\ rates \in Seq(1 .. known)
    BY DEF TypeOK, Plan
  <2> QED
    BY <2>1, <2>2 DEF Reach
<1>2. /\ UNCHANGED <<rates, offsets>>
      /\ Reach(p)' = Reach(p) /\ Ahead(p)' = Ahead(p)
      /\ LastOffsetFrom' = LastOffsetFrom
  BY DEF contract, Reach, Ahead, LastOffsetFrom
<1>3. faults' = 0 => faults = 0
  BY <1>1
<1>4. Faithful(Ahead(p))' <=> Faithful(Ahead(p))
  BY <1>2 DEF Faithful
<1>5. Complete(Ahead(p), Reach(p))' <=> Complete(Ahead(p), Reach(p))
  BY <1>2 DEF Complete
<1>6. /\ Within(Ahead(p), Reach(p))' <=> Within(Ahead(p), Reach(p))
      /\ Within(plan[p].offsets, Reach(p))' <=> Within(plan[p].offsets, Reach(p))
  BY <1>2 DEF Within
<1>7. Planned(p)'
  <2> SUFFICES ASSUME pc[p] \in {"fetching", "offsets", "rates"}
               PROVE  Planned(p)'
    BY DEF Planned
  <2>1. Reach(p)' <= known' /\ plan[p].till <= now'
    BY <1>1, <1>2 DEF Planned
  <2> QED
    BY <1>2, <1>3, <1>4, <1>5, <1>6, <2>1 DEF Planned
<1>8. Fetching(p)'
  <2> SUFFICES ASSUME pc[p] = "fetching" PROVE Fetching(p)'
    BY DEF Fetching
  <2>1. ASSUME OnTrack(p) PROVE OnTrack(p)'
    BY <1>2, <2>1 DEF OnTrack, Season
  <2>2. ASSUME Astray(p) PROVE Astray(p)'
    BY <1>1, <2>2 DEF Astray
  <2> QED
    BY <2>1, <2>2 DEF Fetching
<1> QED
  BY <1>7, <1>8

LEMMA PublishedKept ==
    ASSUME Published, UNCHANGED contract
    PROVE  Published'
<1>1. UNCHANGED <<rates, offsets>>
  BY DEF contract
<1> QED
  BY <1>1 DEF Published, Faithful, Complete

\* Nobody but p has a plan.
OnlyOne(p) == \A q \in Updaters \ {p} : pc[q] = "out"

LEMMA WorksAlone ==
    ASSUME Inv, NEW p \in Updaters, Inside(p)
    PROVE  OnlyOne(p)
BY DEF Inv, ClaimHeld, OnlyOne

\* It remains to look at p.
LEMMA OthersHaveNone ==
    ASSUME NEW p \in Updaters, OnlyOne(p)', (Planned(p) /\ Fetching(p))'
    PROVE  \A q \in Updaters : (Planned(q) /\ Fetching(q))'
<1> SUFFICES ASSUME NEW q \in Updaters \ {p} PROVE (Planned(q) /\ Fetching(q))'
  OBVIOUS
<1>1. pc'[q] = "out"
  BY DEF OnlyOne
<1> QED
  BY <1>1 DEF Planned, Fetching

\* A step that only ends the work of p.
LEMMA WorkEnds ==
    ASSUME Inv, RatesInv, NEW p \in Updaters, Inside(p),
           UNCHANGED contract, alarmed' = alarmed,
           pc' \in {[pc EXCEPT ![p] = "leaving"], [pc EXCEPT ![p] = "out"]},
           faults \in Nat, faults' \in Nat, faults <= faults',
           faults' = 0 => Within(offsets, Len(rates))
    PROVE  RatesInv'
<1>1. pc'[p] \in {"leaving", "out"} /\ OnlyOne(p)'
  BY WorksAlone DEF Inv, TypeOK, OnlyOne
<1>2. (Planned(p) /\ Fetching(p))'
  BY <1>1 DEF Planned, Fetching
<1>3. Aligned'
  BY <1>1, <1>2, OthersHaveNone, PublishedKept DEF RatesInv, Aligned
<1>4. Settled'
  <2>1. UNCHANGED <<rates, offsets>> /\ (faults' = 0 => faults = 0)
    BY DEF contract
  <2> QED
    BY <2>1 DEF RatesInv, Settled, Within
<1> QED
  BY <1>3, <1>4 DEF RatesInv

LEMMA TypesOf ==
    ASSUME Inv, NEW p \in Updaters
    PROVE  /\ TypeOK /\ now \in Nat /\ known \in Nat /\ faults \in Nat
           /\ rates \in Seq(1 .. known) /\ offsets \in Seq(Offset)
           /\ plan[p] \in Plan
           /\ plan[p].offsets \in Seq(Offset) /\ plan[p].rates \in Seq(1 .. known)
           /\ plan[p].at \in Int /\ plan[p].till \in Int /\ plan[p].last \in Int
           /\ Len(rates) \in Nat /\ Len(plan[p].rates) \in Nat
           /\ DOMAIN pc = Updaters /\ DOMAIN plan = Updaters
<1>1. /\ TypeOK /\ now \in Nat /\ known \in Nat /\ faults \in Nat
      /\ rates \in Seq(1 .. known) /\ offsets \in Seq(Offset)
      /\ DOMAIN pc = Updaters /\ DOMAIN plan = Updaters
  BY StartsType, UpdaterAssumption DEF Inv, TypeOK, Hours, UpdaterAssumption
<1>2. plan[p] \in Plan
  BY DEF Inv, TypeOK
<1>3. /\ plan[p].offsets \in Seq(Offset) /\ plan[p].rates \in Seq(1 .. known)
      /\ plan[p].at \in Int /\ plan[p].till \in Int /\ plan[p].last \in Int
  BY <1>2 DEF Plan
<1> QED
  BY <1>1, <1>2, <1>3

\* What the step of p leaves in order: its own plan and what is published.
LEMMA WorkGoesOn ==
    ASSUME Inv, RatesInv, NEW p \in Updaters, Inside(p), NEW where,
           pc' = [pc EXCEPT ![p] = where], where # "out", faults' = faults,
           alarmed' = alarmed,
           ~ alarmed => Published' /\ (Planned(p) /\ Fetching(p))',
           ~ alarmed /\ faults = 0 /\ where \notin {"offsets", "rates"}
              => Within(offsets, Len(rates))'
    PROVE  RatesInv'
<1>1. OnlyOne(p)' /\ pc'[p] = where
  BY WorksAlone, TypesOf DEF OnlyOne
<1>2. Aligned'
  BY <1>1, OthersHaveNone DEF RatesInv, Aligned
<1>3. Settled'
  BY <1>1 DEF RatesInv, Settled
<1> QED
  BY <1>2, <1>3 DEF RatesInv

LEMMA SettledWithin ==
    ASSUME Inv, RatesInv, NEW p \in Updaters, Inside(p),
           pc[p] \notin {"offsets", "rates"}, faults = 0
    PROVE  ~ alarmed /\ Within(offsets, Len(rates))
BY WorksAlone DEF RatesInv, Settled, OnlyOne

LEMMA ReadStep ==
    ASSUME Seasonal, Inv, Inv', RatesInv, NEW p \in Updaters, Read(p)
    PROVE  RatesInv'
<1>1. /\ pc[p] = "reading" /\ pc' = [pc EXCEPT ![p] = "fetching"]
      /\ plan' = [plan EXCEPT ![p] = NewPlan]
      /\ UNCHANGED <<now, rates, offsets, known, alarmed, faults>>
  BY DEF Read, contract
<1>2. pc'[p] = "fetching" /\ plan'[p] = NewPlan
  BY <1>1, TypesOf
<1>3. faults = 0 => Within(offsets, Len(rates))
  BY <1>1, SettledWithin
<1>4. /\ NewPlan.rates = <<>> /\ NewPlan.offsets = <<>> /\ NewPlan.at = ValidUntil
      /\ NewPlan.till = now /\ NewPlan.prior = GetOffset(ValidUntil)
      /\ NewPlan.last = LastOffsetFrom
  BY DEF NewPlan
<1>5. ASSUME ~ alarmed
      PROVE  Published' /\ (Planned(p) /\ Fetching(p))'
  <2>1. Published /\ Published'
    BY <1>1, <1>5, PublishedKept DEF RatesInv, Aligned, contract
  <2>2. Reach(p)' = Len(rates) /\ Ahead(p)' = offsets
    <3>1. /\ Len(NewPlan.rates) = 0 /\ Len(rates) \in Nat
          /\ offsets \o NewPlan.offsets = offsets
      BY <1>4, TypesOf
    <3> QED
      BY <1>1, <1>2, <3>1 DEF Reach, Ahead
  <2>3. Len(rates) <= known /\ now <= now
    BY <2>1, TypesOf, PublishedStored
  <2>4. /\ Faithful(Ahead(p))' /\ Complete(Ahead(p), Reach(p))'
        /\ (faults' = 0 => Within(Ahead(p), Reach(p))')
    BY <1>1, <1>3, <2>1, <2>2 DEF Published, Faithful, Complete, Within
  <2>5. Planned(p)'
    <3>1. /\ \A j \in DOMAIN plan'[p].rates : plan'[p].rates[j] = Len(rates') + j
          /\ Within(plan[p].offsets, Reach(p))'
      BY <1>2, <1>4 DEF Within
    <3> QED
      BY <1>1, <1>2, <1>4, <2>2, <2>3, <2>4, <3>1 DEF Planned
  <2>6. Fetching(p)'
    <3>1. \/ /\ ValidUntil = Starts[Len(rates) + 1]
             /\ GetOffset(ValidUntil) = Season(Len(rates) + 1)
          \/ ValidUntil >= now
          \/ faults > 0 /\ \A i \in DOMAIN Starts : Starts[i] # ValidUntil
      BY <1>3, <2>1, TypesOf, ReadPlan
    <3>2. LastOffsetFrom' = LastOffsetFrom
      BY <1>1 DEF LastOffsetFrom
    <3> QED
      BY <1>1, <1>2, <1>4, <2>2, <3>1, <3>2 DEF Fetching, OnTrack, Astray, Season
  <2> QED
    BY <2>1, <2>5, <2>6
<1>6. ~ alarmed /\ faults = 0 => Within(offsets, Len(rates))'
  BY <1>1, <1>3 DEF Within
<1> QED
  BY <1>1, <1>5, <1>6, WorkGoesOn

LEMMA AppendInside ==
    ASSUME NEW S, NEW a \in Seq(S), NEW b \in Seq(S), NEW x \in S
    PROVE  a \o Append(b, x) = Append(a \o b, x)
<1>1. /\ Append(b, x) = b \o <<x>> /\ Append(a \o b, x) = (a \o b) \o <<x>>
      /\ <<x>> \in Seq(S) /\ a \o b \in Seq(S)
  BY AppendIsConcat
<1> QED
  BY <1>1, ConcatAssociative

\* The rate that is fetched is the next one.
LEMMA FetchNext ==
    ASSUME Seasonal, Inv, Inv', Published, NEW p \in Updaters,
           Planned(p), OnTrack(p), pc[p] = "fetching",
           plan[p].at < plan[p].till, NEW i \in Stored(plan[p].at),
           plan' = [plan EXCEPT ![p] = WithRate(@, i)],
           UNCHANGED <<now, rates, offsets, known, pc, faults>>
    PROVE  (Planned(p) /\ Fetching(p))' /\ Starts[i] = plan[p].at
<1>1. /\ Faithful(Ahead(p)) /\ Complete(Ahead(p), Reach(p)) /\ Reach(p) <= known
      /\ plan[p].till <= now /\ (faults = 0 => Within(Ahead(p), Reach(p)))
      /\ \A j \in DOMAIN plan[p].rates : plan[p].rates[j] = Len(rates) + j
  BY DEF Planned
<1>2. /\ plan[p].at = Starts[Reach(p) + 1] /\ plan[p].prior = Season(Reach(p) + 1)
      /\ plan[p].last = LastOffsetFrom
  BY DEF OnTrack
<1>3. PICK n \in Nat, c \in Nat, k \in Nat :
           /\ n = Len(rates) /\ c = Len(plan[p].rates) /\ k = n + c
           /\ k = Reach(p) /\ k \in 0 .. known
  <2>1. Len(rates) \in Nat /\ Len(plan[p].rates) \in Nat /\ known \in Nat
    BY TypesOf
  <2> QED
    BY <1>1, <2>1 DEF Reach
<1>4. i = k + 1 /\ i \in Rounds /\ i <= known
  <2>1. i \in Stored(Starts[k + 1])
    BY <1>2, <1>3
  <2> QED
    BY <1>3, <2>1, TypesOf, StoredNext
<1>5. plan[p].at = Starts[i] /\ plan[p].prior = Season(i)
  BY <1>2, <1>3, <1>4
<1> DEFINE pushes == i \in Changes /\ ChangeFrom(i) > plan[p].last
<1>6. PICK new \in Plan :
           /\ new = plan'[p]
           /\ new.at = Starts[i + 1] /\ new.prior = Season(i + 1)
           /\ new.offsets = IF pushes THEN Append(plan[p].offsets, Change(i))
                                      ELSE plan[p].offsets
           /\ new.rates = Append(plan[p].rates, i)
           /\ new.till = plan[p].till /\ new.last = plan[p].last
  <2>1. plan[p] \in Plan /\ plan'[p] = WithRate(plan[p], i)
    BY TypesOf
  <2>2. WithRate(plan[p], i) \in Plan
    <3>1. known \in 0 .. Len(Starts) - 1 /\ i \in 1 .. known
      BY <1>4 DEF Inv, TypeOK, Rounds
    <3> QED
      BY <2>1, <3>1, WithRateType
  <2>3. WithRate(plan[p], i)
          = [plan[p] EXCEPT !.at = Starts[i + 1],
                            !.prior = Season(i + 1),
                            !.offsets = IF i \in Changes /\ ChangeFrom(i) > plan[p].last
                                        THEN Append(@, Change(i)) ELSE @,
                            !.rates = Append(@, i)]
    BY <1>4, <1>5, <2>1, WithRateNext
  <2> QED
    BY <2>1, <2>2, <2>3 DEF Plan
<1> HIDE DEF pushes
<1>7. PICK s \in Seq(Offset), es \in Seq(Offset) :
           /\ es = plan[p].offsets /\ s = offsets \o es /\ s = Ahead(p)
           /\ offsets \in Seq(Offset)
  <2>1. plan[p].offsets \in Seq(Offset) /\ offsets \in Seq(Offset)
    BY TypesOf
  <2>2. offsets \o plan[p].offsets \in Seq(Offset)
    BY <2>1
  <2> QED
    BY <2>1, <2>2 DEF Ahead
<1>8. PICK r \in Seq(Offset) :
           /\ r = Ahead(p)'
           /\ r = IF pushes THEN Append(s, Change(i)) ELSE s
  <2>1. Ahead(p)' = offsets \o new.offsets
    BY <1>6 DEF Ahead
  <2>2. CASE pushes
    <3>1. Change(i) \in Offset
      BY <2>2, ChangeOffset DEF pushes
    <3>2. offsets \o Append(es, Change(i)) = Append(s, Change(i))
      <4>1. offsets \o Append(es, Change(i)) = Append(offsets \o es, Change(i))
        <5>1. offsets \in Seq(Offset) /\ es \in Seq(Offset)
          BY <1>7
        <5>2. PICK a \in Seq(Offset), x \in Offset : a = offsets /\ x = Change(i)
          BY <3>1, <5>1
        <5>3. a \o Append(es, x) = Append(a \o es, x)
          BY AppendInside
        <5> QED
          BY <5>2, <5>3
      <4> QED
        BY <1>7, <4>1
    <3>3. Append(s, Change(i)) \in Seq(Offset)
      BY <3>1
    <3> QED
      BY <1>6, <1>7, <2>1, <2>2, <3>2, <3>3
  <2>3. CASE ~ pushes
    BY <1>6, <1>7, <2>1, <2>3
  <2> QED
    BY <2>2, <2>3
<1>9. Faithful(s) /\ Complete(s, i - 1) /\ (faults = 0 => Within(s, i - 1))
      /\ Within(es, i - 1)
  <2>1. i - 1 = Reach(p)
    BY <1>3, <1>4
  <2>2. Faithful(s) /\ Complete(s, i - 1) /\ (faults = 0 => Within(s, i - 1))
    BY <1>1, <1>7, <2>1
  <2>3. Within(plan[p].offsets, Reach(p))
    BY DEF Planned
  <2> QED
    BY <1>7, <2>1, <2>2, <2>3
<1>10. PICK m \in Nat : /\ m = Len(offsets) /\ DOMAIN offsets = 1 .. m
                        /\ DOMAIN s = 1 .. m + Len(es) /\ DOMAIN es = 1 .. Len(es)
                        /\ \A x \in 1 .. m : s[x] = offsets[x]
                        /\ \A x \in 1 .. Len(es) : s[m + x] = es[x]
                        /\ Len(es) \in Nat
  <2>1. PICK a \in Seq(Offset) : a = offsets
    BY <1>7
  <2>2. s = a \o es
    BY <1>7, <2>1
  <2>3. PICK m \in Nat, l \in Nat : m = Len(a) /\ l = Len(es)
    OBVIOUS
  <2>4. /\ DOMAIN a = 1 .. m /\ DOMAIN es = 1 .. l /\ Len(s) = m + l
        /\ DOMAIN s = 1 .. Len(s)
    BY <2>2, <2>3
  <2>5. \A x \in 1 .. m : s[x] = a[x]
    BY <2>2, <2>3
  <2>6. \A x \in 1 .. l : s[m + x] = es[x]
    BY <2>2, <2>3
  <2> QED
    BY <2>1, <2>3, <2>4, <2>5, <2>6
<1>11. ASSUME NEW j \in Changes
       PROVE  /\ ChangeFrom(j) \in Int /\ Change(j).from = ChangeFrom(j)
              /\ j \in Nat /\ j \in Rounds /\ 0 < ChangeFrom(j)
              /\ j <= i - 1 => ChangeFrom(j) < ChangeFrom(i)
  <2>1. /\ ChangeFrom(j) \in Int /\ Change(j).from = ChangeFrom(j)
        /\ j \in Nat /\ j \in Rounds
        /\ Starts[j] + 1 < ChangeFrom(j) /\ Starts[j] \in Nat
    BY ChangeInRate, StartsType DEF Changes, Change, Rounds
  <2>2. j <= i - 1 => ChangeFrom(j) < ChangeFrom(i)
    <3> SUFFICES ASSUME j <= i - 1 PROVE ChangeFrom(j) < ChangeFrom(i)
      OBVIOUS
    <3>1. j < i
      BY <1>4, <2>1 DEF Rounds
    <3> QED
      BY <1>4, <2>1, <3>1, ChangesApart
  <2> QED
    BY <2>1, <2>2
<1>12. /\ plan[p].last = IF m = 0 THEN 0 ELSE s[m].from
       /\ m # 0 => m \in DOMAIN s
  BY <1>2, <1>7, <1>10 DEF LastOffsetFrom
<1>13. Faithful(r) /\ Complete(r, i)
  <2>1. CASE pushes
    <3>1. ASSUME NEW x \in DOMAIN s PROVE s[x].from < ChangeFrom(i)
      <4>1. i \in Changes /\ ChangeFrom(i) > plan[p].last
        BY <2>1 DEF pushes
      <4>2. PICK j \in Changes : s[x] = Change(j)
        BY <1>9 DEF Faithful
      <4>3. CASE x <= m
        <5>1. m # 0 /\ plan[p].last = s[m].from /\ m \in DOMAIN s
          BY <1>10, <1>12, <4>3
        <5>2. PICK l \in Changes : s[m] = Change(l)
          BY <1>9, <5>1 DEF Faithful
        <5>3. x = m \/ s[x].from < s[m].from
          <6>1. x = m \/ x < m
            BY <1>10, <4>3
          <6> QED
            BY <1>9, <5>1, <6>1 DEF Faithful
        <5>4. /\ s[x].from \in Int /\ s[m].from \in Int /\ ChangeFrom(i) \in Int
          BY <1>11, <4>1, <4>2, <5>2
        <5> QED
          BY <4>1, <5>1, <5>3, <5>4
      <4>4. CASE ~ (x <= m)
        <5>1. PICK y \in 1 .. Len(es) : x = m + y
          <6>1. x - m \in 1 .. Len(es) /\ x = m + (x - m)
            BY <1>10, <4>4
          <6> QED
            BY <6>1
        <5>2. es[y] = Change(j) /\ y \in DOMAIN es
          BY <1>10, <4>2, <5>1
        <5>3. j <= i - 1
          BY <1>9, <5>2 DEF Within
        <5> QED
          BY <1>11, <4>2, <5>3
      <4> QED
        BY <4>3, <4>4
    <3>2. i \in Changes
      BY <2>1 DEF pushes
    <3> QED
      BY <1>8, <1>9, <2>1, <3>1, <3>2, FaithfulAppend
  <2>2. CASE ~ pushes
    <3>1. ASSUME i \in Changes PROVE \E x \in DOMAIN s : s[x] = Change(i)
      <4>1. ~ (ChangeFrom(i) > plan[p].last)
        BY <2>2, <3>1 DEF pushes
      <4>2. m # 0 /\ m \in DOMAIN s /\ plan[p].last = s[m].from
        BY <1>11, <1>12, <3>1, <4>1
      <4>3. PICK l \in Changes : s[m] = Change(l)
        BY <1>9, <4>2 DEF Faithful
      <4>4. ChangeFrom(i) <= s[m].from
        BY <1>11, <3>1, <4>1, <4>2, <4>3
      <4>5. PICK y \in 1 .. m : s[y] = Change(i)
        BY <1>9, <3>1, <4>2, <4>4 DEF Faithful
      <4>6. y \in DOMAIN s
        BY <1>10
      <4> QED
        BY <4>5, <4>6
    <3>2. Complete(s, i)
      <4> SUFFICES ASSUME NEW j \in Changes, j <= i
                   PROVE  \E x \in DOMAIN s : s[x] = Change(j)
        BY DEF Complete
      <4>1. CASE j = i
        BY <3>1, <4>1
      <4>2. CASE j # i
        <5>1. j <= i - 1
          BY <1>4, <1>11, <4>2 DEF Rounds
        <5> QED
          BY <1>9, <5>1 DEF Complete
      <4> QED
        BY <4>1, <4>2
    <3> QED
      BY <1>8, <1>9, <2>2, <3>2
  <2> QED
    BY <2>1, <2>2
<1>14. Within(new.offsets, i) /\ (faults = 0 => Within(r, i))
  <2>1. ASSUME NEW os \in Seq(Offset), Within(os, i - 1)
        PROVE  Within(os, i) /\ (pushes => Within(Append(os, Change(i)), i))
    <3>1. Within(os, i)
      BY <1>4, <1>11, <2>1 DEF Within, Rounds
    <3>2. ASSUME pushes PROVE Within(Append(os, Change(i)), i)
      <4>1. Change(i) \in Offset /\ i \in Changes
        BY <3>2, ChangeOffset DEF pushes
      <4>2. PICK e \in Seq(Offset) :
                 /\ e = Append(os, Change(i)) /\ DOMAIN e = DOMAIN os \cup {Len(os) + 1}
                 /\ e[Len(os) + 1] = Change(i)
                 /\ \A x \in DOMAIN os : e[x] = os[x]
        <5>1. PICK e \in Seq(Offset) : e = Append(os, Change(i))
          <6>1. Append(os, Change(i)) \in Seq(Offset)
            BY <4>1
          <6> QED
            BY <6>1
        <5>2. DOMAIN e = 1 .. Len(os) + 1 /\ DOMAIN os = 1 .. Len(os) /\ Len(os) \in Nat
          BY <4>1, <5>1
        <5>3. e[Len(os) + 1] = Change(i) /\ \A x \in 1 .. Len(os) : e[x] = os[x]
          BY <4>1, <5>1
        <5>4. DOMAIN e = DOMAIN os \cup {Len(os) + 1}
          BY <5>2
        <5>5. \A x \in DOMAIN os : e[x] = os[x]
          BY <5>2, <5>3
        <5> QED
          BY <5>1, <5>3, <5>4, <5>5
      <4>3. ASSUME NEW x \in DOMAIN e, NEW j \in Changes, e[x] = Change(j)
            PROVE  j <= i
        <5>1. CASE x \in DOMAIN os
          BY <3>1, <4>2, <4>3, <5>1 DEF Within
        <5>2. CASE x = Len(os) + 1
          <6>1. Change(j).from = Change(i).from
            BY <4>2, <4>3, <5>2
          <6>2. ~ (i < j)
            <7> SUFFICES ASSUME i < j PROVE FALSE
              OBVIOUS
            <7>1. ChangeFrom(i) < ChangeFrom(j)
              BY <1>4, <1>11, ChangesApart
            <7> QED
              BY <1>11, <4>1, <6>1, <7>1
          <6> QED
            BY <1>4, <1>11, <6>2 DEF Rounds
        <5> QED
          BY <4>2, <5>1, <5>2
      <4> QED
        BY <4>2, <4>3 DEF Within
    <3> QED
      BY <3>1, <3>2
  <2> QED
    BY <1>6, <1>7, <1>8, <1>9, <2>1
<1>15. /\ \A j \in DOMAIN new.rates : new.rates[j] = n + j
       /\ Len(new.rates) = c + 1 /\ new.rates # <<>>
  <2>1. PICK rs \in Seq(Int) : rs = plan[p].rates
    <3>1. plan[p].rates \in Seq(1 .. known) /\ 1 .. known \subseteq Int
      BY TypesOf
    <3>2. plan[p].rates \in Seq(Int)
      BY <3>1, SeqMonotonic
    <3> QED
      BY <3>2
  <2>2. /\ new.rates = Append(rs, i) /\ c = Len(rs) /\ i = n + (c + 1) /\ i \in Int
        /\ \A j \in DOMAIN rs : rs[j] = n + j
    <3>1. new.rates = Append(rs, i) /\ c = Len(rs)
      BY <1>3, <1>6, <2>1
    <3>2. i = n + (c + 1) /\ i \in Int
      BY <1>3, <1>4
    <3>3. \A j \in DOMAIN rs : rs[j] = n + j
      BY <1>1, <1>3, <2>1
    <3> QED
      BY <3>1, <3>2, <3>3
  <2>3. new.rates \in Seq(Int) /\ Len(new.rates) = c + 1 /\ DOMAIN new.rates = 1 .. c + 1
    BY <2>2
  <2>4. ASSUME NEW j \in 1 .. c + 1 PROVE new.rates[j] = n + j
    <3>1. CASE j = c + 1
      BY <2>2, <3>1
    <3>2. CASE j # c + 1
      <4>1. j \in DOMAIN rs /\ j \in 1 .. Len(rs)
        BY <2>2, <3>2
      <4>2. Append(rs, i)[j] = rs[j]
        BY <2>2, <4>1
      <4> QED
        BY <2>2, <4>1, <4>2
    <3> QED
      BY <3>1, <3>2
  <2>5. new.rates # <<>>
    BY <1>3, <2>3
  <2> QED
    BY <2>3, <2>4, <2>5
<1>16. Reach(p)' = i /\ i + 1 \in DOMAIN Starts
  <2>1. Reach(p)' = Len(rates) + Len(new.rates)
    BY <1>6 DEF Reach
  <2>2. i \in Int /\ i + 1 \in DOMAIN Starts
    BY <1>4, ChangeInRate DEF Rounds
  <2>3. Len(rates) + Len(new.rates) = i
    BY <1>3, <1>4, <1>15, <2>2
  <2> QED
    BY <2>1, <2>2, <2>3
<1>17. plan'[p] = new /\ pc'[p] = "fetching"
  BY <1>6
<1>18. Faithful(Ahead(p))' /\ Complete(Ahead(p), Reach(p))'
       /\ Within(plan[p].offsets, Reach(p))'
       /\ (faults' = 0 => Within(Ahead(p), Reach(p))')
  <2>1. Ahead(p)' = r /\ Reach(p)' = i /\ plan'[p].offsets = new.offsets
    BY <1>8, <1>16, <1>17
  <2>2. Faithful(Ahead(p))' /\ Complete(Ahead(p), Reach(p))'
    BY <1>13, <2>1 DEF Faithful, Complete
  <2>3. Within(plan[p].offsets, Reach(p))' /\ (faults' = 0 => Within(Ahead(p), Reach(p))')
    BY <1>14, <2>1 DEF Within
  <2> QED
    BY <2>2, <2>3
<1>19. Planned(p)'
  <2>1. \A j \in DOMAIN plan'[p].rates : plan'[p].rates[j] = Len(rates') + j
    BY <1>3, <1>15, <1>17
  <2>2. /\ Reach(p)' <= known' /\ plan'[p].till <= now'
        /\ Starts[Reach(p)'] < plan'[p].till
    BY <1>1, <1>4, <1>5, <1>6, <1>16, <1>17
  <2> QED
    BY <1>17, <1>18, <2>1, <2>2 DEF Planned
<1>20. OnTrack(p)'
  <2>1. LastOffsetFrom' = LastOffsetFrom
    BY DEF LastOffsetFrom
  <2> QED
    BY <1>2, <1>6, <1>16, <1>17, <2>1 DEF OnTrack, Season
<1> QED
  BY <1>5, <1>19, <1>20 DEF Fetching


\* What an updater has logged takes a fault; nothing is said of what follows.
LEMMA AlarmKept ==
    ASSUME Inv, alarmed', faults \in Nat, faults > 0, faults' = faults
    PROVE  RatesInv'
BY DEF RatesInv, Aligned, Settled

LEMMA AlarmTakesFault ==
    ASSUME Inv, RatesInv, alarmed
    PROVE  faults \in Nat /\ faults > 0
BY UpdaterAssumption DEF RatesInv, Settled, Inv, TypeOK, UpdaterAssumption

LEMMA FetchStep ==
    ASSUME Seasonal, Inv, Inv', RatesInv, NEW p \in Updaters, Fetch(p)
    PROVE  RatesInv'
<1>1. PICK i \in Stored(plan[p].at) :
           /\ plan' = [plan EXCEPT ![p] = WithRate(@, i)]
           /\ alarmed' = (alarmed \/ Starts[i] # plan[p].at)
  BY DEF Fetch
<1>2. /\ pc[p] = "fetching" /\ plan[p].at < plan[p].till
      /\ UNCHANGED <<now, rates, offsets, known, pc, faults>>
  BY DEF Fetch, contract
<1>3. CASE alarmed
  <2>1. alarmed' /\ faults' = faults /\ faults \in Nat /\ faults > 0
    BY <1>1, <1>2, <1>3, AlarmTakesFault
  <2> QED
    BY <2>1, AlarmKept
<1>4. CASE ~ alarmed /\ OnTrack(p)
  <2>1. Published /\ Planned(p)
    BY <1>4 DEF RatesInv, Aligned
  <2>2. (Planned(p) /\ Fetching(p))' /\ Starts[i] = plan[p].at
    BY <1>1, <1>2, <1>4, <2>1, FetchNext
  <2>3. alarmed' = alarmed
    BY <1>1, <1>4, <2>2 DEF Inv, TypeOK
  <2>4. Published'
    BY <1>2, <2>1, PublishedKept DEF contract
  <2>5. faults = 0 => Within(offsets, Len(rates))
    BY <1>2, SettledWithin
  <2>6. faults = 0 => Within(offsets, Len(rates))'
    BY <1>2, <2>5 DEF Within
  <2>7. pc' = [pc EXCEPT ![p] = "fetching"]
    BY <1>2, TypesOf DEF Inv, TypeOK
  <2> QED
    BY <1>2, <2>2, <2>3, <2>4, <2>6, <2>7, WorkGoesOn
<1>5. CASE ~ alarmed /\ ~ OnTrack(p)
  <2>1. Astray(p)
    BY <1>2, <1>5 DEF RatesInv, Aligned, Fetching
  <2>2. ~ (plan[p].at >= plan[p].till)
    BY <1>2, TypesOf
  <2>3. faults > 0 /\ \A j \in DOMAIN Starts : Starts[j] # plan[p].at
    BY <2>1, <2>2 DEF Astray
  <2>4. i \in DOMAIN Starts
    <3>1. i \in 1 .. known
      BY DEF Stored
    <3>2. known \in 0 .. Len(Starts) - 1
      BY DEF Inv, TypeOK
    <3> QED
      BY <3>1, <3>2, StartsType
  <2>5. alarmed' /\ faults' = faults /\ faults \in Nat
    BY <1>1, <1>2, <2>3, <2>4, TypesOf
  <2> QED
    BY <2>3, <2>5, AlarmKept
<1> QED
  BY <1>3, <1>4, <1>5

\* Fetching ends: the plan is dropped, or it is pushed as it is.
LEMMA FetchedStep ==
    ASSUME Seasonal, Inv, Inv', RatesInv, NEW p \in Updaters, Fetched(p)
    PROVE  RatesInv'
<1>1. /\ pc[p] = "fetching" /\ alarmed' = alarmed /\ faults' = faults
      /\ UNCHANGED <<now, rates, offsets, known>> /\ UNCHANGED contract
      /\ faults \in Nat
  BY TypesOf DEF Fetched, contract
<1>2. faults = 0 => Within(offsets, Len(rates))
  BY <1>1, SettledWithin
<1>3. CASE TooMany(plan[p])
  <2>1. pc' = [pc EXCEPT ![p] = "leaving"]
    BY <1>3 DEF Fetched
  <2>2. faults' \in Nat /\ faults <= faults' /\ (faults' = 0 => Within(offsets, Len(rates)))
    BY <1>1, <1>2
  <2> QED
    BY <1>1, <2>1, <2>2, WorkEnds
<1>4. CASE ~ TooMany(plan[p])
  <2>1. /\ pc' = [pc EXCEPT ![p] = "offsets"]
        /\ pc'[p] = "offsets" /\ plan'[p] = plan[p]
    BY <1>4, TypesOf DEF Fetched
  <2>2. ASSUME ~ alarmed PROVE Published' /\ (Planned(p) /\ Fetching(p))'
    <3>1. Published /\ Planned(p)
      BY <2>2 DEF RatesInv, Aligned
    <3>2. Published'
      BY <1>1, <3>1, PublishedKept
    <3>3. Reach(p)' = Reach(p) /\ Ahead(p)' = Ahead(p)
      BY <1>1, <2>1 DEF Reach, Ahead
    <3>4. /\ Faithful(Ahead(p))' <=> Faithful(Ahead(p))
          /\ Complete(Ahead(p), Reach(p))' <=> Complete(Ahead(p), Reach(p))
          /\ Within(Ahead(p), Reach(p))' <=> Within(Ahead(p), Reach(p))
          /\ Within(plan[p].offsets, Reach(p))' <=> Within(plan[p].offsets, Reach(p))
      BY <2>1, <3>3 DEF Faithful, Complete, Within
    <3>5. Planned(p)'
      BY <1>1, <2>1, <3>1, <3>3, <3>4 DEF Planned
    <3>6. Fetching(p)'
      BY <2>1 DEF Fetching
    <3> QED
      BY <3>2, <3>5, <3>6
  <2> QED
    BY <1>1, <2>1, <2>2, WorkGoesOn
<1> QED
  BY <1>3, <1>4

LEMMA HeadInside ==
    ASSUME NEW S, NEW a \in Seq(S), NEW b \in Seq(S), b # <<>>
    PROVE  Append(a, Head(b)) \o Tail(b) = a \o b
<1>1. /\ Head(b) \in S /\ Tail(b) \in Seq(S) /\ <<Head(b)>> \in Seq(S)
      /\ Append(a, Head(b)) = a \o <<Head(b)>>
  BY HeadTailProperties, AppendIsConcat
<1>2. <<Head(b)>> \o Tail(b) = b
  OBVIOUS
<1> QED
  BY <1>1, <1>2, ConcatAssociative

\* An offset of the plan is pushed: it is now of the contract.
LEMMA PushOffsetStep ==
    ASSUME Seasonal, Inv, Inv', RatesInv, NEW p \in Updaters, PushOffset(p)
    PROVE  RatesInv'
<1>1. /\ pc[p] = "offsets" /\ plan[p].offsets # <<>>
      /\ offsets' = Append(offsets, Head(plan[p].offsets))
      /\ plan' = [plan EXCEPT ![p].offsets = Tail(@)]
      /\ UNCHANGED <<now, rates, known, pc, alarmed, faults>>
  BY DEF PushOffset, UpdateOffset
<1>2. PICK a \in Seq(Offset), b \in Seq(Offset) :
           a = offsets /\ b = plan[p].offsets /\ b # <<>>
  BY <1>1, TypesOf
<1>3. PICK d \in Seq(Offset), e \in Seq(Offset), s \in Seq(Offset) :
           /\ d = Append(a, Head(b)) /\ e = Tail(b) /\ s = a \o b /\ d \o e = s
  <2>1. Head(b) \in Offset /\ Tail(b) \in Seq(Offset)
    BY <1>2, HeadTailProperties
  <2>2. Append(a, Head(b)) \in Seq(Offset) /\ a \o b \in Seq(Offset)
    BY <2>1
  <2>3. Append(a, Head(b)) \o Tail(b) = a \o b
    BY <1>2, HeadInside
  <2> QED
    BY <2>1, <2>2, <2>3
<1>4. /\ offsets' = d /\ pc'[p] = "offsets"
      /\ pc' = [pc EXCEPT ![p] = "offsets"]
      /\ plan'[p] = [plan[p] EXCEPT !.offsets = e]
  BY <1>1, <1>2, <1>3, TypesOf DEF Inv, TypeOK
<1>5. /\ plan'[p].offsets = e /\ plan'[p].rates = plan[p].rates
      /\ plan'[p].till = plan[p].till
  BY <1>4, TypesOf DEF Plan
<1>6. /\ \A x \in DOMAIN a : x \in DOMAIN d /\ d[x] = a[x]
      /\ Len(d) <= Len(s) /\ \A x \in DOMAIN d : d[x] = s[x]
      /\ \A x \in DOMAIN e : \E y \in DOMAIN b : e[x] = b[y]
  <2>1. \A x \in DOMAIN a : x \in DOMAIN d /\ d[x] = a[x]
    BY <1>2, <1>3, HeadTailProperties
  <2>2. Len(d) <= Len(s) /\ \A x \in DOMAIN d : d[x] = s[x]
    BY <1>3
  <2>3. ASSUME NEW x \in DOMAIN e PROVE \E y \in DOMAIN b : e[x] = b[y]
    <3>1. x + 1 \in DOMAIN b /\ e[x] = b[x + 1]
      <4>1. e = Tail(b) /\ b # <<>>
        BY <1>2, <1>3
      <4>2. /\ Len(b) \in Nat /\ DOMAIN b = 1 .. Len(b)
            /\ DOMAIN e = 1 .. Len(b) - 1
        BY <4>1
      <4>3. x \in 1 .. Len(b) - 1
        BY <4>2
      <4> QED
        BY <4>1, <4>2, <4>3
    <3> QED
      BY <3>1
  <2> QED
    BY <2>1, <2>2, <2>3
<1>7. ASSUME ~ alarmed PROVE Published' /\ (Planned(p) /\ Fetching(p))'
  <2>1. Published /\ Planned(p)
    BY <1>7 DEF RatesInv, Aligned
  <2>2. s = Ahead(p) /\ s = Ahead(p)' /\ Reach(p)' = Reach(p)
    BY <1>1, <1>2, <1>3, <1>4, <1>5 DEF Ahead, Reach
  <2>3. Faithful(s)
    BY <1>1, <2>1, <2>2 DEF Planned
  <2>4. Faithful(d)
    BY <1>6, <2>3, FaithfulPrefix
  <2>5. Complete(d, Len(rates))
    BY <1>2, <1>6, <2>1 DEF Published, Complete
  <2>6. Published'
    <3>1. Faithful(offsets)'
      BY <1>4, <2>4 DEF Faithful
    <3>2. Complete(offsets, Len(rates))'
      BY <1>1, <1>4, <2>5 DEF Complete
    <3>3. \A j \in DOMAIN rates' : rates'[j] = j
      BY <1>1, <2>1 DEF Published
    <3> QED
      BY <3>1, <3>2, <3>3 DEF Published
  <2>7. Within(e, Reach(p))
    <3>1. Within(b, Reach(p))
      BY <1>1, <1>2, <2>1 DEF Planned
    <3> QED
      BY <1>6, <3>1 DEF Within
  <2>8. /\ Faithful(Ahead(p))' /\ Complete(Ahead(p), Reach(p))'
        /\ Within(plan[p].offsets, Reach(p))'
        /\ (faults' = 0 => Within(Ahead(p), Reach(p))')
    <3>1. /\ Complete(s, Reach(p)) /\ (faults = 0 => Within(s, Reach(p)))
      BY <1>1, <2>1, <2>2 DEF Planned
    <3>2. Faithful(Ahead(p))'
      BY <2>2, <2>3 DEF Faithful
    <3>3. Complete(Ahead(p), Reach(p))'
      BY <2>2, <3>1 DEF Complete
    <3>4. Within(plan[p].offsets, Reach(p))'
      BY <1>5, <2>2, <2>7 DEF Within
    <3>5. faults' = 0 => Within(Ahead(p), Reach(p))'
      BY <1>1, <2>2, <3>1 DEF Within
    <3> QED
      BY <3>2, <3>3, <3>4, <3>5
  <2>9. Planned(p)'
    <3>1. /\ \A j \in DOMAIN plan'[p].rates : plan'[p].rates[j] = Len(rates') + j
          /\ Reach(p)' <= known' /\ plan'[p].till <= now'
          /\ plan'[p].rates # <<>> => Starts[Reach(p)'] < plan'[p].till
      BY <1>1, <1>5, <2>1, <2>2 DEF Planned
    <3> QED
      BY <1>4, <2>8, <3>1 DEF Planned
  <2>10. Fetching(p)'
    BY <1>4 DEF Fetching
  <2> QED
    BY <2>6, <2>9, <2>10
<1> QED
  BY <1>1, <1>4, <1>7, WorkGoesOn

\* All offsets are pushed: the rates follow, if there are any.
LEMMA OffsetsPushedStep ==
    ASSUME Seasonal, Inv, Inv', RatesInv, NEW p \in Updaters, OffsetsPushed(p)
    PROVE  RatesInv'
<1>1. /\ pc[p] = "offsets" /\ plan[p].offsets = <<>>
      /\ alarmed' = alarmed /\ faults' = faults
      /\ UNCHANGED <<now, rates, offsets, known>> /\ UNCHANGED contract
      /\ faults \in Nat
  BY TypesOf DEF OffsetsPushed, contract
<1>2. Ahead(p) = offsets
  <2>1. PICK s \in Seq(Offset) : s = offsets
    BY TypesOf
  <2>2. s \o <<>> = s
    OBVIOUS
  <2> QED
    BY <1>1, <2>1, <2>2 DEF Ahead
<1>3. CASE plan[p].rates = <<>>
  <2>1. pc' = [pc EXCEPT ![p] = "leaving"]
    BY <1>3 DEF OffsetsPushed
  <2>2. ASSUME faults = 0 PROVE Within(offsets, Len(rates))
    <3>1. Planned(p)
      BY <2>2 DEF RatesInv, Aligned, Settled
    <3>2. Within(Ahead(p), Reach(p))
      BY <1>1, <2>2, <3>1 DEF Planned
    <3>3. Reach(p) = Len(rates)
      BY <1>3, TypesOf DEF Reach
    <3> QED
      BY <1>2, <3>2, <3>3
  <2>3. faults' \in Nat /\ faults <= faults' /\ (faults' = 0 => Within(offsets, Len(rates)))
    BY <1>1, <2>2
  <2> QED
    BY <1>1, <2>1, <2>3, WorkEnds
<1>4. CASE plan[p].rates # <<>>
  <2>1. /\ pc' = [pc EXCEPT ![p] = "rates"]
        /\ pc'[p] = "rates" /\ plan'[p] = plan[p]
    BY <1>4, TypesOf DEF OffsetsPushed
  <2>2. ASSUME ~ alarmed PROVE Published' /\ (Planned(p) /\ Fetching(p))'
    <3>1. Published /\ Planned(p)
      BY <2>2 DEF RatesInv, Aligned
    <3>2. Published'
      BY <1>1, <3>1, PublishedKept
    <3>3. Reach(p)' = Reach(p) /\ Ahead(p)' = Ahead(p)
      BY <1>1, <2>1 DEF Reach, Ahead
    <3>4. /\ Faithful(Ahead(p))' <=> Faithful(Ahead(p))
          /\ Complete(Ahead(p), Reach(p))' <=> Complete(Ahead(p), Reach(p))
          /\ Within(Ahead(p), Reach(p))' <=> Within(Ahead(p), Reach(p))
          /\ Within(plan[p].offsets, Reach(p))' <=> Within(plan[p].offsets, Reach(p))
      BY <2>1, <3>3 DEF Faithful, Complete, Within
    <3>5. Planned(p)'
      BY <1>1, <1>4, <2>1, <3>1, <3>3, <3>4 DEF Planned
    <3>6. Fetching(p)'
      BY <2>1 DEF Fetching
    <3> QED
      BY <3>2, <3>5, <3>6
  <2> QED
    BY <1>1, <2>1, <2>2, WorkGoesOn
<1> QED
  BY <1>3, <1>4

\* The rates are pushed: their offsets are there already.
LEMMA PushRatesStep ==
    ASSUME Seasonal, Inv, Inv', RatesInv, NEW p \in Updaters, PushRates(p)
    PROVE  RatesInv'
<1>1. /\ pc[p] = "rates" /\ rates' = rates \o plan[p].rates
      /\ pc' = [pc EXCEPT ![p] = "leaving"] /\ pc'[p] = "leaving"
      /\ UNCHANGED <<now, offsets, known, alarmed, faults>>
  BY TypesOf DEF PushRates
<1>2. PICK a \in Seq(Int), b \in Seq(Int), n \in Nat, c \in Nat :
           /\ a = rates /\ b = plan[p].rates /\ rates' = a \o b
           /\ n = Len(rates) /\ c = Len(plan[p].rates) /\ n = Len(a) /\ c = Len(b)
  <2>1. /\ rates \in Seq(1 .. known) /\ plan[p].rates \in Seq(1 .. known)
        /\ 1 .. known \subseteq Int
    BY TypesOf
  <2>2. rates \in Seq(Int) /\ plan[p].rates \in Seq(Int)
    BY <2>1, SeqMonotonic
  <2>3. PICK a \in Seq(Int), b \in Seq(Int) : a = rates /\ b = plan[p].rates
    BY <2>2
  <2>4. Len(a) \in Nat /\ Len(b) \in Nat
    OBVIOUS
  <2> QED
    BY <1>1, <2>3, <2>4
<1>3. /\ Len(rates') = n + c /\ DOMAIN rates' = 1 .. n + c
      /\ \A j \in 1 .. n : rates'[j] = a[j]
      /\ \A j \in 1 .. c : rates'[n + j] = b[j]
      /\ DOMAIN a = 1 .. n /\ DOMAIN b = 1 .. c
  BY <1>2
<1>4. ASSUME ~ alarmed
      PROVE  Published' /\ (faults = 0 => Within(offsets, Len(rates))')
  <2>1. Published /\ Planned(p)
    BY <1>4 DEF RatesInv, Aligned
  <2>2. plan[p].offsets = <<>> /\ Reach(p) = n + c
    BY <1>1, <1>2, <2>1 DEF Planned, Reach
  <2>3. Ahead(p) = offsets
    <3>1. PICK s \in Seq(Offset) : s = offsets
      BY TypesOf
    <3>2. s \o <<>> = s
      OBVIOUS
    <3> QED
      BY <2>2, <3>1, <3>2 DEF Ahead
  <2>4. Complete(offsets, n + c) /\ (faults = 0 => Within(offsets, n + c))
    BY <1>1, <2>1, <2>2, <2>3 DEF Planned
  <2>5. ASSUME NEW j \in DOMAIN rates' PROVE rates'[j] = j
    <3>1. CASE j <= n
      <4>1. j \in 1 .. n /\ j \in DOMAIN a
        BY <1>3, <3>1
      <4>2. a[j] = j
        BY <1>2, <2>1, <4>1 DEF Published
      <4> QED
        BY <1>3, <4>1, <4>2
    <3>2. CASE ~ (j <= n)
      <4>1. PICK k \in 1 .. c : j = n + k
        <5>1. j - n \in 1 .. c /\ j = n + (j - n)
          BY <1>3, <3>2
        <5> QED
          BY <5>1
      <4>2. b[k] = n + k
        BY <1>1, <1>2, <1>3, <2>1 DEF Planned
      <4> QED
        BY <1>3, <4>1, <4>2
    <3> QED
      BY <3>1, <3>2
  <2>6. Faithful(offsets)' /\ Complete(offsets, Len(rates))'
    <3>1. Faithful(offsets)
      BY <2>1 DEF Published
    <3>2. Faithful(offsets)'
      BY <1>1, <3>1 DEF Faithful
    <3>3. Complete(offsets, Len(rates))'
      BY <1>1, <1>3, <2>4 DEF Complete
    <3> QED
      BY <3>2, <3>3
  <2>7. faults = 0 => Within(offsets, Len(rates))'
    BY <1>1, <1>3, <2>4 DEF Within
  <2> QED
    BY <2>5, <2>6, <2>7 DEF Published
<1>5. (Planned(p) /\ Fetching(p))'
  BY <1>1 DEF Planned, Fetching
<1>6. ~ alarmed /\ faults = 0 => Within(offsets, Len(rates))'
  BY <1>4
<1> QED
  BY <1>1, <1>4, <1>5, <1>6, WorkGoesOn

\* Nothing throws that is not a fault, until something is logged.
LEMMA ThrowStep ==
    ASSUME Seasonal, Inv, Inv', RatesInv, NEW p \in Updaters, Throw(p)
    PROVE  RatesInv'
<1>1. /\ Inside(p) /\ pc' = [pc EXCEPT ![p] = "leaving"]
      /\ UNCHANGED contract /\ alarmed' = alarmed /\ faults \in Nat
  BY TypesOf DEF Throw
<1>2. faults' \in Nat /\ faults <= faults' /\ faults' # 0
  <2>1. CASE pc[p] = "rates" /\ ~ CanPush(plan[p].rates) /\ UNCHANGED faults
    <3>1. alarmed
      <4> SUFFICES ASSUME ~ alarmed PROVE FALSE
        OBVIOUS
      <4>1. Published /\ Planned(p)
        BY DEF RatesInv, Aligned
      <4> QED
        BY <2>1, <4>1, TypesOf, PlanTaken
    <3>2. faults \in Nat /\ faults > 0
      BY <3>1, AlarmTakesFault
    <3> QED
      BY <2>1, <3>2
  <2>2. CASE faults' = faults + 1
    BY <1>1, <2>2
  <2> QED
    BY <2>1, <2>2 DEF Throw
<1> QED
  BY <1>1, <1>2, WorkEnds

LEMMA ExitStep ==
    ASSUME Inv, RatesInv, NEW p \in Updaters, ExitCS(p)
    PROVE  RatesInv'
<1>1. /\ pc[p] = "leaving" /\ pc' = [pc EXCEPT ![p] = "out"]
      /\ UNCHANGED contract /\ alarmed' = alarmed /\ faults' = faults /\ faults \in Nat
  BY TypesOf DEF ExitCS
<1>2. faults = 0 => Within(offsets, Len(rates))
  BY <1>1, SettledWithin
<1>3. faults' \in Nat /\ faults <= faults' /\ (faults' = 0 => Within(offsets, Len(rates)))
  BY <1>1, <1>2
<1> QED
  BY <1>1, <1>3, WorkEnds

LEMMA CrashStep ==
    ASSUME Inv, RatesInv, NEW p \in Updaters, Crash(p)
    PROVE  RatesInv'
<1>1. /\ Inside(p) /\ pc' = [pc EXCEPT ![p] = "out"]
      /\ UNCHANGED contract /\ alarmed' = alarmed /\ faults' = faults + 1 /\ faults \in Nat
  BY TypesOf DEF Crash
<1>2. faults' \in Nat /\ faults <= faults' /\ faults' # 0
  BY <1>1
<1> QED
  BY <1>1, <1>2, WorkEnds

\* Who enters finds nobody inside.
LEMMA EnterStep ==
    ASSUME Inv, RatesInv, NEW p \in Updaters, EnterCS(p)
    PROVE  RatesInv'
<1>1. /\ pc' = [pc EXCEPT ![p] = "reading"]
      /\ UNCHANGED contract /\ UNCHANGED <<rates, offsets, alarmed, faults>>
      /\ ~ held \/ since < now - Expiry
  BY DEF EnterCS, contract, Expired
<1>2. \A q \in Updaters : pc[q] = "out"
  <2>1. now \in Nat /\ since \in Nat /\ Expiry \in Nat
    BY UpdaterAssumption DEF Inv, TypeOK, Hours, UpdaterAssumption
  <2> QED
    BY <1>1, <2>1 DEF Inv, ClaimHeld
<1>3. \A q \in Updaters : pc'[q] \in {"out", "reading"}
  BY <1>2, TypesOf DEF EnterCS
<1>4. \A q \in Updaters : (Planned(q) /\ Fetching(q))'
  BY <1>3 DEF Planned, Fetching
<1>5. Aligned'
  BY <1>1, <1>4, PublishedKept DEF RatesInv, Aligned
<1>6. faults = 0 => ~ alarmed /\ Within(offsets, Len(rates))
  BY <1>2 DEF RatesInv, Settled
<1>7. Settled'
  BY <1>1, <1>6 DEF Settled, Within
<1> QED
  BY <1>5, <1>7 DEF RatesInv

\* Time passes, and rates are stored, without any effect on what is there.
LEMMA OutsideStep ==
    ASSUME Inv, Inv', RatesInv, StoreRate \/ Tick \/ UNCHANGED vars
    PROVE  RatesInv'
<1>1. /\ UNCHANGED contract /\ UNCHANGED <<rates, offsets, pc, plan, alarmed, faults>>
      /\ known' \in {known, known + 1} /\ now' \in {now, now + 1}
  BY DEF StoreRate, Tick, vars, contract
<1>2. known \in Nat /\ now \in Nat /\ faults \in Nat
  BY UpdaterAssumption DEF Inv, TypeOK, Hours, UpdaterAssumption
<1>3. known <= known' /\ now <= now' /\ faults <= faults'
  BY <1>1, <1>2
<1>4. ASSUME ~ alarmed, NEW q \in Updaters PROVE (Planned(q) /\ Fetching(q))'
  <2>1. Planned(q) /\ Fetching(q)
    BY <1>4 DEF RatesInv, Aligned
  <2> QED
    BY <1>1, <1>3, <2>1, PlanKept DEF Inv
<1>5. Aligned'
  BY <1>1, <1>4, PublishedKept DEF RatesInv, Aligned
<1>6. Settled'
  BY <1>1 DEF RatesInv, Settled, Within
<1> QED
  BY <1>5, <1>6 DEF RatesInv

LEMMA StepKeepsRates ==
    ASSUME Seasonal, Inv, Inv', RatesInv, [Next]_vars
    PROVE  RatesInv'
<1>1. ASSUME NEW p \in Updaters, EnterCS(p) \/ Work(p) \/ Crash(p)
      PROVE  RatesInv'
  BY <1>1, EnterStep, ReadStep, FetchStep, FetchedStep, PushOffsetStep,
     OffsetsPushedStep, PushRatesStep, ThrowStep, ExitStep, CrashStep DEF Work
<1> QED
  BY <1>1, OutsideStep DEF Next

LEMMA InitRates == Init => RatesInv
<1> SUFFICES ASSUME Init PROVE RatesInv
  OBVIOUS
<1>1. /\ rates = <<>> /\ offsets = <<>> /\ alarmed = FALSE
      /\ \A p \in Updaters : pc[p] = "out"
  BY DEF Init
<1>2. Faithful(offsets) /\ Within(offsets, Len(rates))
  BY <1>1 DEF Faithful, Within
<1>3. Complete(offsets, Len(rates))
  <2>1. \A i \in Changes : ~ (i <= 0)
    BY DEF Changes, Rounds
  <2> QED
    BY <1>1, <2>1 DEF Complete
<1>4. Published
  BY <1>1, <1>2, <1>3 DEF Published
<1> QED
  BY <1>1, <1>2, <1>4 DEF RatesInv, Aligned, Settled, Planned, Fetching

-----------------------------------------------------------------------------
(* What was read before.                                                   *)

\* An offset does not count for the moments before it.
LEMMA OffsetKept ==
    ASSUME offsets \in Seq(Offset), NEW o \in Offset, offsets' = Append(offsets, o),
           NEW t \in Int, t < o.from
    PROVE  GetOffset(t)' = GetOffset(t)
<1> DEFINE taken(os) == {x \in DOMAIN os : os[x].from <= t}
           Last(s) == CHOOSE x \in s : \A y \in s : y <= x
<1>1. PICK a \in Seq(Offset), d \in Seq(Offset), m \in Nat :
           /\ a = offsets /\ d = offsets' /\ m = Len(a)
           /\ DOMAIN a = 1 .. m /\ DOMAIN d = 1 .. m + 1
           /\ d[m + 1] = o /\ \A x \in 1 .. m : d[x] = a[x]
  <2>1. PICK a \in Seq(Offset), d \in Seq(Offset) :
             a = offsets /\ d = offsets' /\ d = Append(a, o)
    <3>1. Append(offsets, o) \in Seq(Offset)
      BY AppendProperties
    <3> QED
      BY <3>1
  <2>2. /\ Len(a) \in Nat /\ DOMAIN a = 1 .. Len(a) /\ DOMAIN d = 1 .. Len(a) + 1
        /\ d[Len(a) + 1] = o /\ \A x \in 1 .. Len(a) : d[x] = a[x]
    BY <2>1
  <2> QED
    BY <2>1, <2>2
<1>2. taken(d) = taken(a)
  <2>1. ASSUME NEW x \in DOMAIN d, d[x].from <= t PROVE x \in DOMAIN a
    <3>1. x # m + 1
      BY <1>1, <2>1 DEF Offset
    <3> QED
      BY <1>1, <3>1
  <2> QED
    BY <1>1, <2>1
<1>3. /\ GetOffset(t) = IF taken(a) = {} THEN 0 ELSE a[Last(taken(a))].offset
      /\ GetOffset(t)' = IF taken(d) = {} THEN 0 ELSE d[Last(taken(d))].offset
  BY <1>1 DEF GetOffset
<1>4. ASSUME taken(a) # {} PROVE d[Last(taken(a))] = a[Last(taken(a))]
  <2>1. \E x \in taken(a) : \A y \in taken(a) : y <= x
    BY <1>1, <1>4, OffsetTaken
  <2>2. Last(taken(a)) \in taken(a)
    <3> HIDE DEF taken
    <3> QED
      BY <2>1
  <2> HIDE DEF Last
  <2> QED
    BY <1>1, <2>2
<1> HIDE DEF taken, Last
<1> QED
  BY <1>2, <1>3, <1>4

\* What can be read, and lies before the end of the last rate.
Legible == ~ alarmed => \A t \in Hours :
              Readable(t) => RateAt(t) = InForce(t) /\ t < Starts[Len(rates) + 1]

\* A step that nobody logs changes no rate that could be read.
StepKeepsReadings ==
    ~ alarmed' => \A t \in Hours : Readable(t) => Readable(t)' /\ RateAt(t)' = RateAt(t)

\* An offset is pushed for a rate that has not been published.
LEMMA PushOffsetLater ==
    ASSUME Seasonal, Inv, RatesInv, ~ alarmed, NEW p \in Updaters, PushOffset(p)
    PROVE  \E o \in Offset : /\ offsets' = Append(offsets, o)
                             /\ Starts[Len(rates) + 1] < o.from
<1>1. /\ pc[p] = "offsets" /\ plan[p].offsets # <<>>
      /\ offsets' = Append(offsets, Head(plan[p].offsets))
  BY DEF PushOffset, UpdateOffset
<1>2. PICK a \in Seq(Offset), b \in Seq(Offset), m \in Nat, s \in Seq(Offset), o \in Offset :
           /\ a = offsets /\ b = plan[p].offsets /\ b # <<>> /\ m = Len(a)
           /\ s = Ahead(p) /\ s = a \o b /\ o = Head(b)
  <2>1. PICK a \in Seq(Offset), b \in Seq(Offset) :
             a = offsets /\ b = plan[p].offsets /\ b # <<>>
    BY <1>1, TypesOf
  <2>2. a \o b \in Seq(Offset) /\ Head(b) \in Offset /\ Len(a) \in Nat
    BY <2>1, HeadTailProperties
  <2> QED
    BY <2>1, <2>2 DEF Ahead
<1>3. /\ m + 1 \in DOMAIN s /\ s[m + 1] = o
      /\ DOMAIN a = 1 .. m /\ \A x \in 1 .. m : s[x] = a[x] /\ x \in DOMAIN s
  <2>1. Len(b) \in Nat \ {0} /\ b[1] = o
    BY <1>2
  <2> QED
    BY <1>2, <2>1
<1>4. Published /\ Faithful(s)
  BY <1>1, <1>2 DEF RatesInv, Aligned, Planned
<1>5. PICK i \in Changes : o = Change(i)
  BY <1>3, <1>4 DEF Faithful
<1>6. o.from = ChangeFrom(i) /\ ChangeFrom(i) \in Int /\ o.from \in Int
  BY <1>5, ChangeInRate DEF Change, Changes
<1>7. ~ (i <= Len(rates))
  <2> SUFFICES ASSUME i <= Len(rates) PROVE FALSE
    OBVIOUS
  <2>1. PICK x \in 1 .. m : a[x] = o
    BY <1>2, <1>3, <1>4, <1>5 DEF Published, Complete
  <2>2. s[x] = s[m + 1] /\ x < m + 1 /\ x \in DOMAIN s
    BY <1>3, <2>1
  <2>3. s[x].from < s[m + 1].from
    BY <1>3, <1>4, <2>2 DEF Faithful
  <2> QED
    BY <1>3, <1>6, <2>2, <2>3
<1>8. PICK n \in Nat : n = Len(rates) /\ n + 1 \in DOMAIN Starts
  <2>1. Len(rates) \in 0 .. Len(Starts) - 1
    BY <1>4, PublishedStored DEF Inv
  <2> QED
    BY <2>1, StartsType
<1>9. /\ i \in Rounds /\ i \in DOMAIN Starts /\ i \in Nat /\ n + 1 <= i
  BY <1>7, <1>8, ChangeInRate DEF Changes, Rounds
<1>10. Starts[n + 1] <= Starts[i] /\ Starts[n + 1] \in Nat /\ Starts[i] \in Nat
  BY <1>8, <1>9, StartsOrdered
<1>11. Starts[i] + 1 < ChangeFrom(i)
  BY <1>9, ChangeInRate
<1>12. Starts[n + 1] < o.from
  BY <1>6, <1>8, <1>10, <1>11
<1> QED
  BY <1>1, <1>2, <1>8, <1>12

LEMMA ReadingsKept ==
    ASSUME Seasonal, Inv, RatesInv, Legible, Legible', [Next]_vars
    PROVE  StepKeepsReadings
<1> SUFFICES ASSUME ~ alarmed', NEW t \in Hours, Readable(t)
             PROVE  Readable(t)' /\ RateAt(t)' = RateAt(t)
  BY DEF StepKeepsReadings
<1>1. t \in Int /\ GetOffset(t) \in Int
  BY OffsetsInt, UpdaterAssumption DEF Inv, TypeOK, Hours, UpdaterAssumption
<1>2. CASE UNCHANGED contract
  <2>1. UNCHANGED <<rates, offsets>>
    BY <1>2 DEF contract
  <2> QED
    BY <2>1 DEF Readable, RateAt, GetBlockIndexFor, GetOffset
<1>3. ASSUME NEW p \in Updaters, PushOffset(p)
      PROVE  Readable(t)' /\ RateAt(t)' = RateAt(t)
  <2>1. ~ alarmed /\ UNCHANGED rates
    BY <1>3 DEF PushOffset
  <2>2. PICK o \in Offset : /\ offsets' = Append(offsets, o)
                            /\ Starts[Len(rates) + 1] < o.from
    BY <1>3, <2>1, PushOffsetLater
  <2>3. t < Starts[Len(rates) + 1] /\ Starts[Len(rates) + 1] \in Nat
    <3>1. Len(rates) \in 0 .. Len(Starts) - 1
      BY <2>1, PublishedStored DEF Inv, RatesInv, Aligned
    <3>2. Len(rates) + 1 \in DOMAIN Starts
      BY <3>1, StartsType
    <3> QED
      BY <2>1, <3>2, StartsType DEF Legible
  <2>4. t < o.from
    BY <1>1, <2>2, <2>3 DEF Offset
  <2>5. GetOffset(t)' = GetOffset(t)
    BY <1>1, <2>2, <2>4, OffsetKept DEF Inv, TypeOK
  <2> QED
    BY <2>1, <2>5 DEF Readable, RateAt, GetBlockIndexFor
<1>4. ASSUME NEW p \in Updaters, PushRates(p)
      PROVE  Readable(t)' /\ RateAt(t)' = RateAt(t)
  <2>1. ~ alarmed /\ UNCHANGED offsets /\ rates' = rates \o plan[p].rates
    BY <1>4 DEF PushRates
  <2>2. GetBlockIndexFor(t)' = GetBlockIndexFor(t)
    BY <2>1 DEF GetBlockIndexFor, GetOffset
  <2>3. Len(rates') \in Nat /\ Len(rates) \in Nat /\ Len(rates) <= Len(rates')
    <3>1. PICK a \in Seq(1 .. known), b \in Seq(1 .. known) :
               a = rates /\ b = plan[p].rates
      BY TypesOf
    <3>2. Len(a \o b) = Len(a) + Len(b) /\ Len(a) \in Nat /\ Len(b) \in Nat
      OBVIOUS
    <3> QED
      BY <2>1, <3>1, <3>2
  <2>4. Readable(t)'
    BY <2>2, <2>3 DEF Readable
  <2> QED
    BY <2>1, <2>4 DEF Legible, InForce, Till
<1> QED
  BY <1>2, <1>3, <1>4
  DEF Next, Work, EnterCS, Read, Fetch, Fetched, OffsetsPushed, Throw, ExitCS, Crash,
      StoreRate, Tick, vars

LEMMA SpecRates == Seasonal => (Spec => [](RatesInv /\ Legible))
<1>. SUFFICES ASSUME Seasonal  PROVE Spec => [](RatesInv /\ Legible)  OBVIOUS
<1>1. Inv /\ RatesInv => Legible
  <2>. SUFFICES ASSUME Inv, RatesInv, ~ alarmed, NEW t \in Hours, Readable(t)
               PROVE  RateAt(t) = InForce(t) /\ t < Starts[Len(rates) + 1]
    BY DEF Legible
  <2>. QED  BY PublishedRight DEF Inv, RatesInv, Aligned
<1>2. Inv /\ Inv' /\ RatesInv /\ [Next]_vars => RatesInv'  BY StepKeepsRates
<1>. QED  BY SpecInv, InitRates, <1>1, <1>2, PTL DEF Spec

-----------------------------------------------------------------------------
(* Results.                                                                *)

\* The variables have their types: in particular every rate that the oracle
\* publishes is one that the service has stored.
THEOREM OracleTyped == Spec => []TypeOK
<1>1. Inv => TypeOK  BY DEF Inv
<1>. QED  BY SpecInv, <1>1, PTL

\* One updater at a time is inside, although a claim may be taken over.
THEOREM OneUpdater == Spec => []MutualExclusion
<1>1. Inv => MutualExclusion  BY DEF Inv, ClaimHeld, MutualExclusion
<1>. QED  BY SpecInv, <1>1, PTL

\* What can be read of the oracle is the rate that the service has for that
\* moment, whoever dies or throws, until an updater has logged that the two
\* differ; and that takes a fault.  The calendar must be one of blocks that
\* begin an hour early or late at most.
THEOREM RatesPublished == Seasonal => (Spec => []RateMatches)
<1>. SUFFICES ASSUME Seasonal  PROVE Spec => []RateMatches  OBVIOUS
<1>1. Inv /\ RatesInv /\ Legible => RateMatches
  BY AlarmTakesFault DEF RateMatches, Legible
<1>. QED  BY SpecInv, SpecRates, <1>1, PTL

\* Until then, a rate that could be read can be read ever after, and it does
\* not change.
THEOREM ReadingsStay == Seasonal => (Spec => [][StepKeepsReadings]_vars)
<1>. SUFFICES ASSUME Seasonal  PROVE Spec => [][StepKeepsReadings]_vars  OBVIOUS
<1>1. Inv /\ RatesInv /\ Legible /\ Legible' /\ [Next]_vars => StepKeepsReadings
  BY ReadingsKept
<1>. QED  BY SpecInv, SpecRates, <1>1, PTL DEF Spec
=============================================================================
