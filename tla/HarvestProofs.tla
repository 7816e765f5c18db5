--------------------------- MODULE HarvestProofs ---------------------------
(***************************************************************************)
(* For any number of runs, any steps, any calendar of statements and any   *)
(* spending: the harvester keeps its types, what goes wrong is the only    *)
(* reason for a due date to be paid twice, and a statement is not paid     *)
(* with another one's amount, but in the cases that AmountKnown names.     *)
(***************************************************************************)
EXTENDS Harvester, SequenceTheorems, FiniteSetTheorems, WellFoundedInduction, TLAPS

-----------------------------------------------------------------------------
(* The steps that only calculate.                                          *)

\* They leave what is remembered of the last payment alone.
LEMMA StateKept ==
    ASSUME NEW name, NEW v \in View, NEW s \in State
    PROVE  /\ Calculated(name, v, s) \in State
           /\ Calculated(name, v, s).lastDue = s.lastDue
           /\ Calculated(name, v, s).lastAmount = s.lastAmount
<1> DEFINE Alike == {u \in State : u.lastDue = s.lastDue /\ u.lastAmount = s.lastAmount}
<1>1. \A u \in Alike : \A x \in Maybe :
          /\ [u EXCEPT !.balance = x] \in Alike
          /\ [u EXCEPT !.transfer = x] \in Alike
          /\ [u EXCEPT !.pending = x] \in Alike
          /\ [u EXCEPT !.payOn = x] \in Alike
          /\ [u EXCEPT !.lastTop = x] \in Alike
  BY DEF State
<1>2. /\ s \in Alike /\ None \in Maybe /\ Int \subseteq Maybe
      /\ s.balance \in Maybe /\ s.pending \in Maybe /\ s.transfer \in Maybe
      /\ v.owing \in Int /\ v.chq \in Int /\ v.at \in Int
  BY DEF State, View, Maybe
<1> HIDE DEF Alike
<1>3. \A x \in Maybe : OrZero(x) \in Int /\ (x # None => x \in Int)
  BY DEF Maybe, OrZero
<1>4. ClearPendingVisa(v, s) \in Alike
  <2>1. CASE s.pending # None /\ LastPaymentSettled(v, s)
    <3>1. PICK x \in Maybe : x = OrZero(s.balance) - s.pending
      BY <1>2, <1>3, <2>1
    <3>2. PICK u \in Alike : u = [s EXCEPT !.balance = x]
      BY <1>1, <1>2
    <3>3. PICK w \in Alike : w = [u EXCEPT !.pending = None]
      BY <1>1, <1>2
    <3>4. ClearPendingVisa(v, s) = [w EXCEPT !.payOn = None]
      BY <2>1, <3>1, <3>2, <3>3 DEF ClearPendingVisa
    <3> QED
      BY <1>1, <1>2, <3>4
  <2>2. CASE ~ (s.pending # None /\ LastPaymentSettled(v, s))
    <3>1. PICK x \in Maybe : x = OrZero(s.balance)
      BY <1>2, <1>3
    <3>2. ClearPendingVisa(v, s) = [s EXCEPT !.balance = x]
      BY <2>2, <3>1 DEF ClearPendingVisa
    <3> QED
      BY <1>1, <1>2, <3>2
  <2> QED
    BY <2>1, <2>2
<1>5. TransferVisaOwing(v, s) \in Alike
  <2>1. PICK x \in Int : x = v.owing - OrZero(s.balance)
    BY <1>2, <1>3
  <2>2. PICK y \in Maybe : y = IF x > 0 THEN x ELSE None
    BY <1>2
  <2>3. TransferVisaOwing(v, s) = [s EXCEPT !.transfer = y]
    BY <2>1, <2>2 DEF TransferVisaOwing
  <2> QED
    BY <1>1, <1>2, <2>3
<1>6. TransferEverything(v, s) \in Alike
  BY <1>1, <1>2 DEF TransferEverything
<1>7. s.transfer # None => RoundUp(s) \in Alike
  <2> SUFFICES ASSUME s.transfer # None PROVE RoundUp(s) \in Alike
    OBVIOUS
  <2>1. -((-s.transfer) \div RoundPoint) * RoundPoint \in Maybe
    <3>1. PICK n \in Int : n = -s.transfer
      BY <1>2, <1>3
    <3>2. n \div RoundPoint \in Int
      BY StagesAssumption DEF StagesAssumption
    <3>3. PICK q \in Int : q = n \div RoundPoint
      BY <3>2
    <3>4. -q * RoundPoint \in Int
      BY StagesAssumption DEF StagesAssumption
    <3> QED
      BY <1>2, <3>1, <3>3, <3>4
  <2> QED
    BY <1>1, <1>2, <2>1 DEF RoundUp
<1>8. s.transfer # None => TopUp(v, s) \in Alike
  <2> SUFFICES ASSUME s.transfer # None PROVE TopUp(v, s) \in Alike
    OBVIOUS
  <2>1. PICK x \in Maybe, y \in Maybe : x = s.transfer + TopUpAmount /\ y = OrZero(s.balance) - TopUpAmount
    BY <1>2, <1>3, StagesAssumption DEF StagesAssumption
  <2>2. PICK u \in Alike : u = [s EXCEPT !.transfer = x]
    BY <1>1, <1>2
  <2>3. PICK w \in Alike : w = [u EXCEPT !.balance = y]
    BY <1>1
  <2>4. TopUp(v, s) = s \/ TopUp(v, s) = [w EXCEPT !.lastTop = v.at]
    BY <2>1, <2>2, <2>3 DEF TopUp
  <2> QED
    BY <1>1, <1>2, <2>4
<1>9. s.transfer # None => ChequeMinimum(v, s) \in Alike
  <2> SUFFICES ASSUME s.transfer # None PROVE ChequeMinimum(v, s) \in Alike
    OBVIOUS
  <2>1. PICK x \in Maybe : x = Smaller(s.transfer, v.chq - Smaller(ChequeLimit, v.chq))
    BY <1>2, <1>3, StagesAssumption DEF StagesAssumption, Smaller
  <2>2. ChequeMinimum(v, s) = [s EXCEPT !.transfer = x]
    BY <2>1 DEF ChequeMinimum
  <2> QED
    BY <1>1, <1>2, <2>2
<1>10. s.transfer # None => TransferLimit(s) \in Alike
  <2> SUFFICES ASSUME s.transfer # None PROVE TransferLimit(s) \in Alike
    OBVIOUS
  <2>1. PICK x \in Maybe : x = Smaller(s.transfer, TransferMax)
    BY <1>2, <1>3, StagesAssumption DEF StagesAssumption, Smaller
  <2>2. TransferLimit(s) = [s EXCEPT !.transfer = x]
    BY <2>1 DEF TransferLimit
  <2> QED
    BY <1>1, <1>2, <2>2
<1>11. Calculated(name, v, s) \in Alike
  BY <1>2, <1>4, <1>5, <1>6, <1>7, <1>8, <1>9, <1>10 DEF Calculated
<1> QED
  BY <1>11 DEF Alike

\* Nor is anything but the amounts of the card changed for the steps after them.
Percentage(amount) == (amount * Percent) \div 100

LEMMA ViewKept ==
    ASSUME NEW name, NEW v \in View
    PROVE  /\ Reduced(name, v) \in View
           /\ Reduced(name, v).date = v.date
           /\ Reduced(name, v).at = v.at
           /\ Reduced(name, v).amount = IF name = "ProcessPercent" THEN Percentage(v.amount) ELSE v.amount
<1>1. \A n \in Int : (n * Percent) \div 100 \in Int
  BY StagesAssumption DEF StagesAssumption
<1>2. /\ ProcessPercent(v) \in View /\ ProcessPercent(v).date = v.date
      /\ ProcessPercent(v).at = v.at /\ ProcessPercent(v).amount = Percentage(v.amount)
  BY <1>1 DEF ProcessPercent, View, Percentage
<1> QED
  BY <1>2 DEF Reduced

-----------------------------------------------------------------------------
(* The steps that follow at once, one after another.                       *)

LEMMA FromZeroOn ==
    ASSUME NEW P, 0 \in P, \A n \in Nat : n \in P => n + 1 \in P
    PROVE  Nat \subseteq P
<1> DEFINE others == Nat \ P
<1>1. SUFFICES ASSUME others # {} PROVE FALSE
  OBVIOUS
<1>2. PICK n \in others : \A m \in others : ~ (<<m, n>> \in OpToRel(<, Nat))
  <2> HIDE DEF others
  <2>1. others \in SUBSET Nat
    BY DEF others
  <2> QED
    BY <1>1, <2>1, NatLessThanWellFounded, WFMin
<1>3. n \in Nat /\ n # 0 /\ n - 1 \in Nat
  OBVIOUS
<1>4. n - 1 \notin others
  <2>1. \A m \in others : m \in Nat /\ ~ (m < n)
    BY <1>2 DEF OpToRel
  <2> HIDE DEF others
  <2>2. n - 1 < n
    BY <1>3
  <2> QED
    BY <2>1, <2>2
<1>5. n - 1 + 1 \in P
  BY <1>3, <1>4
<1> QED
  BY <1>3, <1>5

\* Of some numbers there is a last one, and a first one.
LEMMA SomeLast ==
    ASSUME NEW n \in Nat, NEW s \in SUBSET (1 .. n), s # {}
    PROVE  \E x \in s : \A y \in s : y <= x
<1> DEFINE above == {m \in Nat : \A y \in s : y <= m}
<1>1. n \in above
  OBVIOUS
<1>2. PICK m \in above : \A l \in above : ~ (<<l, m>> \in OpToRel(<, Nat))
  <2> HIDE DEF above
  <2>1. above \in SUBSET Nat
    BY DEF above
  <2> QED
    BY <1>1, <2>1, NatLessThanWellFounded, WFMin
<1>3. \A l \in above : ~ (l < m)
  BY <1>2 DEF OpToRel
<1>4. s \subseteq Nat \ {0} /\ m \in Nat /\ \A y \in s : y <= m
  OBVIOUS
<1>5. m # 0
  <2>1. PICK y \in s : TRUE
    OBVIOUS
  <2>2. y \in Nat \ {0} /\ y <= m
    BY <1>4, <2>1
  <2> QED
    BY <2>2
<1>6. m - 1 \notin above
  BY <1>3, <1>4, <1>5
<1>7. PICK y \in s : ~ (y <= m - 1)
  BY <1>4, <1>5, <1>6
<1>8. y = m
  BY <1>4, <1>7
<1> QED
  BY <1>4, <1>8

LEMMA SomeFirst ==
    ASSUME NEW s \in SUBSET Nat, s # {}
    PROVE  Min(s) \in s
<1>1. PICK x \in s : \A y \in s : ~ (<<y, x>> \in OpToRel(<, Nat))
  BY NatLessThanWellFounded, WFMin
<1>2. \A y \in s : x <= y
  <2>1. \A y \in s : x \in Nat /\ y \in Nat /\ ~ (y < x)
    BY <1>1 DEF OpToRel
  <2> QED
    BY <2>1
<1> QED
  BY <1>2 DEF Min

\* A set is taken apart, one element after another.
Chooses(pick, D) == IsFiniteSet(D) /\ \A s \in SUBSET D : s # {} => pick[s] \in s

LEMMA PartsFinite ==
    ASSUME NEW D, NEW pick, Chooses(pick, D), NEW s \in SUBSET D
    PROVE  /\ Cardinality(s) \in Nat /\ Cardinality(D) \in Nat
           /\ Cardinality(s) <= Cardinality(D)
           /\ s # {} => /\ pick[s] \in s /\ s \ {pick[s]} \in SUBSET D
                        /\ Cardinality(s \ {pick[s]}) = Cardinality(s) - 1
           /\ Cardinality(s) = 0 <=> s = {}
<1>1. IsFiniteSet(D)
  BY DEF Chooses
<1>2. /\ IsFiniteSet(s) /\ Cardinality(s) \in Nat /\ Cardinality(s) <= Cardinality(D)
      /\ Cardinality(D) \in Nat
  BY <1>1, FS_Subset, FS_CardinalityType
<1>3. Cardinality(s) = 0 <=> s = {}
  BY <1>2, FS_EmptySet
<1>4. ASSUME s # {}
      PROVE  /\ pick[s] \in s /\ s \ {pick[s]} \in SUBSET D
             /\ Cardinality(s \ {pick[s]}) = Cardinality(s) - 1
  <2>1. pick[s] \in s
    BY <1>4 DEF Chooses
  <2> QED
    BY <1>2, <2>1, FS_RemoveElement
<1> QED
  BY <1>2, <1>3, <1>4

LEMMA PieceByPiece ==
    ASSUME NEW D, NEW pick, Chooses(pick, D), NEW P, {} \in P,
           \A s \in SUBSET D : s # {} /\ s \ {pick[s]} \in P => s \in P
    PROVE  D \in P
<1> DEFINE Q == {n \in Nat : \A s \in SUBSET D : Cardinality(s) = n => s \in P}
<1>1. 0 \in Q
  <2> SUFFICES ASSUME NEW s \in SUBSET D, Cardinality(s) = 0 PROVE s \in P
    OBVIOUS
  <2>1. s = {}
    BY PartsFinite
  <2> QED
    BY <2>1
<1>2. ASSUME NEW n \in Nat, n \in Q PROVE n + 1 \in Q
  <2> SUFFICES ASSUME NEW s \in SUBSET D, Cardinality(s) = n + 1 PROVE s \in P
    OBVIOUS
  <2>1. Cardinality(s) # 0
    BY <1>2
  <2>2. s # {}
    BY <2>1, PartsFinite
  <2>3. Cardinality(s \ {pick[s]}) = n /\ s \ {pick[s]} \in SUBSET D
    <3>1. /\ Cardinality(s \ {pick[s]}) = Cardinality(s) - 1
          /\ s \ {pick[s]} \in SUBSET D
      BY <2>2, PartsFinite
    <3> HIDE DEF Q
    <3> QED
      BY <3>1
  <2> QED
    BY <1>2, <2>2, <2>3
<1> HIDE DEF Q
<1>3. Nat \subseteq Q
  BY <1>1, <1>2, FromZeroOn
<1>4. D \in SUBSET D /\ Cardinality(D) \in Nat
  BY PartsFinite
<1> QED
  BY <1>3, <1>4 DEF Q

\* What is folded over the elements has a value, of the kind that each step keeps.
Folded(g, D, pick, base, next) ==
    \A s \in SUBSET D :
       g[s] = IF s = {} THEN base ELSE next[<<pick[s], g[s \ {pick[s]}]>>]

LEMMA FoldExists ==
    ASSUME NEW D, NEW pick, Chooses(pick, D), NEW V, NEW base \in V,
           NEW next \in [D \X V -> V]
    PROVE  \E g \in [SUBSET D -> V] : Folded(g, D, pick, base, next)
<1> DEFINE Part(g, n) ==
              \A s \in SUBSET D : Cardinality(s) <= n =>
                 g[s] = IF s = {} THEN base ELSE next[<<pick[s], g[s \ {pick[s]}]>>]
           P == {n \in Nat : \E g \in [SUBSET D -> V] : Part(g, n)}
<1>1. 0 \in P
  <2>1. PICK g \in [SUBSET D -> V] : g = [s \in SUBSET D |-> base]
    OBVIOUS
  <2>2. ASSUME NEW s \in SUBSET D, Cardinality(s) <= 0 PROVE s = {}
    <3>1. Cardinality(s) \in Nat /\ (Cardinality(s) = 0 => s = {})
      BY PartsFinite
    <3> HIDE DEF P, Part
    <3> QED
      BY <2>2, <3>1
  <2>3. Part(g, 0)
    BY <2>1, <2>2
  <2> QED
    BY <2>3
<1>2. ASSUME NEW n \in Nat, n \in P PROVE n + 1 \in P
  <2>1. PICK h \in [SUBSET D -> V] : Part(h, n)
    BY <1>2
  <2>2. PICK g \in [SUBSET D -> V] :
            g = [s \in SUBSET D |->
                    IF s = {} THEN base ELSE next[<<pick[s], h[s \ {pick[s]}]>>]]
    <3> SUFFICES ASSUME NEW s \in SUBSET D, s # {}
                 PROVE  next[<<pick[s], h[s \ {pick[s]}]>>] \in V
      OBVIOUS
    <3>1. pick[s] \in D /\ h[s \ {pick[s]}] \in V
      BY PartsFinite
    <3> QED
      BY <3>1
  <2>3. ASSUME NEW s \in SUBSET D, Cardinality(s) <= n + 1, s # {}
        PROVE  g[s] = next[<<pick[s], g[s \ {pick[s]}]>>]
    <3>1. PICK r \in SUBSET D : r = s \ {pick[s]} /\ Cardinality(r) <= n
      <4>1. /\ s \ {pick[s]} \in SUBSET D /\ Cardinality(s) \in Nat
            /\ Cardinality(s \ {pick[s]}) = Cardinality(s) - 1
        BY <2>3, PartsFinite
      <4>2. Cardinality(s \ {pick[s]}) <= n
        BY <2>3, <4>1
      <4> QED
        BY <4>1, <4>2
    <3>2. h[r] = g[r]
      BY <2>1, <2>2, <3>1
    <3>3. g[s] = next[<<pick[s], h[r]>>]
      BY <2>2, <2>3, <3>1
    <3> QED
      BY <3>1, <3>2, <3>3
  <2>4. g[{}] = base
    BY <2>2
  <2>5. Part(g, n + 1)
    BY <2>3, <2>4
  <2>6. \E k \in [SUBSET D -> V] : Part(k, n + 1)
    BY <2>5
  <2> HIDE DEF Part
  <2> QED
    BY <2>6
<1> HIDE DEF P
<1>3. Cardinality(D) \in P
  BY <1>1, <1>2, FromZeroOn, PartsFinite
<1>4. PICK g \in [SUBSET D -> V] : Part(g, Cardinality(D))
  BY <1>3 DEF P
<1>5. \A s \in SUBSET D : Cardinality(s) <= Cardinality(D)
  BY PartsFinite
<1> QED
  BY <1>4, <1>5 DEF Folded

\* What one step makes of the outcomes of those before it.
After(name, outcomes) ==
    {<<Reduced(name, o[1]), Calculated(name, o[1], o[2])>> : o \in outcomes}

\* What the function g must be to take the steps of a sequence in their order.
Outcome(g, base, steps, s) ==
    IF s = {} THEN base ELSE After(steps[Max(s)], g[s \ {Max(s)}])
Follows(g, base, steps) ==
    g = [s \in SUBSET DOMAIN steps |-> Outcome(g, base, steps, s)]

\* What the steps that only calculate come to.
Results(base, steps) ==
    FoldLeft(LAMBDA outcomes, name :
                {<<Reduced(name, o[1]), Calculated(name, o[1], o[2])>> : o \in outcomes},
             base, steps)

\* They are what such a function comes to: there is one.
Closed(All) ==
    \A name \in STRING : \A o \in All :
       <<Reduced(name, o[1]), Calculated(name, o[1], o[2])>> \in All

Leads(g, base, steps) ==
    /\ Results(base, steps) = g[DOMAIN steps]
    /\ \A s \in SUBSET DOMAIN steps : g[s] = Outcome(g, base, steps, s)

LEMMA ResultsFollow ==
    ASSUME NEW steps \in Seq(STRING), NEW base, NEW All, base \subseteq All, Closed(All)
    PROVE  \E g : Leads(g, base, steps)
<1>0. PICK D, V : D = DOMAIN steps /\ V = SUBSET All
  OBVIOUS
<1>1. PICK n \in Nat : D = DOMAIN steps /\ D = 1 .. n /\ \A x \in D : steps[x] \in STRING
  <2>1. PICK n \in Nat : n = Len(steps) /\ D = 1 .. n
    BY <1>0
  <2>2. \A x \in 1 .. n : steps[x] \in STRING
    BY <2>1, ElementOfSeq
  <2> QED
    BY <1>0, <2>1, <2>2
<1>2. PICK pick : pick = [s \in SUBSET D |-> Max(s)]
  OBVIOUS
<1>3. Chooses(pick, D)
  <2>1. IsFiniteSet(D)
    BY <1>1, FS_Interval
  <2>2. ASSUME NEW s \in SUBSET D, s # {} PROVE pick[s] \in s
    <3>1. \E x \in s : \A y \in s : y <= x
      BY <1>1, <2>2, SomeLast
    <3>2. \A x, y \in s : y <= x <=> x >= y
      BY <1>1
    <3>3. Max(s) \in s
      BY <3>1, <3>2 DEF Max
    <3> QED
      BY <1>2, <3>3
  <2> QED
    BY <2>1, <2>2 DEF Chooses
<1>4. ASSUME NEW x \in D, NEW o \in V PROVE After(steps[x], o) \in V
  BY <1>0, <1>1, <1>4 DEF After, Closed
<1>5. PICK next \in [D \X V -> V] :
         \A x \in D : \A o \in V : next[<<x, o>>] = After(steps[x], o)
  <2> DEFINE f == [y \in D \X V |-> After(steps[y[1]], y[2])]
  <2>1. f \in [D \X V -> V]
    BY <1>4
  <2>2. \A x \in D : \A o \in V : f[<<x, o>>] = After(steps[x], o)
    OBVIOUS
  <2> QED
    BY <2>1, <2>2
<1>6. \E g : Follows(g, base, steps)
  <2>1. base \in V
    BY <1>0
  <2>2. PICK g \in [SUBSET D -> V] : Folded(g, D, pick, base, next)
    BY <1>3, <2>1, FoldExists
  <2>3. ASSUME NEW s \in SUBSET D PROVE g[s] = Outcome(g, base, steps, s)
    <3>1. CASE s = {}
      BY <2>2, <3>1 DEF Folded, Outcome
    <3>2. CASE s # {}
      <4>1. pick[s] = Max(s) /\ pick[s] \in D /\ s \ {pick[s]} \in SUBSET D
        BY <1>2, <1>3, <3>2 DEF Chooses
      <4>2. g[s \ {pick[s]}] \in V
        BY <4>1
      <4>3. next[<<pick[s], g[s \ {pick[s]}]>>] = After(steps[pick[s]], g[s \ {pick[s]}])
        BY <1>5, <4>1, <4>2
      <4> QED
        BY <2>2, <3>2, <4>1, <4>3 DEF Folded, Outcome
    <3> QED
      BY <3>1, <3>2
  <2>4. g = [s \in SUBSET D |-> g[s]]
    OBVIOUS
  <2> QED
    BY <1>1, <2>3, <2>4 DEF Follows
<1>7. Results(base, steps) = (CHOOSE g : Follows(g, base, steps))[DOMAIN steps]
  BY DEF Results, Follows, Outcome, After, FoldLeft, MapThenFoldSet
<1> QED
  BY <1>6, <1>7 DEF Follows, Leads

\* What each of the steps makes of what the one before it has left, they come to.
LEMMA OutcomesKeep ==
    ASSUME NEW steps \in Seq(STRING), NEW base, NEW All, base \subseteq All, Closed(All),
           NEW Good, base \subseteq Good[0],
           \A x \in 1 .. Len(steps) : \A o \in Good[x - 1] :
              <<Reduced(steps[x], o[1]), Calculated(steps[x], o[1], o[2])>> \in Good[x]
    PROVE  Results(base, steps) \subseteq Good[Len(steps)]
<1>1. PICK l \in Nat : l = Len(steps) /\ DOMAIN steps = 1 .. l
  OBVIOUS
<1>2. PICK g : /\ Results(base, steps) = g[1 .. l]
               /\ \A s \in SUBSET (1 .. l) : g[s] = Outcome(g, base, steps, s)
  <2>1. PICK g : Leads(g, base, steps)
    BY ResultsFollow
  <2> QED
    BY <1>1, <2>1 DEF Leads
<1> DEFINE P == {m \in Nat : m <= l => g[1 .. m] \subseteq Good[m]}
<1>3. 0 \in P
  <2>1. 1 .. 0 = {} /\ {} \in SUBSET (1 .. l)
    OBVIOUS
  <2>2. g[{}] = base
    BY <1>2, <2>1 DEF Outcome
  <2> QED
    BY <2>1, <2>2
<1>4. ASSUME NEW m \in Nat, m \in P PROVE m + 1 \in P
  <2> SUFFICES ASSUME m + 1 <= l PROVE g[1 .. m + 1] \subseteq Good[m + 1]
    OBVIOUS
  <2>1. PICK s \in SUBSET (1 .. l), x \in 1 .. l : s = 1 .. m + 1 /\ x = m + 1 /\ x - 1 = m
    OBVIOUS
  <2>2. Max(s) = x
    <3>1. \A y \in s : x >= y /\ (y # x => ~ (y >= x))
      <4>1. s = 1 .. m + 1 /\ x = m + 1
        BY <2>1
      <4> HIDE DEF P
      <4> QED
        BY <4>1
    <3>2. x \in s
      BY <2>1
    <3> QED
      BY <3>1, <3>2 DEF Max
  <2>3. s \ {x} = 1 .. m /\ s # {}
    <3>1. s = 1 .. m + 1 /\ x = m + 1
      BY <2>1
    <3> HIDE DEF P
    <3>2. (1 .. m + 1) \ {m + 1} = 1 .. m /\ m + 1 \in 1 .. m + 1
      BY ONLY m \in Nat
    <3> QED
      BY <3>1, <3>2
  <2>4. g[s] = After(steps[x], g[1 .. m])
    BY <1>2, <2>1, <2>2, <2>3 DEF Outcome
  <2>5. g[1 .. m] \subseteq Good[m]
    BY <1>4
  <2>6. \A o \in Good[m] :
            <<Reduced(steps[x], o[1]), Calculated(steps[x], o[1], o[2])>> \in Good[x]
    BY <1>1, <2>1
  <2>7. After(steps[x], g[1 .. m]) \subseteq Good[x]
    BY <2>5, <2>6 DEF After
  <2> QED
    BY <2>1, <2>4, <2>7
<1> HIDE DEF P
<1>5. l \in P
  BY <1>3, <1>4, FromZeroOn
<1> QED
  BY <1>1, <1>2, <1>5 DEF P

\* A sum of numbers is a number.
Sum(g, ps, s) ==
    IF s = {} THEN 0 ELSE LET x == CHOOSE y \in s : TRUE
                          IN  ps[x].amount + g[s \ {x}]
Adds(g, ps, D) == g = [s \in SUBSET D |-> Sum(g, ps, s)]

Total(ps, D) == MapThenSumSet(LAMBDA k : ps[k].amount, D)

LEMMA SumTyped ==
    ASSUME NEW ps, NEW D, IsFiniteSet(D), \A k \in D : ps[k].amount \in Int
    PROVE  Total(ps, D) \in Int
<1>1. PICK pick : pick = [s \in SUBSET D |-> CHOOSE y \in s : TRUE]
  OBVIOUS
<1>2. Chooses(pick, D)
  BY <1>1 DEF Chooses
<1>3. PICK next \in [D \X Int -> Int] :
         \A x \in D : \A n \in Int : next[<<x, n>>] = ps[x].amount + n
  <2> DEFINE f == [y \in D \X Int |-> ps[y[1]].amount + y[2]]
  <2>1. f \in [D \X Int -> Int]
    OBVIOUS
  <2>2. \A x \in D : \A n \in Int : f[<<x, n>>] = ps[x].amount + n
    OBVIOUS
  <2> QED
    BY <2>1, <2>2
<1>4. \E g : Adds(g, ps, D)
  <2>1. PICK zero \in Int : zero = 0
    OBVIOUS
  <2>2. PICK g \in [SUBSET D -> Int] : Folded(g, D, pick, zero, next)
    BY <1>2, <2>1, FoldExists
  <2>3. ASSUME NEW s \in SUBSET D, s # {}
        PROVE  g[s] = ps[CHOOSE y \in s : TRUE].amount + g[s \ {CHOOSE y \in s : TRUE}]
    <3>1. pick[s] = (CHOOSE y \in s : TRUE) /\ pick[s] \in D /\ g[s \ {pick[s]}] \in Int
      BY <1>1, <1>2, <2>3 DEF Chooses
    <3> QED
      BY <1>3, <2>2, <2>3, <3>1 DEF Folded
  <2>4. g = [s \in SUBSET D |-> g[s]]
    OBVIOUS
  <2> QED
    <3>1. ASSUME NEW s \in SUBSET D
          PROVE  g[s] = Sum(g, ps, s)
      BY <2>1, <2>2, <2>3 DEF Folded, Sum
    <3> QED
      BY <2>4, <3>1 DEF Adds
<1>5. Total(ps, D) = (CHOOSE g : Adds(g, ps, D))[D]
  BY DEF Total, Adds, Sum, MapThenSumSet, MapThenFoldSet
<1>6. PICK g : Adds(g, ps, D) /\ Total(ps, D) = g[D]
  BY <1>4, <1>5
<1>7. ASSUME NEW s \in SUBSET D, s # {}
      PROVE  g[s] = ps[pick[s]].amount + g[s \ {pick[s]}] /\ pick[s] \in D
  BY <1>1, <1>2, <1>6, <1>7 DEF Adds, Sum, Chooses
<1> DEFINE P == {s \in SUBSET D : g[s] \in Int}
<1>8. {} \in P
  BY <1>6 DEF Adds, Sum
<1>9. ASSUME NEW s \in SUBSET D, s # {}, s \ {pick[s]} \in P PROVE s \in P
  <2>1. pick[s] \in D /\ g[s \ {pick[s]}] \in Int
    BY <1>7, <1>9
  <2>2. PICK a \in Int, b \in Int : a = ps[pick[s]].amount /\ b = g[s \ {pick[s]}]
    BY <2>1
  <2>3. g[s] = a + b
    BY <1>7, <1>9, <2>2
  <2> QED
    BY <2>3
<1>10. D \in P
  <2> HIDE DEF P
  <2> QED
    <3>1. \A s \in SUBSET D : s # {} /\ s \ {pick[s]} \in P => s \in P
      BY <1>9
    <3> QED
      BY <1>2, <1>8, <3>1, PieceByPiece
<1> QED
  BY <1>6, <1>10

-----------------------------------------------------------------------------
(* The types of the variables.                                             *)

LEMMA StagesTyped ==
    ASSUME TypeOK
    PROVE  stages \in Seq(STRING) /\ Len(stages) \in Nat
<1>1. PICK start \in Starts : stages = start.stages
  BY DEF TypeOK
<1>2. start.stages \in Seq(STRING)
  BY HarvesterAssumption DEF HarvesterAssumption
<1>3. stages \in Seq(STRING)
  BY <1>1, <1>2
<1> QED
  BY <1>3

\* What the steps i to n - 1 leave of an amount.
Left(amount, i, n) ==
    IF \E j \in i .. n - 1 : stages[j] = "ProcessPercent" THEN Percentage(amount) ELSE amount

\* It is reduced once at most, and before anything is paid.
LEMMA PercentOnce ==
    ASSUME TypeOK, NEW j \in DOMAIN stages, NEW k \in DOMAIN stages, j < k,
           stages[j] \in {"ProcessPercent", "PayVisa"}
    PROVE  stages[k] # "ProcessPercent"
<1>1. PICK start \in Starts : stages = start.stages
  BY DEF TypeOK
<1>2. InOrder(stages)
  BY <1>1, HarvesterAssumption DEF HarvesterAssumption
<1>3. PICK order : order = StepOrder
  OBVIOUS
<1>4. 3 \in DOMAIN order /\ 11 \in DOMAIN order /\ order[3] = "ProcessPercent" /\ order[11] = "PayVisa"
  BY <1>3 DEF StepOrder
<1>5. \A a, b \in DOMAIN order : stages[j] = order[a] /\ stages[k] = order[b] => a < b
  BY <1>2, <1>3 DEF InOrder
<1> QED
  BY <1>4, <1>5

\* A run goes on to a step of its own, and keeps what it remembers of the last
\* payment.
LEMMA ResumedKeeps ==
    ASSUME TypeOK, NEW r \in Runners, NEW i \in 1 .. Len(stages) + 1,
           NEW v \in View, NEW s \in State, Resumed(r, i, v, s)
    PROVE  \E n \in 1 .. Len(stages) + 1, w \in View, u \in State :
              /\ i <= n
              /\ w.date = v.date /\ w.at = v.at /\ w.amount = Left(v.amount, i, n)
              /\ u.lastDue = s.lastDue /\ u.lastAmount = s.lastAmount
              /\ step' = [step EXCEPT ![r] = n]
              /\ view' = [view EXCEPT ![r] = w]
              /\ state' = [state EXCEPT ![r] = u]
              /\ working' = working \cup {r}
<1>1. stages \in Seq(STRING) /\ Len(stages) \in Nat /\ i \in Nat
  BY StagesTyped
<1> DEFINE later == {j \in i .. Len(stages) : stages[j] \notin Calculations} \cup {Len(stages) + 1}
<1>2. PICK n \in 1 .. Len(stages) + 1 : n = Min(later) /\ i <= n
  <2>1. later \in SUBSET Nat /\ later # {} /\ later \subseteq i .. Len(stages) + 1
    BY <1>1
  <2>2. \A m \in i .. Len(stages) + 1 : m \in 1 .. Len(stages) + 1 /\ i <= m
    BY <1>1
  <2> HIDE DEF later
  <2> QED
    BY <2>1, <2>2, SomeFirst
<1>3. PICK steps \in Seq(STRING) :
         /\ steps = SubSeq(stages, i, n - 1) /\ Len(steps) = n - i
         /\ \A x \in 1 .. n - i : steps[x] = stages[i + x - 1]
  <2>1. \A x \in i .. n - 1 : stages[x] \in STRING
    BY <1>1
  <2>2. /\ SubSeq(stages, i, n - 1) \in Seq(STRING)
        /\ Len(SubSeq(stages, i, n - 1)) = IF i <= n - 1 THEN n - 1 - i + 1 ELSE 0
        /\ \A x \in 1 .. n - 1 - i + 1 : SubSeq(stages, i, n - 1)[x] = stages[i + x - 1]
    BY <1>1, <2>1, SubSeqProperties
  <2>3. n - 1 - i + 1 = n - i /\ (IF i <= n - 1 THEN n - 1 - i + 1 ELSE 0) = n - i
    BY <1>1, <1>2
  <2> QED
    BY <2>2, <2>3
<1>4. PICK done \in Results({<<v, s>>}, steps) :
          /\ step' = [step EXCEPT ![r] = n]
          /\ view' = [view EXCEPT ![r] = done[1]]
          /\ state' = [state EXCEPT ![r] = done[2]]
          /\ working' = working \cup {r}
  BY <1>2, <1>3 DEF Resumed, Results
<1> DEFINE Good == [x \in 0 .. n - i |->
                      {o \in View \X State : /\ o[1].date = v.date /\ o[1].at = v.at
                                             /\ o[1].amount = Left(v.amount, i, i + x)
                                             /\ o[2].lastDue = s.lastDue
                                             /\ o[2].lastAmount = s.lastAmount}]
<1>5. Closed(View \X State)
  BY StateKept, ViewKept DEF Closed
<1>6. 0 \in 0 .. n - i /\ n - i \in 0 .. n - i /\ i + (n - i) = n
  BY <1>1, <1>2
<1>7. {<<v, s>>} \subseteq Good[0]
  <2>1. i .. i + 0 - 1 = {}
    BY <1>1
  <2>2. Left(v.amount, i, i + 0) = v.amount
    BY <2>1 DEF Left
  <2> QED
    BY <1>6, <2>2
<1>8. ASSUME NEW x \in 1 .. Len(steps), NEW o \in Good[x - 1]
      PROVE  <<Reduced(steps[x], o[1]), Calculated(steps[x], o[1], o[2])>> \in Good[x]
  <2>1. /\ x \in 0 .. n - i /\ x - 1 \in 0 .. n - i /\ i + x - 1 \in DOMAIN stages
        /\ \A j \in i .. i + (x - 1) - 1 : j \in DOMAIN stages /\ j < i + x - 1
        /\ i .. i + x - 1 = (i .. i + (x - 1) - 1) \cup {i + x - 1}
    <3> HIDE DEF Good
    <3>1. PICK l \in Nat, k \in Nat : l = Len(stages) /\ DOMAIN stages = 1 .. l /\ k = n - i
      <4>1. DOMAIN stages = 1 .. Len(stages)
        BY <1>1
      <4>2. n - i \in Nat
        BY <1>1, <1>2
      <4> QED
        BY <1>1, <4>1, <4>2
    <3>2. i \in Nat \ {0} /\ x \in 1 .. k /\ k + i = n /\ n <= l + 1
      <4>1. x \in 1 .. k
        BY <1>3, <3>1
      <4>2. i \in 1 .. l + 1 /\ n \in 1 .. l + 1 /\ k = n - i
        BY <3>1
      <4> QED
        BY <4>1, <4>2
    <3>3. x \in 0 .. k /\ x - 1 \in 0 .. k /\ i + x - 1 \in 1 .. l
      BY <3>2
    <3>4. \A j \in i .. i + (x - 1) - 1 : j \in 1 .. l /\ j < i + x - 1
      BY <3>2
    <3>5. i .. i + x - 1 = (i .. i + (x - 1) - 1) \cup {i + x - 1}
      BY <3>2
    <3> QED
      BY <3>1, <3>3, <3>4, <3>5
  <2>2. PICK w \in View, u \in State :
           /\ o = <<w, u>> /\ w.date = v.date /\ w.at = v.at
           /\ w.amount = Left(v.amount, i, i + (x - 1))
           /\ u.lastDue = s.lastDue /\ u.lastAmount = s.lastAmount
    BY <2>1
  <2>3. PICK name \in STRING : name = steps[x] /\ name = stages[i + x - 1]
    <3>1. steps[x] \in STRING
      BY ElementOfSeq
    <3>2. x \in 1 .. n - i
      BY <1>3
    <3> QED
      BY <1>3, <3>1, <3>2
  <2>4. Left(v.amount, i, i + x) = IF name = "ProcessPercent" THEN Percentage(w.amount) ELSE w.amount
    <3> HIDE DEF Good
    <3>1. PICK before, y, after :
             /\ before = i .. i + (x - 1) - 1 /\ y = i + x - 1 /\ after = i .. i + x - 1
             /\ after = before \cup {y} /\ stages[y] = name
      BY <2>1, <2>3
    <3>2. Left(v.amount, i, i + x) = IF \E j \in after : stages[j] = "ProcessPercent"
                                     THEN Percentage(v.amount) ELSE v.amount
      BY <3>1 DEF Left
    <3>3. w.amount = IF \E j \in before : stages[j] = "ProcessPercent"
                     THEN Percentage(v.amount) ELSE v.amount
      BY <2>2, <3>1 DEF Left
    <3>4. name = "ProcessPercent" => \A j \in before : stages[j] # "ProcessPercent"
      BY <2>1, <2>3, <3>1, PercentOnce
    <3> QED
      BY <3>1, <3>2, <3>3, <3>4
  <2>5. PICK a, b : a = Reduced(name, w) /\ b = Calculated(name, w, u)
    OBVIOUS
  <2>6. /\ a \in View /\ a.date = v.date /\ a.at = v.at /\ a.amount = Left(v.amount, i, i + x)
        /\ b \in State /\ b.lastDue = s.lastDue /\ b.lastAmount = s.lastAmount
    BY <2>2, <2>4, <2>5, StateKept, ViewKept
  <2> QED
    BY <2>1, <2>2, <2>3, <2>5, <2>6
<1>9. {<<v, s>>} \subseteq View \X State
  OBVIOUS
<1> HIDE DEF Good
<1>10. Results({<<v, s>>}, steps) \subseteq Good[Len(steps)]
  BY <1>5, <1>7, <1>8, <1>9, OutcomesKeep
<1>11. done \in Good[n - i]
  BY <1>3, <1>4, <1>10
<1> QED
  BY <1>2, <1>4, <1>6, <1>11 DEF Good

\* What is known of the runs.
RunTyped == /\ working \subseteq Runners
            /\ step \in [Runners -> 1 .. Len(stages) + 1]
            /\ view \in [Runners -> View]
            /\ state \in [Runners -> State]

LEMMA ResumedTyped ==
    ASSUME TypeOK, NEW r \in Runners, NEW i \in 1 .. Len(stages) + 1,
           NEW v \in View, NEW s \in State, Resumed(r, i, v, s), stages' = stages
    PROVE  RunTyped'
<1>1. PICK n \in 1 .. Len(stages) + 1, w \in View, u \in State :
              /\ step' = [step EXCEPT ![r] = n]
              /\ view' = [view EXCEPT ![r] = w]
              /\ state' = [state EXCEPT ![r] = u]
              /\ working' = working \cup {r}
  BY ResumedKeeps
<1>2. /\ working \subseteq Runners
      /\ step \in [Runners -> 1 .. Len(stages) + 1]
      /\ view \in [Runners -> View]
      /\ state \in [Runners -> State]
  BY DEF TypeOK
<1>3. step' \in [Runners -> 1 .. Len(stages) + 1]
  BY <1>1, <1>2
<1>4. view' \in [Runners -> View] /\ state' \in [Runners -> State] /\ working' \subseteq Runners
  BY <1>1, <1>2
<1> QED
  BY <1>3, <1>4 DEF RunTyped

LEMMA UnsavedTyped == Unsaved \in State /\ Unread \in View
BY DEF Unsaved, State, Maybe, Unread, View

LEMMA IdleTyped ==
    ASSUME TypeOK, NEW r \in Runners, Idle(r), stages' = stages
    PROVE  RunTyped'
<1>1. 1 \in 1 .. Len(stages) + 1
  BY StagesTyped
<1> QED
  BY <1>1, UnsavedTyped DEF Idle, RunTyped, TypeOK

LEMMA CurrentTyped == ASSUME TypeOK PROVE Current \in Statements
<1>1. PICK n \in Nat \ {0}, shownFrom \in Seq(Nat), due \in Seq(Nat) :
         /\ shownFrom = ShownFrom /\ due = Due /\ shownFrom[1] = 0
         /\ n = Len(due) /\ n = Len(shownFrom)
  BY HarvesterAssumption DEF HarvesterAssumption
<1>2. day \in Nat
  BY DEF TypeOK
<1> DEFINE shown == {i \in Statements : ShownFrom[i] <= day}
<1>3. Statements = 1 .. n /\ shown \in SUBSET (1 .. n)
  BY <1>1 DEF Statements
<1>4. shown # {}
  <2>1. 1 \in 1 .. n /\ ShownFrom[1] <= day
    BY <1>1, <1>2
  <2> QED
    BY <1>3, <2>1
<1>5. PICK last \in shown : \A j \in shown : j <= last
  <2> HIDE DEF shown
  <2> QED
    BY <1>3, <1>4, SomeLast
<1>6. \E i \in Statements : /\ ShownFrom[i] <= day
                            /\ \A j \in Statements : ShownFrom[j] <= day => j <= i
  BY <1>5
<1> QED
  BY <1>6 DEF Current

LEMMA ReadTyped == ASSUME TypeOK PROVE Read \in View
<1>1. PICK n \in Nat \ {0}, due \in Seq(Nat) : due = Due /\ n = Len(due) /\ Statements = 1 .. n
  BY HarvesterAssumption DEF HarvesterAssumption, Statements
<1>2. day \in Nat
  BY DEF TypeOK
<1>7. Due[Current] \in Nat
  <2>1. due \in Seq(Nat) /\ n = Len(due)
    BY <1>1
  <2>2. \A i \in 1 .. n : due[i] \in Nat
    BY ONLY <2>1
  <2> QED
    BY <1>1, <2>2, CurrentTyped
<1>8. DueAmount \in Int
  <2>1. Earlier \in Int
    BY HarvesterAssumption DEF HarvesterAssumption
  <2>2. PICK b \in Seq(Int) : b = billed
    BY DEF TypeOK
  <2>3. b # <<>> => b[Len(b)] \in Int
    OBVIOUS
  <2> QED
    BY <2>1, <2>2, <2>3 DEF DueAmount
<1>9. chq \in Int /\ owing \in Int /\ history \subseteq Entry
  BY DEF TypeOK
<1> QED
  BY <1>2, <1>7, <1>8, <1>9 DEF Read, View

\* A run is at a step, and goes on from there.
LEMMA AtTyped ==
    ASSUME TypeOK, NEW r \in Runners, NEW name, At(r, name)
    PROVE  /\ r \in working /\ view[r] \in View /\ state[r] \in State
           /\ step[r] + 1 \in 1 .. Len(stages) + 1
<1>1. step[r] \in 1 .. Len(stages) + 1 /\ step[r] <= Len(stages) /\ r \in working
  BY DEF At, TypeOK
<1>2. step[r] + 1 \in 1 .. Len(stages) + 1
  BY <1>1, StagesTyped
<1> QED
  BY <1>1, <1>2 DEF TypeOK

LEMMA AppliedTyped ==
    ASSUME TypeOK, NEW r \in Runners, NEW name, At(r, name), NEW s \in State, Applied(r, s)
    PROVE  /\ RunTyped' /\ saved' \in State /\ day' \in 0 .. MaxDay
           /\ \E start \in Starts : stages' = start.stages
<1>1. /\ Resumed(r, step[r] + 1, view[r], s)
      /\ day' = day /\ stages' = stages /\ saved' = saved
  BY DEF Applied
<1>2. RunTyped'
  BY <1>1, AtTyped, ResumedTyped
<1> QED
  BY <1>1, <1>2 DEF TypeOK

\* What is moved, and what is remembered of it.
LEMMA MovedTyped ==
    ASSUME NEW v \in View, NEW s \in State
    PROVE  /\ WantsTransfer(s) => ToTransfer(v, s) \in Int /\ Transferred(v, s) \in State
           /\ ToPay(v) \in Int /\ DateToPay(v) \in Nat
           /\ \A amount \in Int : /\ Paid(v, s, amount) \in State
                                  /\ Paid(v, s, amount).lastDue = v.date
                                  /\ Paid(v, s, amount).lastAmount = v.amount
<1>1. /\ v.chq \in Int /\ v.amount \in Int /\ v.owing \in Int
      /\ v.date \in Nat /\ v.at \in Nat
      /\ s.transfer \in Maybe /\ s.balance \in Maybe
  BY DEF View, State
<1>2. ToPay(v) \in Int /\ DateToPay(v) \in Nat
  BY <1>1 DEF ToPay, DateToPay, Smaller, Larger
<1>3. ASSUME WantsTransfer(s) PROVE ToTransfer(v, s) \in Int /\ Transferred(v, s) \in State
  <2>1. s.transfer \in Int
    BY <1>1, <1>3 DEF WantsTransfer, Maybe
  <2>2. PICK n \in Int : n = ToTransfer(v, s)
    BY <1>1, <2>1, StagesAssumption DEF StagesAssumption, ToTransfer, Smaller
  <2>3. PICK b \in Maybe : b = OrZero(s.balance) + n
    BY <1>1 DEF OrZero, Maybe
  <2>4. Transferred(v, s) = [[s EXCEPT !.transfer = None] EXCEPT !.balance = b]
    BY <2>2, <2>3 DEF Transferred
  <2>5. None \in Maybe
    BY DEF Maybe
  <2> QED
    BY <2>2, <2>4, <2>5 DEF State
<1>4. ASSUME NEW amount \in Int
      PROVE  /\ Paid(v, s, amount) \in State
             /\ Paid(v, s, amount).lastDue = v.date
             /\ Paid(v, s, amount).lastAmount = v.amount
  <2>1. PICK on \in Maybe, date \in Maybe, due \in Maybe, a \in Maybe :
            on = DateToPay(v) /\ date = v.date /\ due = v.amount /\ a = amount
    BY <1>1, <1>2 DEF Maybe
  <2>2. Paid(v, s, amount) = [[[[s EXCEPT !.pending = a] EXCEPT !.payOn = on]
                                  EXCEPT !.lastDue = date] EXCEPT !.lastAmount = due]
    BY <2>1 DEF Paid
  <2>3. [[[[s EXCEPT !.pending = a] EXCEPT !.payOn = on]
              EXCEPT !.lastDue = date] EXCEPT !.lastAmount = due] \in State
    BY DEF State
  <2> QED
    BY <2>1, <2>2, <2>3 DEF State
<1> QED
  BY <1>2, <1>3, <1>4

\* A payment that is requested.
Requested(v, s) == [due |-> v.date, amount |-> ToPay(v), on |-> DateToPay(v),
                    known |-> Len(billed), last |-> s.lastDue, posted |-> FALSE]

LEMMA RequestTyped ==
    ASSUME TypeOK, NEW v \in View, NEW s \in State, ToPay(v) >= 0
    PROVE  Requested(v, s) \in Payment
<1>1. ToPay(v) \in Nat /\ DateToPay(v) \in Nat
  BY MovedTyped
<1>2. Len(billed) \in Nat /\ v.date \in Nat /\ s.lastDue \in Maybe
  BY DEF TypeOK, View, State
<1> QED
  BY <1>1, <1>2 DEF Requested, Payment

\* A payment that is posted.
LEMMA PostTyped ==
    ASSUME TypeOK, NEW k \in DOMAIN payments, Post(k)
    PROVE  /\ payments[k].amount \in Nat
           /\ payments' \in Seq(Payment) /\ DOMAIN payments' = DOMAIN payments
           /\ \A j \in DOMAIN payments : payments'[j].due = payments[j].due
<1>1. PICK ps \in Seq(Payment) : ps = payments
  BY DEF TypeOK
<1>2. \A j \in DOMAIN ps : ps[j] \in Payment
  OBVIOUS
<1>3. PICK p \in Payment : p = [ps[k] EXCEPT !.posted = TRUE]
  BY <1>1, <1>2 DEF Payment
<1>4. PICK new : new = [ps EXCEPT ![k] = p]
  OBVIOUS
<1>5. new \in Seq(Payment) /\ DOMAIN new = DOMAIN ps
  BY <1>1, <1>4, ExceptSeq
<1>6. payments' = new
  BY <1>1, <1>3, <1>4 DEF Post
<1>7. p.due = ps[k].due
  BY <1>1, <1>2, <1>3 DEF Payment
<1>8. \A j \in DOMAIN ps : new[j].due = ps[j].due
  BY <1>4, <1>7
<1>9. ps[k].amount \in Nat
  BY <1>1, <1>2 DEF Payment
<1> QED
  BY <1>1, <1>5, <1>6, <1>8, <1>9

LEMMA InitTyped == Init => TypeOK
<1> SUFFICES ASSUME Init PROVE TypeOK
  OBVIOUS
<1>1. PICK start \in Starts : /\ stages = start.stages
                              /\ saved = [[Unsaved EXCEPT !.lastDue = start.lastDue]
                                             EXCEPT !.lastAmount = start.lastAmount]
  BY DEF Init
<1>2. start.stages \in Seq(STRING) /\ start.lastDue \in Maybe /\ start.lastAmount \in Maybe
  BY HarvesterAssumption DEF HarvesterAssumption
<1>3. saved \in State
  BY <1>1, <1>2, UnsavedTyped DEF State
<1>4. /\ MaxDay \in Nat /\ MaxFaults \in Nat /\ Opening \in Nat
  BY HarvesterAssumption DEF HarvesterAssumption, MaxDay
<1>5. 1 \in 1 .. Len(stages) + 1
  BY <1>1, <1>2
<1>6. step \in [Runners -> 1 .. Len(stages) + 1]
  BY <1>5 DEF Init
<1>7. view \in [Runners -> View] /\ state \in [Runners -> State] /\ working \subseteq Runners
  BY UnsavedTyped DEF Init
<1>8. /\ day \in 0 .. MaxDay /\ chq \in Nat /\ owing \in Int
      /\ history \subseteq Entry /\ cash \in Nat /\ transit \in Nat /\ faults \in 0 .. MaxFaults
  BY <1>4 DEF Init
<1>9. billed \in Seq(Int) /\ payments \in Seq(Payment)
  BY DEF Init
<1> QED
  BY <1>1, <1>3, <1>6, <1>7, <1>8, <1>9 DEF TypeOK

LEMMA FaultTyped ==
    ASSUME TypeOK, Fault
    PROVE  faults' \in 0 .. MaxFaults /\ faults' = faults + 1
<1>1. MaxFaults \in Nat
  BY HarvesterAssumption DEF HarvesterAssumption
<1> QED
  BY <1>1 DEF Fault, TypeOK

\* What is not a run's.
BankTyped == /\ chq \in Nat /\ owing \in Int /\ billed \in Seq(Int) /\ history \subseteq Entry
             /\ cash \in Nat /\ transit \in Nat /\ payments \in Seq(Payment)
             /\ faults \in 0 .. MaxFaults

RestTyped == /\ day \in 0 .. MaxDay /\ saved \in State
             /\ \E start \in Starts : stages = start.stages

LEMMA TickTyped == ASSUME TypeOK, Tick PROVE TypeOK'
<1>1. PICK n \in Nat, income \in Seq(Nat), spending \in Seq(Nat) :
         /\ income = Income /\ spending = Spending /\ n = Len(spending) /\ n = Len(income)
         /\ n = MaxDay
  BY HarvesterAssumption DEF HarvesterAssumption, MaxDay
<1>2. PICK d \in 1 .. n : d = day + 1 /\ d = day'
  BY <1>1 DEF Tick, TypeOK
<1>3. income[d] \in Nat
  BY <1>1, ElementOfSeq
<1>4. spending[d] \in Nat
  BY <1>1, ElementOfSeq
<1>5. chq' \in Nat /\ owing' \in Int
  <2>1. PICK a \in Nat, o \in Int : a = chq /\ o = owing
    BY DEF TypeOK
  <2>2. chq' = a + income[d] /\ owing' = o + spending[d]
    BY <1>1, <1>2, <2>1 DEF Tick
  <2>3. PICK x \in Nat, y \in Nat : x = income[d] /\ y = spending[d]
    BY <1>3, <1>4
  <2>4. a + x \in Nat /\ o + y \in Int
    OBVIOUS
  <2>5. chq' = a + x /\ owing' = o + y
    BY <2>2, <2>3
  <2> QED
    BY <2>4, <2>5
<1>6. history' \subseteq Entry
  <2>1. [on |-> d, amount |-> spending[d]] \in Entry
    BY <1>2, <1>4 DEF Entry
  <2>2. history' = history \cup {[on |-> d, amount |-> spending[d]]}
    BY <1>1, <1>2 DEF Tick
  <2> QED
    BY <2>1, <2>2 DEF TypeOK
<1>7. billed' \in Seq(Int)
  <2>1. PICK b \in Seq(Int), o \in Int : b = billed /\ o = owing'
    BY <1>5 DEF TypeOK
  <2>2. billed' = b \/ billed' = Append(b, o)
    BY <2>1 DEF Tick
  <2>3. Append(b, o) \in Seq(Int)
    OBVIOUS
  <2> QED
    BY <2>2, <2>3
<1>8. BankTyped'
  BY <1>5, <1>6, <1>7 DEF Tick, coin, TypeOK, BankTyped
<1>9. RestTyped'
  <2>1. day' \in 0 .. MaxDay
    BY <1>1, <1>2
  <2> QED
    BY <2>1 DEF Tick, TypeOK, RestTyped
<1>10. RunTyped'
  BY DEF Tick, run, TypeOK, RunTyped
<1> QED
  BY <1>8, <1>9, <1>10 DEF TypeOK, BankTyped, RestTyped, RunTyped

LEMMA BankStepsTyped ==
    ASSUME TypeOK, Deposit \/ Withdraw \/ PayCard \/ \E k \in DOMAIN payments : Post(k)
    PROVE  TypeOK'
<1>1. CASE Deposit
  <2>1. cash' \in Nat /\ transit' \in Nat
    BY <1>1 DEF Deposit, TypeOK
  <2> QED
    BY <1>1, <2>1 DEF Deposit, bank, run, TypeOK
<1>2. CASE Withdraw
  <2>1. PICK amount \in {1, cash} : amount <= cash /\ cash' = cash - amount
    BY <1>2 DEF Withdraw
  <2>2. cash' \in Nat
    BY <2>1 DEF TypeOK
  <2> QED
    BY <1>2, <2>2, FaultTyped DEF Withdraw, bank, run, TypeOK
<1>3. CASE PayCard
  BY <1>3, FaultTyped DEF PayCard, coin, run, TypeOK
<1>4. ASSUME NEW k \in DOMAIN payments, Post(k) PROVE TypeOK'
  <2>1. PICK n \in Nat : n = payments[k].amount
    BY <1>4, PostTyped
  <2>2. cash' \in Nat /\ owing' \in Int
    <3>1. cash \in Nat /\ owing \in Int
      BY DEF TypeOK
    <3>2. n <= cash /\ cash' = cash - n /\ owing' = owing - n
      BY <1>4, <2>1 DEF Post
    <3> QED
      BY <3>1, <3>2
  <2>3. history' \subseteq Entry
    <3>1. [on |-> day, amount |-> n] \in Entry
      BY DEF Entry, TypeOK
    <3>2. history' = history \cup {[on |-> day, amount |-> n]}
      BY <1>4, <2>1 DEF Post
    <3> QED
      BY <3>1, <3>2 DEF TypeOK
  <2>4. payments' \in Seq(Payment)
    BY <1>4, PostTyped
  <2> QED
    BY <1>4, <2>2, <2>3, <2>4 DEF Post, run, TypeOK
<1> QED
  BY <1>1, <1>2, <1>3, <1>4

\* The owner's overrides leave a state.
LEMMA OverridesTyped == ASSUME TypeOK, NEW b \in Overrides, SetOverrides(b) PROVE TypeOK'
<1>1. b \in Int
  BY HarvesterAssumption DEF HarvesterAssumption
<1>2. PICK v \in Maybe, d \in Maybe : v = b /\ d = day
  BY <1>1 DEF Maybe, TypeOK
<1>3. None \in Maybe
  BY DEF Maybe
<1>4. saved' \in State
  <2>1. CASE saved' = [saved EXCEPT !.balance = b]
    BY <1>2, <2>1 DEF TypeOK, State
  <2>2. CASE saved' = [saved EXCEPT !.balance = b, !.pending = b, !.payOn = day,
                                    !.lastDue = day, !.lastAmount = None, !.lastTop = None]
    <3>1. saved' = [[[[[[saved EXCEPT !.balance = v] EXCEPT !.pending = v] EXCEPT !.payOn = d]
                         EXCEPT !.lastDue = d] EXCEPT !.lastAmount = None] EXCEPT !.lastTop = None]
      BY <1>2, <2>2
    <3> QED
      BY <1>3, <3>1 DEF TypeOK, State
  <2> QED
    BY <2>1, <2>2 DEF SetOverrides
<1> QED
  BY <1>4, FaultTyped DEF SetOverrides, bank, coin, run, TypeOK

LEMMA InitializeTyped == ASSUME TypeOK, NEW r \in Runners, Initialize(r) PROVE TypeOK'
<1>1. /\ Resumed(r, 1, Read, saved)
      /\ UNCHANGED <<day, bank, coin, stages, saved>>
      /\ faults' = faults \/ Fault
  BY DEF Initialize
<1>2. 1 \in 1 .. Len(stages) + 1 /\ saved \in State
  BY StagesTyped DEF TypeOK
<1>3. stages' = stages
  BY <1>1
<1>4. RunTyped'
  BY <1>1, <1>2, <1>3, ReadTyped, ResumedTyped
<1>5. faults' \in 0 .. MaxFaults
  BY <1>1, FaultTyped DEF TypeOK
<1> QED
  BY <1>1, <1>4, <1>5 DEF bank, coin, RunTyped, TypeOK

LEMMA EnsuredTyped ==
    ASSUME TypeOK, NEW s \in State
    PROVE  /\ EnsureHarvesterBalance(s, Available) \in State
           /\ EnsureHarvesterBalance(s, Available).lastDue = s.lastDue
           /\ EnsureHarvesterBalance(s, Available).lastAmount = s.lastAmount
<1>1. PICK actual \in Int : actual = Available
  <2>1. PICK ps \in Seq(Payment), l \in Nat : ps = payments /\ DOMAIN ps = 1 .. l
    BY DEF TypeOK
  <2>2. IsFiniteSet(Unposted)
    <3>1. IsFiniteSet(1 .. l)
      BY FS_Interval
    <3>2. Unposted \subseteq 1 .. l
      BY <2>1 DEF Unposted
    <3> QED
      BY <3>1, <3>2, FS_Subset
  <2>3. \A k \in Unposted : payments[k].amount \in Int
    <3>1. \A k \in DOMAIN ps : ps[k] \in Payment
      OBVIOUS
    <3> QED
      BY <2>1, <3>1 DEF Unposted, Payment
  <2>4. PICK n \in Int : n = Total(payments, Unposted)
    BY <2>2, <2>3, SumTyped
  <2>5. Available \in Int
    <3>1. PICK c \in Nat : c = cash
      BY DEF TypeOK
    <3>2. Available = c - n
      BY <2>4, <3>1 DEF Available, Total
    <3> QED
      BY <3>2
  <2> QED
    BY <2>5
<1>2. s.balance \in Maybe /\ s.pending \in Maybe
  BY DEF State
<1>3. PICK b \in Maybe : b = actual + OrZero(s.pending)
  BY <1>2 DEF Maybe, OrZero
<1>4. \/ EnsureHarvesterBalance(s, Available) = s
      \/ EnsureHarvesterBalance(s, Available) = [s EXCEPT !.balance = b]
  BY <1>1, <1>3 DEF EnsureHarvesterBalance
<1> QED
  BY <1>4 DEF State

\* What a step does to the bank, the broker and the faults.
LEMMA WorkTyped == ASSUME TypeOK, NEW r \in Runners, Work(r) \/ Crash(r) PROVE TypeOK'
<1> DEFINE Goes(s, name) == s \in State /\ At(r, name) /\ Applied(r, s)
<1>1. ASSUME NEW s, NEW name, Goes(s, name), BankTyped' PROVE TypeOK'
  BY <1>1, AppliedTyped DEF TypeOK, BankTyped, RunTyped
<1>2. ASSUME UNCHANGED <<bank, coin>>, faults' \in 0 .. MaxFaults PROVE BankTyped'
  BY <1>2 DEF bank, coin, BankTyped, TypeOK
<1>3. faults \in 0 .. MaxFaults /\ (Fault => faults' \in 0 .. MaxFaults)
  BY FaultTyped DEF TypeOK
<1>4. \A name : At(r, name) => view[r] \in View /\ state[r] \in State
  BY AtTyped
<1>5. CASE Ensure(r)
  <2>1. At(r, "EnsureHarvesterBalance")
        /\ Applied(r, EnsureHarvesterBalance(state[r], Available))
        /\ UNCHANGED <<bank, coin, faults>>
    BY <1>5 DEF Ensure
  <2>2. EnsureHarvesterBalance(state[r], Available) \in State
    BY <1>4, <2>1, EnsuredTyped
  <2>3. BankTyped'
    BY <1>2, <1>3, <2>1
  <2> QED
    BY <1>1, <2>1, <2>2, <2>3
<1>6. CASE SendNothing(r)
  <2>1. /\ At(r, "SendETransfer") /\ Applied(r, state[r]) /\ UNCHANGED <<bank, coin, faults>>
    BY <1>6 DEF SendNothing
  <2>2. BankTyped'
    BY <1>2, <1>3, <2>1
  <2> QED
    BY <1>1, <1>4, <2>1, <2>2
<1>7. CASE SendETransfer(r)
  <2>1. /\ At(r, "SendETransfer") /\ WantsTransfer(state[r])
        /\ UNCHANGED <<owing, billed, history, cash, payments>>
        /\ \/ Applied(r, Transferred(view[r], state[r])) /\ UNCHANGED faults
           \/ Applied(r, state[r]) /\ Fault
    BY <1>7 DEF SendETransfer
  <2>2. PICK amount \in Int : amount = ToTransfer(view[r], state[r])
    BY <1>4, <2>1, MovedTyped
  <2>3. chq' \in Nat /\ transit' \in Nat
    <3>1. chq \in Nat /\ transit \in Nat
      BY DEF TypeOK
    <3>2. amount > 0 /\ amount <= chq /\ chq' = chq - amount /\ transit' = transit + amount
      BY <1>7, <2>2 DEF SendETransfer
    <3> QED
      BY <3>1, <3>2
  <2>4. Transferred(view[r], state[r]) \in State
    BY <1>4, <2>1, MovedTyped
  <2>5. faults' \in 0 .. MaxFaults
    BY <1>3, <2>1
  <2>6. BankTyped'
    BY <2>1, <2>3, <2>5 DEF BankTyped, TypeOK
  <2> QED
    BY <1>1, <1>4, <2>1, <2>4, <2>6
<1>8. CASE PayNothing(r)
  <2>1. /\ At(r, "PayVisa") /\ UNCHANGED <<bank, coin, faults>>
        /\ Applied(r, state[r]) \/ Applied(r, Paid(view[r], state[r], 0))
    BY <1>8 DEF PayNothing
  <2>2. Paid(view[r], state[r], 0) \in State
    <3>1. 0 \in Int
      OBVIOUS
    <3> QED
      BY <1>4, <2>1, <3>1, MovedTyped
  <2>3. BankTyped'
    BY <1>2, <1>3, <2>1
  <2> QED
    BY <1>1, <1>4, <2>1, <2>2, <2>3
<1>9. CASE PayVisa(r)
  <2>1. /\ At(r, "PayVisa") /\ ToPay(view[r]) >= 0
        /\ payments' = Append(payments, Requested(view[r], state[r]))
        /\ UNCHANGED <<bank, cash, transit>>
        /\ \/ Applied(r, Paid(view[r], state[r], ToPay(view[r]))) /\ UNCHANGED faults
           \/ Applied(r, state[r]) /\ Fault
    BY <1>9 DEF PayVisa, Requested
  <2>2. payments' \in Seq(Payment)
    <3>1. Requested(view[r], state[r]) \in Payment /\ payments \in Seq(Payment)
      BY <1>4, <2>1, RequestTyped DEF TypeOK
    <3> QED
      BY <2>1, <3>1
  <2>3. Paid(view[r], state[r], ToPay(view[r])) \in State
    BY <1>4, <2>1, MovedTyped
  <2>4. faults' \in 0 .. MaxFaults
    BY <1>3, <2>1
  <2>5. BankTyped'
    BY <2>1, <2>2, <2>4 DEF bank, BankTyped, TypeOK
  <2> QED
    BY <1>1, <1>4, <2>1, <2>3, <2>5
<1>10. CASE StageFails(r)
  <2>1. PICK name : At(r, name)
    BY <1>10 DEF StageFails
  <2>2. Applied(r, state[r]) /\ UNCHANGED <<bank, coin>> /\ (faults' = faults \/ Fault)
    BY <1>10 DEF StageFails
  <2>3. BankTyped'
    BY <1>2, <1>3, <2>2
  <2> QED
    BY <1>1, <1>4, <2>1, <2>2, <2>3
<1>11. CASE Save(r)
  <2>1. Idle(r) /\ UNCHANGED <<day, bank, coin, stages, faults>> /\ saved' = state[r]
    BY <1>11 DEF Save
  <2>2. RunTyped' /\ BankTyped'
    BY <1>2, <1>3, <2>1, IdleTyped
  <2> QED
    BY <2>1, <2>2 DEF RunTyped, BankTyped, TypeOK
<1>12. CASE Crash(r)
  <2>1. Idle(r) /\ UNCHANGED <<day, bank, coin, stages, saved>> /\ Fault
    BY <1>12 DEF Crash
  <2>2. RunTyped' /\ BankTyped'
    BY <1>2, <1>3, <2>1, IdleTyped
  <2> QED
    BY <2>1, <2>2 DEF RunTyped, BankTyped, TypeOK
<1> QED
  BY <1>5, <1>6, <1>7, <1>8, <1>9, <1>10, <1>11, <1>12 DEF Work

LEMMA StepTyped == TypeOK /\ [Next]_vars => TypeOK'
<1> SUFFICES ASSUME TypeOK, [Next]_vars PROVE TypeOK'
  OBVIOUS
<1>1. CASE UNCHANGED vars
  BY <1>1 DEF vars, bank, coin, run, TypeOK
<1>2. CASE Next
  BY <1>2, TickTyped, BankStepsTyped, OverridesTyped, InitializeTyped, WorkTyped DEF Next
<1> QED
  BY <1>1, <1>2

\* The variables of the harvester have their types: no account is overdrawn by
\* what the harvester moves, and no amount below zero is paid.
THEOREM HarvestTyped == Spec => []TypeOK
BY InitTyped, StepTyped, PTL DEF Spec

-----------------------------------------------------------------------------
(* A due date is paid once, but for what goes wrong.                       *)

\* The payments that have been requested for a due date.
PaymentsOf(d) == {k \in DOMAIN payments : payments[k].due = d}

\* As far as s knows, d has still to be paid.
MayPay(s, d) == s.lastDue = None \/ s.lastDue < d

\* How often it may still be paid without a fault: once by each of the runs that
\* have loaded such a state; or once, when there is no run, if it is saved.
Ready(d) == {r \in working : MayPay(state[r], d)}
ToCome(d) == IF working = {} THEN IF MayPay(saved, d) THEN 1 ELSE 0
             ELSE Cardinality(Ready(d))

OneEach == \A d \in Nat : Cardinality(PaymentsOf(d)) + ToCome(d) <= 1 + faults

ScoreTyped(d) ==
    /\ IsFiniteSet(PaymentsOf(d)) /\ Cardinality(PaymentsOf(d)) \in Nat
    /\ IsFiniteSet(Ready(d)) /\ Cardinality(Ready(d)) \in Nat
    /\ ToCome(d) \in Nat /\ (working = {} => ToCome(d) <= 1)

LEMMA ScoreNumbers == TypeOK => faults \in Nat /\ \A d \in Nat : ScoreTyped(d)
<1> SUFFICES ASSUME TypeOK, NEW d \in Nat PROVE faults \in Nat /\ ScoreTyped(d)
  BY HarvesterAssumption DEF HarvesterAssumption, TypeOK
<1>0. faults \in Nat
  BY HarvesterAssumption DEF HarvesterAssumption, TypeOK
<1>1. PICK n \in Nat : DOMAIN payments = 1 .. n
  BY DEF TypeOK
<1>2. PaymentsOf(d) \subseteq 1 .. n /\ IsFiniteSet(1 .. n)
  BY <1>1, FS_Interval DEF PaymentsOf
<1>3. IsFiniteSet(PaymentsOf(d)) /\ Cardinality(PaymentsOf(d)) \in Nat
  BY <1>2, FS_Subset, FS_CardinalityType
<1>4. Ready(d) \subseteq Runners /\ IsFiniteSet(Runners)
  BY HarvesterAssumption DEF HarvesterAssumption, Ready, TypeOK
<1>5. IsFiniteSet(Ready(d)) /\ Cardinality(Ready(d)) \in Nat
  BY <1>4, FS_Subset, FS_CardinalityType
<1>6. ToCome(d) \in Nat /\ (working = {} => ToCome(d) <= 1)
  BY <1>5 DEF ToCome
<1> QED
  BY <1>0, <1>3, <1>5, <1>6 DEF ScoreTyped

LEMMA ScoreNumbersNext == TypeOK' => (faults \in Nat /\ \A d \in Nat : ScoreTyped(d))'
BY ScoreNumbers, PTL

\* What is left to show of a step.
LEMMA ScoreKept ==
    ASSUME TypeOK, TypeOK', OneEach,
           \A d \in Nat : Cardinality(PaymentsOf(d))' + ToCome(d)' + faults
                             <= Cardinality(PaymentsOf(d)) + ToCome(d) + faults'
    PROVE  OneEach'
<1> SUFFICES ASSUME NEW d \in Nat
             PROVE  Cardinality(PaymentsOf(d))' + ToCome(d)' <= 1 + faults'
  BY DEF OneEach
<1>1. PICK a \in Nat, b \in Nat, f \in Nat :
          a = Cardinality(PaymentsOf(d)) /\ b = ToCome(d) /\ f = faults
  BY ScoreNumbers DEF ScoreTyped
<1>2. PICK h \in Nat, i \in Nat, g \in Nat :
          h = Cardinality(PaymentsOf(d))' /\ i = ToCome(d)' /\ g = faults'
  <2>1. ScoreTyped(d)' /\ faults' \in Nat
    BY ScoreNumbersNext
  <2>2. Cardinality(PaymentsOf(d))' \in Nat /\ ToCome(d)' \in Nat
    BY <2>1 DEF ScoreTyped
  <2> QED
    BY <2>1, <2>2
<1>3. a + b <= 1 + f /\ h + i + f <= a + b + g
  BY <1>1, <1>2 DEF OneEach
<1>4. h + i <= 1 + g
  BY <1>3
<1> QED
  BY <1>2, <1>4

\* One more payment for its own due date.
LEMMA OneMorePayment ==
    ASSUME TypeOK, NEW p \in Payment, payments' = Append(payments, p), NEW d \in Nat
    PROVE  /\ p.due = d => Cardinality(PaymentsOf(d))' = Cardinality(PaymentsOf(d)) + 1
           /\ p.due # d => Cardinality(PaymentsOf(d))' = Cardinality(PaymentsOf(d))
<1>1. PICK ps \in Seq(Payment), n \in Nat : ps = payments /\ n = Len(ps) /\ DOMAIN ps = 1 .. n
  BY DEF TypeOK
<1>2. PICK new \in Seq(Payment) :
         /\ new = payments' /\ DOMAIN new = 1 .. n + 1
         /\ new[n + 1] = p /\ \A k \in 1 .. n : new[k] = ps[k]
  <2>1. PICK new \in Seq(Payment) : new = Append(ps, p)
    <3>1. Append(ps, p) \in Seq(Payment)
      OBVIOUS
    <3> QED
      BY <3>1
  <2>2. DOMAIN new = 1 .. n + 1
    BY <1>1, <2>1
  <2>3. new[n + 1] = p /\ \A k \in 1 .. n : new[k] = ps[k]
    BY <1>1, <2>1
  <2> QED
    BY <1>1, <2>1, <2>2, <2>3
<1>3. n + 1 \notin PaymentsOf(d)
  BY <1>1 DEF PaymentsOf
<1>4. PaymentsOf(d)' = IF p.due = d THEN PaymentsOf(d) \cup {n + 1} ELSE PaymentsOf(d)
  <2>1. \A k : k \in 1 .. n + 1 <=> k \in 1 .. n \/ k = n + 1
    OBVIOUS
  <2> QED
    BY <1>1, <1>2, <1>3, <2>1 DEF PaymentsOf
<1>5. IsFiniteSet(PaymentsOf(d))
  BY ScoreNumbers DEF ScoreTyped
<1>6. Cardinality(PaymentsOf(d) \cup {n + 1}) = Cardinality(PaymentsOf(d)) + 1
  BY <1>3, <1>5, FS_AddElement
<1> QED
  BY <1>4, <1>6

\* A run that goes on, and knows of no fewer payments than it did.
LEMMA RunKnows ==
    ASSUME TypeOK, NEW r \in Runners, NEW name, At(r, name), NEW s \in State, Applied(r, s),
           NEW d \in Nat, MayPay(s, d) => MayPay(state[r], d)
    PROVE  /\ ToCome(d)' <= ToCome(d)
           /\ MayPay(state[r], d) /\ ~ MayPay(s, d) => ToCome(d)' + 1 = ToCome(d)
<1>1. /\ r \in working /\ view[r] \in View
      /\ step[r] + 1 \in 1 .. Len(stages) + 1
  BY AtTyped
<1>2. Resumed(r, step[r] + 1, view[r], s)
  BY DEF Applied
<1>3. PICK u \in State : /\ u.lastDue = s.lastDue
                         /\ state' = [state EXCEPT ![r] = u]
                         /\ working' = working \cup {r}
  BY <1>1, <1>2, ResumedKeeps
<1>4. working' = working /\ working # {}
  BY <1>1, <1>3
<1>5. state'[r] = u /\ \A q \in Runners \ {r} : state'[q] = state[q]
  BY <1>3 DEF TypeOK
<1>6. MayPay(u, d) <=> MayPay(s, d)
  BY <1>3 DEF MayPay
<1>7. Ready(d)' = {q \in working : MayPay(state'[q], d)}
  BY <1>4 DEF Ready, MayPay
<1>8. working \subseteq Runners
  BY DEF TypeOK
<1>9. Ready(d)' = IF MayPay(s, d) THEN Ready(d) ELSE Ready(d) \ {r}
  BY <1>1, <1>5, <1>6, <1>7, <1>8 DEF Ready
<1>10. ToCome(d) = Cardinality(Ready(d)) /\ ToCome(d)' = Cardinality(Ready(d)')
  BY <1>4 DEF ToCome
<1>11. PICK R : R = Ready(d) /\ IsFiniteSet(R)
  BY ScoreNumbers DEF ScoreTyped
<1> DEFINE n == Cardinality(R)
<1>12. n \in Nat
  BY <1>11, FS_CardinalityType
<1>13. CASE MayPay(s, d)
  BY <1>9, <1>10, <1>11, <1>12, <1>13
<1>14. CASE ~ MayPay(s, d)
  <2>1. IsFiniteSet(R \ {r}) /\ Cardinality(R \ {r}) = IF r \in R THEN n - 1 ELSE n
    BY <1>11, FS_RemoveElement
  <2>2. r \in R <=> MayPay(state[r], d)
    BY <1>1, <1>11 DEF Ready
  <2> QED
    BY <1>9, <1>10, <1>11, <1>12, <1>14, <2>1, <2>2
<1> QED
  BY <1>13, <1>14

\* What a step leaves of the score of d, and how many faults it takes.
LEMMA ScoreSteps ==
    ASSUME TypeOK, TypeOK', OneEach,
           \A d \in Nat :
              \/ /\ PaymentsOf(d)' = PaymentsOf(d) /\ ToCome(d)' <= ToCome(d)
                 /\ faults' = faults \/ faults' = faults + 1
              \/ /\ PaymentsOf(d)' = PaymentsOf(d) /\ ToCome(d)' <= ToCome(d) + 1
                 /\ faults' = faults + 1
              \/ /\ Cardinality(PaymentsOf(d))' = Cardinality(PaymentsOf(d)) + 1
                 /\ ToCome(d)' + 1 = ToCome(d)
                 /\ faults' = faults
              \/ /\ Cardinality(PaymentsOf(d))' = Cardinality(PaymentsOf(d)) + 1
                 /\ ToCome(d)' <= ToCome(d)
                 /\ faults' = faults + 1
              \/ /\ Cardinality(PaymentsOf(d))' = Cardinality(PaymentsOf(d))
                 /\ ToCome(d)' <= ToCome(d)
                 /\ faults' = faults \/ faults' = faults + 1
    PROVE  OneEach'
<1>1. ASSUME NEW d \in Nat
      PROVE  Cardinality(PaymentsOf(d))' + ToCome(d)' + faults
                <= Cardinality(PaymentsOf(d)) + ToCome(d) + faults'
  <2>1. PICK a \in Nat, b \in Nat, f \in Nat :
            a = Cardinality(PaymentsOf(d)) /\ b = ToCome(d) /\ f = faults
    BY ScoreNumbers DEF ScoreTyped
  <2>2. PICK h \in Nat, i \in Nat, g \in Nat :
            h = Cardinality(PaymentsOf(d))' /\ i = ToCome(d)' /\ g = faults'
    <3>1. ScoreTyped(d)' /\ faults' \in Nat
      BY ScoreNumbersNext
    <3>2. Cardinality(PaymentsOf(d))' \in Nat /\ ToCome(d)' \in Nat
      BY <3>1 DEF ScoreTyped
    <3> QED
      BY <3>1, <3>2
  <2>3. \/ h = a /\ i <= b /\ (g = f \/ g = f + 1)
        \/ h = a /\ i <= b + 1 /\ g = f + 1
        \/ h = a + 1 /\ i + 1 = b /\ g = f
        \/ h = a + 1 /\ i <= b /\ g = f + 1
    <3>1. PaymentsOf(d)' = PaymentsOf(d) => h = a
      BY <2>1, <2>2
    <3> QED
      BY <2>1, <2>2, <3>1
  <2>4. h + i + f <= a + b + g
    BY <2>3
  <2> QED
    BY <2>1, <2>2, <2>4
<1> QED
  BY <1>1, ScoreKept

\* The bank and the broker do not matter.
LEMMA BankStepsEach ==
    ASSUME TypeOK, TypeOK', OneEach,
           Tick \/ Deposit \/ Withdraw \/ PayCard \/ \E k \in DOMAIN payments : Post(k)
    PROVE  OneEach'
<1>1. UNCHANGED <<saved, run>> /\ (faults' = faults \/ faults' = faults + 1)
  BY DEF Tick, Deposit, Withdraw, PayCard, Post, Fault
<1>2. ASSUME NEW d \in Nat PROVE PaymentsOf(d)' = PaymentsOf(d)
  <2>1. CASE payments' = payments
    BY <2>1 DEF PaymentsOf
  <2>2. CASE \E k \in DOMAIN payments : Post(k)
    BY <2>2, PostTyped DEF PaymentsOf
  <2> QED
    BY <2>1, <2>2 DEF Tick, Deposit, Withdraw, PayCard, coin
<1>3. ASSUME NEW d \in Nat PROVE ToCome(d)' = ToCome(d)
  BY <1>1 DEF run, ToCome, Ready, MayPay
<1>4. ASSUME NEW d \in Nat PROVE ToCome(d)' <= ToCome(d)
  <2>1. PICK b \in Nat : b = ToCome(d)
    BY ScoreNumbers DEF ScoreTyped
  <2> QED
    BY <1>3, <2>1
<1> QED
  BY <1>1, <1>2, <1>4, ScoreSteps


\* The owner may make the harvester forget a payment.
LEMMA OverridesEach ==
    ASSUME TypeOK, TypeOK', OneEach, NEW b \in Overrides, SetOverrides(b)
    PROVE  OneEach'
<1>1. UNCHANGED <<coin, run>> /\ faults' = faults + 1
  BY DEF SetOverrides, Fault
<1>2. ASSUME NEW d \in Nat
      PROVE  PaymentsOf(d)' = PaymentsOf(d) /\ ToCome(d)' <= ToCome(d) + 1
  <2>1. PaymentsOf(d)' = PaymentsOf(d)
    BY <1>1 DEF coin, PaymentsOf
  <2>2. PICK n \in Nat : n = ToCome(d)
    BY ScoreNumbers DEF ScoreTyped
  <2>3. CASE working = {}
    <3>1. PICK m \in Nat : m = ToCome(d)' /\ m <= 1
      BY <1>1, <2>3, ScoreNumbersNext DEF ScoreTyped, run
    <3> QED
      BY <2>1, <2>2, <3>1
  <2>4. CASE working # {}
    <3>1. ToCome(d)' = ToCome(d)
      BY <1>1, <2>4 DEF run, ToCome, Ready, MayPay
    <3> QED
      BY <2>1, <2>2, <3>1
  <2> QED
    BY <2>3, <2>4
<1> QED
  BY <1>1, <1>2, ScoreSteps

\* A run alone takes over what is saved; one more run is one more that may pay.
LEMMA InitializeEach ==
    ASSUME TypeOK, TypeOK', OneEach, NEW r \in Runners, Initialize(r)
    PROVE  OneEach'
<1>1. /\ r \notin working /\ UNCHANGED coin
      /\ \/ working = {} /\ faults' = faults
         \/ working # {} /\ faults' = faults + 1
      /\ Resumed(r, 1, Read, saved)
  BY DEF Initialize, Fault
<1>2. 1 \in 1 .. Len(stages) + 1 /\ saved \in State /\ Read \in View
  <2>1. 1 \in 1 .. Len(stages) + 1
    BY StagesTyped
  <2>2. saved \in State
    BY DEF TypeOK
  <2> QED
    BY <2>1, <2>2, ReadTyped
<1>3. PICK u \in State : /\ u.lastDue = saved.lastDue
                         /\ state' = [state EXCEPT ![r] = u]
                         /\ working' = working \cup {r}
  BY <1>1, <1>2, ResumedKeeps
<1>4. state'[r] = u /\ \A q \in Runners \ {r} : state'[q] = state[q]
  BY <1>3 DEF TypeOK
<1>5. ASSUME NEW d \in Nat
      PROVE  \/ PaymentsOf(d)' = PaymentsOf(d) /\ ToCome(d)' <= ToCome(d) /\ faults' = faults
             \/ /\ PaymentsOf(d)' = PaymentsOf(d) /\ ToCome(d)' <= ToCome(d) + 1
                /\ faults' = faults + 1
  <2>1. PaymentsOf(d)' = PaymentsOf(d)
    BY <1>1 DEF coin, PaymentsOf
  <2>2. PICK n \in Nat : n = ToCome(d)
    BY ScoreNumbers DEF ScoreTyped
  <2>3. MayPay(u, d) <=> MayPay(saved, d)
    BY <1>3 DEF MayPay
  <2>4. Ready(d)' = {q \in working \cup {r} : MayPay(state'[q], d)}
    BY <1>3 DEF Ready, MayPay
  <2>5. ToCome(d)' = Cardinality(Ready(d)')
    BY <1>3 DEF ToCome
  <2>6. CASE working = {}
    <3>1. Ready(d)' = IF MayPay(saved, d) THEN {r} ELSE {}
      BY <1>4, <2>3, <2>4, <2>6
    <3>2. Cardinality({r}) = 1 /\ Cardinality({}) = 0
      BY FS_Singleton, FS_EmptySet
    <3>3. ToCome(d) = IF MayPay(saved, d) THEN 1 ELSE 0
      BY <2>6 DEF ToCome
    <3>4. ToCome(d)' = n
      BY <2>2, <2>5, <3>1, <3>2, <3>3
    <3> QED
      BY <1>1, <2>1, <2>2, <2>6, <3>4
  <2>7. CASE working # {}
    <3>1. working \subseteq Runners
      BY DEF TypeOK
    <3>2. Ready(d)' = Ready(d) \/ Ready(d)' = Ready(d) \cup {r}
      BY <1>1, <1>4, <2>4, <3>1 DEF Ready
    <3>3. r \notin Ready(d) /\ IsFiniteSet(Ready(d)) /\ n = Cardinality(Ready(d))
      BY <1>1, <2>2, <2>7, ScoreNumbers DEF ScoreTyped, Ready, ToCome
    <3>4. Cardinality(Ready(d) \cup {r}) = n + 1
      BY <3>3, FS_AddElement
    <3>5. ToCome(d)' <= n + 1
      BY <2>5, <3>2, <3>3, <3>4
    <3> QED
      BY <1>1, <2>1, <2>2, <2>7, <3>5
  <2> QED
    BY <2>6, <2>7
<1> QED
  BY <1>5, ScoreSteps

\* The steps of a run that leave the payments alone, and what it knows of them.
LEMMA SameEach ==
    ASSUME TypeOK, TypeOK', OneEach, NEW r \in Runners, NEW name, At(r, name),
           NEW s \in State, Applied(r, s), s.lastDue = state[r].lastDue,
           payments' = payments, faults' = faults \/ faults' = faults + 1
    PROVE  OneEach'
<1>1. ASSUME NEW d \in Nat
      PROVE  PaymentsOf(d)' = PaymentsOf(d) /\ ToCome(d)' <= ToCome(d)
  <2>1. MayPay(s, d) => MayPay(state[r], d)
    BY DEF MayPay
  <2>2. ToCome(d)' <= ToCome(d)
    BY <2>1, RunKnows
  <2> QED
    BY <2>2 DEF PaymentsOf
<1> QED
  BY <1>1, ScoreSteps

\* Whoever wants to pay a due date does not know of a payment for it, and then does.
LEMMA WantsIsMay ==
    ASSUME NEW v \in View, NEW s \in State, WantsPayment(v, s), NEW u \in State,
           u.lastDue = v.date
    PROVE  /\ MayPay(s, v.date) /\ ~ MayPay(u, v.date)
           /\ \A d \in Nat : MayPay(u, d) => MayPay(s, d)
<1>1. v.date \in Nat /\ s.lastDue \in Maybe /\ None \notin Nat
  BY StagesAssumption DEF StagesAssumption, View, State
<1>2. s.lastDue = None \/ (s.lastDue \in Int /\ s.lastDue < v.date)
  BY <1>1 DEF WantsPayment, Maybe
<1>3. MayPay(s, v.date) /\ ~ MayPay(u, v.date)
  BY <1>1, <1>2 DEF MayPay
<1>4. ASSUME NEW d \in Nat, MayPay(u, d) PROVE MayPay(s, d)
  BY <1>1, <1>2, <1>4 DEF MayPay
<1> QED
  BY <1>3, <1>4

LEMMA PayNothingEach ==
    ASSUME TypeOK, TypeOK', OneEach, NEW r \in Runners, PayNothing(r)
    PROVE  OneEach'
<1>1. At(r, "PayVisa") /\ UNCHANGED <<coin, faults>> /\ payments' = payments
  BY DEF PayNothing, coin
<1>2. view[r] \in View /\ state[r] \in State
  BY <1>1, AtTyped
<1>3. CASE Applied(r, state[r])
  BY <1>1, <1>2, <1>3, SameEach
<1>4. CASE WantsPayment(view[r], state[r]) /\ Applied(r, Paid(view[r], state[r], 0))
  <2>1. PICK u \in State : u = Paid(view[r], state[r], 0) /\ u.lastDue = view[r].date
    <3>1. PICK nought \in Int : nought = 0
      OBVIOUS
    <3>2. /\ Paid(view[r], state[r], nought) \in State
          /\ Paid(view[r], state[r], nought).lastDue = view[r].date
      BY <1>2, MovedTyped
    <3> QED
      BY <3>1, <3>2
  <2>2. ASSUME NEW d \in Nat
        PROVE  PaymentsOf(d)' = PaymentsOf(d) /\ ToCome(d)' <= ToCome(d)
    <3>1. MayPay(u, d) => MayPay(state[r], d)
      BY <1>2, <1>4, <2>1, WantsIsMay
    <3>2. ToCome(d)' <= ToCome(d)
      BY <1>1, <1>4, <2>1, <3>1, RunKnows
    <3> QED
      BY <1>1, <3>2 DEF PaymentsOf
  <2> QED
    BY <1>1, <2>2, ScoreSteps
<1> QED
  BY <1>3, <1>4 DEF PayNothing

LEMMA PayVisaEach ==
    ASSUME TypeOK, TypeOK', OneEach, NEW r \in Runners, PayVisa(r)
    PROVE  OneEach'
<1>1. /\ At(r, "PayVisa") /\ WantsPayment(view[r], state[r]) /\ ToPay(view[r]) >= 0
      /\ payments' = Append(payments, Requested(view[r], state[r]))
      /\ \/ Applied(r, Paid(view[r], state[r], ToPay(view[r]))) /\ faults' = faults
         \/ Applied(r, state[r]) /\ faults' = faults + 1
  BY DEF PayVisa, Requested, Fault
<1>2. view[r] \in View /\ state[r] \in State
  BY <1>1, AtTyped
<1>3. PICK p \in Payment : p = Requested(view[r], state[r]) /\ p.due = view[r].date
  BY <1>1, <1>2, RequestTyped DEF Requested
<1>4. PICK u \in State : u = Paid(view[r], state[r], ToPay(view[r])) /\ u.lastDue = view[r].date
  BY <1>2, MovedTyped
<1>5. ASSUME NEW d \in Nat
      PROVE  \/ /\ Cardinality(PaymentsOf(d))' = Cardinality(PaymentsOf(d)) + 1
                /\ ToCome(d)' + 1 = ToCome(d)
                /\ faults' = faults
             \/ /\ Cardinality(PaymentsOf(d))' = Cardinality(PaymentsOf(d)) + 1
                /\ ToCome(d)' <= ToCome(d)
                /\ faults' = faults + 1
             \/ /\ Cardinality(PaymentsOf(d))' = Cardinality(PaymentsOf(d))
                /\ ToCome(d)' <= ToCome(d)
                /\ faults' = faults \/ faults' = faults + 1
  <2>1. /\ p.due = d => Cardinality(PaymentsOf(d))' = Cardinality(PaymentsOf(d)) + 1
        /\ p.due # d => Cardinality(PaymentsOf(d))' = Cardinality(PaymentsOf(d))
    BY <1>1, <1>3, OneMorePayment
  <2>2. CASE Applied(r, Paid(view[r], state[r], ToPay(view[r]))) /\ faults' = faults
    <3>1. /\ MayPay(u, d) => MayPay(state[r], d)
          /\ d = p.due => MayPay(state[r], d) /\ ~ MayPay(u, d)
      BY <1>1, <1>2, <1>3, <1>4, WantsIsMay
    <3>2. /\ ToCome(d)' <= ToCome(d)
          /\ MayPay(state[r], d) /\ ~ MayPay(u, d) => ToCome(d)' + 1 = ToCome(d)
      BY <1>1, <1>4, <2>2, <3>1, RunKnows
    <3> QED
      BY <2>1, <2>2, <3>1, <3>2
  <2>3. CASE Applied(r, state[r]) /\ faults' = faults + 1
    <3>1. ToCome(d)' <= ToCome(d)
      BY <1>1, <1>2, <2>3, RunKnows
    <3> QED
      BY <2>1, <2>3, <3>1
  <2> QED
    BY <1>1, <2>2, <2>3
<1> QED
  BY <1>5, ScoreSteps

\* The last run leaves what it knows; and a run that dies is a fault.
LEMMA IdleEach ==
    ASSUME TypeOK, TypeOK', OneEach, NEW r \in working, Idle(r), payments' = payments,
           \/ saved' = state[r] /\ faults' = faults
           \/ saved' = saved /\ faults' = faults + 1
    PROVE  OneEach'
<1>1. r \in Runners /\ working \subseteq Runners
  BY DEF TypeOK
<1>2. working' = working \ {r} /\ \A q \in working \ {r} : state'[q] = state[q]
  BY DEF Idle, TypeOK
<1>3. ASSUME NEW d \in Nat
      PROVE  /\ PaymentsOf(d)' = PaymentsOf(d)
             /\ \/ ToCome(d)' <= ToCome(d) /\ (faults' = faults \/ faults' = faults + 1)
                \/ ToCome(d)' <= ToCome(d) + 1 /\ faults' = faults + 1
  <2>1. PaymentsOf(d)' = PaymentsOf(d)
    BY DEF PaymentsOf
  <2>2. PICK R : R = Ready(d) /\ IsFiniteSet(R) /\ Cardinality(R) = ToCome(d)
    BY ScoreNumbers DEF ScoreTyped, ToCome
  <2>3. PICK n \in Nat : n = ToCome(d)
    BY ScoreNumbers DEF ScoreTyped
  <2>4. PICK m \in Nat : m = ToCome(d)' /\ (working' = {} => m <= 1)
    BY ScoreNumbersNext DEF ScoreTyped
  <2>5. CASE working' # {}
    <3>1. Ready(d)' = Ready(d) \ {r}
      BY <1>2 DEF Ready, MayPay
    <3>2. m = Cardinality(R \ {r})
      BY <2>2, <2>4, <2>5, <3>1 DEF ToCome
    <3>3. Cardinality(R \ {r}) <= Cardinality(R)
      BY <2>2, FS_Subset
    <3> QED
      BY <2>1, <2>2, <2>3, <2>4, <3>2, <3>3
  <2>6. CASE working' = {} /\ saved' = state[r] /\ faults' = faults
    <3>1. working = {r}
      BY <1>2, <2>6
    <3>2. R = IF MayPay(state[r], d) THEN {r} ELSE {}
      BY <2>2, <3>1 DEF Ready
    <3>3. Cardinality({r}) = 1 /\ Cardinality({}) = 0
      BY FS_Singleton, FS_EmptySet
    <3>4. m = IF MayPay(state[r], d) THEN 1 ELSE 0
      BY <2>4, <2>6 DEF ToCome, MayPay
    <3>5. m = n
      BY <2>2, <2>3, <3>2, <3>3, <3>4
    <3> QED
      BY <2>1, <2>3, <2>4, <2>6, <3>5
  <2>7. CASE working' = {} /\ faults' = faults + 1
    BY <2>1, <2>3, <2>4, <2>7
  <2> QED
    BY <2>5, <2>6, <2>7
<1> QED
  BY <1>3, ScoreSteps

LEMMA WorkEach ==
    ASSUME TypeOK, TypeOK', OneEach, NEW r \in Runners, Work(r) \/ Crash(r)
    PROVE  OneEach'
<1>1. \A name : At(r, name) => view[r] \in View /\ state[r] \in State /\ r \in working
  BY AtTyped
<1>2. ASSUME NEW name, At(r, name), Applied(r, state[r]), payments' = payments,
             faults' = faults \/ Fault
      PROVE  OneEach'
  <2>1. faults' = faults \/ faults' = faults + 1
    BY <1>2 DEF Fault
  <2> QED
    BY <1>1, <1>2, <2>1, SameEach
<1>3. CASE Ensure(r)
  <2>1. /\ At(r, "EnsureHarvesterBalance") /\ payments' = payments /\ faults' = faults
        /\ Applied(r, EnsureHarvesterBalance(state[r], Available))
    BY <1>3 DEF Ensure, coin
  <2>2. PICK s \in State : /\ s = EnsureHarvesterBalance(state[r], Available)
                           /\ s.lastDue = state[r].lastDue
    BY <1>1, <2>1, EnsuredTyped
  <2> QED
    BY <2>1, <2>2, SameEach
<1>4. CASE SendNothing(r)
  BY <1>2, <1>4 DEF SendNothing, coin
<1>5. CASE SendETransfer(r)
  <2>1. /\ At(r, "SendETransfer") /\ payments' = payments /\ WantsTransfer(state[r])
        /\ \/ Applied(r, Transferred(view[r], state[r])) /\ faults' = faults
           \/ Applied(r, state[r]) /\ Fault
    BY <1>5 DEF SendETransfer
  <2>2. PICK s \in State : /\ s = Transferred(view[r], state[r])
                           /\ s.lastDue = state[r].lastDue
    <3>1. Transferred(view[r], state[r]) \in State
      BY <1>1, <2>1, MovedTyped
    <3>2. Transferred(view[r], state[r]).lastDue = state[r].lastDue
      BY <1>1, <2>1 DEF Transferred, State
    <3> QED
      BY <3>1, <3>2
  <2>3. CASE Applied(r, s) /\ faults' = faults
    BY <2>1, <2>2, <2>3, SameEach
  <2> QED
    BY <1>2, <2>1, <2>2, <2>3
<1>6. CASE PayNothing(r)
  BY <1>6, PayNothingEach
<1>7. CASE PayVisa(r)
  BY <1>7, PayVisaEach
<1>8. CASE StageFails(r)
  <2>1. PICK name : At(r, name)
    BY <1>8 DEF StageFails
  <2>2. Applied(r, state[r]) /\ payments' = payments /\ (faults' = faults \/ Fault)
    BY <1>8 DEF StageFails, coin
  <2> QED
    BY <1>2, <2>1, <2>2
<1>9. CASE Save(r)
  BY <1>9, IdleEach DEF Save, coin
<1>10. CASE Crash(r)
  BY <1>10, IdleEach DEF Crash, Fault, coin
<1> QED
  BY <1>3, <1>4, <1>5, <1>6, <1>7, <1>8, <1>9, <1>10 DEF Work

LEMMA InitEach == Init => OneEach
<1> SUFFICES ASSUME Init, NEW d \in Nat
             PROVE  Cardinality(PaymentsOf(d)) + ToCome(d) <= 1 + faults
  BY DEF OneEach
<1>1. PaymentsOf(d) = {} /\ faults = 0 /\ working = {}
  BY DEF Init, PaymentsOf
<1>2. PICK n \in Nat : n = ToCome(d) /\ n <= 1
  BY <1>1 DEF ToCome
<1> QED
  BY <1>1, <1>2, FS_EmptySet

LEMMA StepEach == TypeOK /\ TypeOK' /\ OneEach /\ [Next]_vars => OneEach'
<1> SUFFICES ASSUME TypeOK, TypeOK', OneEach, [Next]_vars PROVE OneEach'
  OBVIOUS
<1>1. CASE UNCHANGED vars
  BY <1>1 DEF vars, coin, run, OneEach, PaymentsOf, ToCome, Ready, MayPay
<1>2. CASE Next
  BY <1>2, BankStepsEach, OverridesEach, InitializeEach, WorkEach DEF Next
<1> QED
  BY <1>1, <1>2

\* A due date of the card is paid once; once more at most for each run that
\* overlapped another, for each run that died, or lost a reply, before its state
\* was saved, and for each override by the owner: for any steps, any calendar
\* and any number of runs.
THEOREM HarvestPaysOnce == Spec => []PaidOnce
<1>1. TypeOK /\ OneEach => PaidOnce
  <2> SUFFICES ASSUME TypeOK, OneEach, NEW p \in Range(payments)
               PROVE  Cardinality({k \in DOMAIN payments : payments[k].due = p.due})
                         <= 1 + faults
    BY DEF PaidOnce
  <2>1. PICK d \in Nat : d = p.due
    <3>1. payments \in Seq(Payment)
      BY DEF TypeOK
    <3>2. p \in Payment
      BY <3>1 DEF Range
    <3> QED
      BY <3>2 DEF Payment
  <2>2. PICK a \in Nat, b \in Nat, f \in Nat :
            a = Cardinality(PaymentsOf(d)) /\ b = ToCome(d) /\ f = faults
    BY ScoreNumbers DEF ScoreTyped
  <2>3. a + b <= 1 + f
    BY <2>2 DEF OneEach
  <2>4. a <= 1 + f
    BY <2>3
  <2> QED
    BY <2>1, <2>2, <2>4 DEF PaymentsOf
<1>2. Spec => []TypeOK
  BY HarvestTyped
<1>3. Spec => []OneEach
  BY InitEach, StepEach, <1>2, PTL DEF Spec
<1> QED
  BY <1>1, <1>2, <1>3, PTL

-----------------------------------------------------------------------------
(* A statement is paid early in some cases only.                           *)

\* The amounts of the statements that have closed are known, and no others.
Calendar == \A i \in Statements : i <= Len(billed) <=> Closes[i] <= day

\* A payment was requested for d before its amount was known.
EarlyFor(d) == \E k \in DOMAIN payments : payments[k].due = d /\ Early(payments[k])

\* The amount that s remembers is one that was seen when the due date that it
\* remembers was dealt with; if that was early, it was a payment or nothing.
Recall(s) ==
    s.lastAmount # None =>
        /\ s.lastDue # None
        /\ \/ s.lastDue < Due[1]
           \/ \E j \in Statements, n \in 0 .. Len(billed) :
                 /\ s.lastDue = Due[j] /\ s.lastAmount = Owed(n)
                 /\ n < j => Owed(n) <= 0 \/ EarlyFor(Due[j])

\* A run sees the accounts of today, less what its steps have left of the amounts.
Sees(r) == /\ view[r].at = day
           /\ \E i \in Statements : view[r].date = Due[i]
           /\ view[r].amount = Left(DueAmount, 1, step[r])

RunsSee == \A r \in working : Recall(state[r]) /\ Sees(r)

\* What AmountKnown says of one payment.
Excused(p) ==
    \A i \in Statements \ {1} :
        Early(p) /\ p.due = Due[i] =>
            \/ p.last # None /\ p.last < Due[i - 1]
            \/ EarlyFor(Due[i - 1])
            \/ \E n \in 0 .. p.known : n < i - 1 /\ Owed(n) <= 0

PaymentsExcused ==
    \A k \in DOMAIN payments : Excused(payments[k]) /\ payments[k].known <= Len(billed)

EarlyInv == Calendar /\ Recall(saved) /\ RunsSee /\ PaymentsExcused

LEMMA CalendarDays ==
    /\ \A i \in Statements : /\ i \in Nat \ {0} /\ Closes[i] \in Nat \ {0} /\ Due[i] \in Nat
                             /\ Closes[i] + Window <= Due[i]
    /\ \A i, j \in Statements : i < j => Closes[i] < Closes[j] /\ Due[i] < Due[j]
    /\ 1 \in Statements /\ Window \in Nat /\ Earlier \in Int
    /\ \A i \in Statements \ {1} : i - 1 \in Statements
<1>1. PICK n \in Nat \ {0}, closes \in Seq(Nat), due \in Seq(Nat) :
         /\ closes = Closes /\ due = Due
         /\ n = Len(due) /\ n = Len(closes)
  BY HarvesterAssumption DEF HarvesterAssumption
<1>2. Statements = 1 .. n
  BY <1>1 DEF Statements
<1>3. \A i \in 1 .. n : closes[i] \in Nat /\ due[i] \in Nat
  <2>1. closes \in Seq(Nat) /\ due \in Seq(Nat) /\ n = Len(due) /\ n = Len(closes)
    BY <1>1
  <2> QED
    BY <2>1, ElementOfSeq
<1>4. /\ \A i \in Statements : 0 < Closes[i] /\ Closes[i] + Window <= Due[i]
      /\ \A i, j \in Statements : i < j => Closes[i] < Closes[j] /\ Due[i] < Due[j]
      /\ Window \in Nat /\ Earlier \in Int
  BY HarvesterAssumption, StagesAssumption DEF HarvesterAssumption, StagesAssumption
<1>5. /\ \A i \in 1 .. n : i \in Nat \ {0} /\ (i # 1 => i - 1 \in 1 .. n)
      /\ 1 \in 1 .. n
  BY ONLY n \in Nat \ {0}
<1> QED
  BY <1>1, <1>2, <1>3, <1>4, <1>5

\* Nothing that is known is lost.
Onward ==
    /\ \A k \in DOMAIN payments : /\ k \in DOMAIN payments'
                                  /\ payments'[k].due = payments[k].due
                                  /\ payments'[k].known = payments[k].known
                                  /\ payments'[k].last = payments[k].last
    /\ Len(billed) <= Len(billed')
    /\ \A n \in 0 .. Len(billed) : Owed(n)' = Owed(n)

LEMMA EarlyKept ==
    ASSUME Onward, NEW d, EarlyFor(d)
    PROVE  EarlyFor(d)'
<1>1. PICK k \in DOMAIN payments : payments[k].due = d /\ Early(payments[k])
  BY DEF EarlyFor
<1>2. k \in DOMAIN payments' /\ payments'[k].due = d /\ payments'[k].known = payments[k].known
  BY <1>1 DEF Onward
<1>3. Early(payments'[k])
  BY <1>1, <1>2 DEF Early
<1>4. \E j \in DOMAIN payments' : payments'[j].due = d /\ Early(payments'[j])
  BY <1>2, <1>3
<1> QED
  BY <1>4 DEF EarlyFor, Early

LEMMA RecallKept ==
    ASSUME TypeOK, TypeOK', Onward, NEW s, Recall(s)
    PROVE  Recall(s)'
<1>1. PICK l \in Nat, m \in Nat : l = Len(billed) /\ m = Len(billed') /\ l <= m
  BY DEF TypeOK, Onward
<1>2. ASSUME NEW j \in Statements, NEW n \in 0 .. Len(billed),
             s.lastDue = Due[j], s.lastAmount = Owed(n),
             n < j => Owed(n) <= 0 \/ EarlyFor(Due[j])
      PROVE  \E i \in Statements, k \in 0 .. Len(billed)' :
                 /\ s.lastDue = Due[i] /\ s.lastAmount = Owed(k)'
                 /\ k < i => Owed(k)' <= 0 \/ EarlyFor(Due[i])'
  <2>1. n \in 0 .. Len(billed)' /\ Owed(n)' = Owed(n)
    BY <1>1 DEF Onward
  <2>2. EarlyFor(Due[j]) => EarlyFor(Due[j])'
    BY EarlyKept
  <2> QED
    BY <1>2, <2>1, <2>2
<1> QED
  BY <1>2 DEF Recall

\* A payment is excused for good, whatever becomes of it.
LEMMA ExcusedKept ==
    ASSUME TypeOK, TypeOK', Onward, NEW p, NEW q, Excused(p), p.known \in Nat,
           p.known <= Len(billed),
           q.due = p.due /\ q.known = p.known /\ q.last = p.last
    PROVE  Excused(q)'
<1>1. PICK l \in Nat : l = Len(billed) /\ p.known <= l
  BY DEF TypeOK
<1>2. \A n \in 0 .. p.known : n \in 0 .. l
  BY <1>1
<1>3. \A n \in 0 .. p.known : Owed(n)' = Owed(n)
  BY <1>1, <1>2 DEF Onward
<1>4. \A i \in Statements : EarlyFor(Due[i - 1]) => EarlyFor(Due[i - 1])'
  BY EarlyKept
<1>5. Early(q) <=> Early(p)
  BY DEF Early
<1>6. \A i \in Statements \ {1} :
        Early(q) /\ q.due = Due[i] =>
            \/ q.last # None /\ q.last < Due[i - 1]
            \/ EarlyFor(Due[i - 1])'
            \/ \E n \in 0 .. q.known : n < i - 1 /\ Owed(n)' <= 0
  BY <1>3, <1>4, <1>5 DEF Excused
<1> QED
  BY <1>6 DEF Excused, Early

LEMMA PaymentsKept ==
    ASSUME TypeOK, TypeOK', Onward, PaymentsExcused,
           \A k \in DOMAIN payments' :
              \/ k \in DOMAIN payments
              \/ Excused(payments[k])' /\ payments'[k].known <= Len(billed')
    PROVE  PaymentsExcused'
<1>1. ASSUME NEW k \in DOMAIN payments
      PROVE  Excused(payments[k])' /\ payments'[k].known <= Len(billed')
  <2>1. PICK p, q : p = payments[k] /\ q = payments'[k]
    OBVIOUS
  <2>2. p \in Payment
    BY <2>1, ElementOfSeq DEF TypeOK
  <2>3. p.known \in Nat
    BY <2>2 DEF Payment
  <2>4. Excused(p) /\ p.known <= Len(billed)
    BY <2>1 DEF PaymentsExcused
  <2>5. q.due = p.due /\ q.known = p.known /\ q.last = p.last
    BY <2>1 DEF Onward
  <2>6. Excused(q)'
    BY <2>3, <2>4, <2>5, ExcusedKept
  <2>7. q.known <= Len(billed')
    <3>1. PICK l \in Nat, m \in Nat : l = Len(billed) /\ m = Len(billed') /\ l <= m
      BY DEF TypeOK, Onward
    <3> QED
      BY <2>3, <2>4, <2>5, <3>1
  <2> QED
    BY <2>1, <2>6, <2>7 DEF Excused, Early
<1> QED
  BY <1>1 DEF PaymentsExcused

\* Steps that leave the amounts alone.
LEMMA OwedSame ==
    ASSUME billed' = billed, stages' = stages
    PROVE  /\ \A n : Owed(n)' = Owed(n)
           /\ DueAmount' = DueAmount
           /\ \A a, i, n : Left(a, i, n)' = Left(a, i, n)
BY DEF Owed, DueAmount, Left

LEMMA SameOnward ==
    ASSUME TypeOK, billed' = billed, stages' = stages,
           payments' = payments \/ \E k \in DOMAIN payments : Post(k)
    PROVE  Onward /\ DOMAIN payments' = DOMAIN payments
<1>1. PICK l \in Nat : l = Len(billed) /\ l = Len(billed')
  BY DEF TypeOK
<1>2. CASE payments' = payments
  BY <1>1, <1>2, OwedSame DEF Onward
<1>3. CASE \E k \in DOMAIN payments : Post(k)
  <2>1. PICK k \in DOMAIN payments : payments' = [payments EXCEPT ![k].posted = TRUE]
    BY <1>3 DEF Post
  <2>2. PICK ps \in Seq(Payment) : ps = payments
    BY DEF TypeOK
  <2>3. \A j \in DOMAIN ps : ps[j] \in Payment
    BY ElementOfSeq
  <2>4. DOMAIN payments' = DOMAIN payments
    BY <2>1
  <2>5. \A j \in DOMAIN ps : /\ payments'[j].due = ps[j].due
                             /\ payments'[j].known = ps[j].known
                             /\ payments'[j].last = ps[j].last
    BY <2>1, <2>2, <2>3 DEF Payment
  <2> QED
    BY <1>1, <2>2, <2>4, <2>5, OwedSame DEF Onward
<1> QED
  BY <1>2, <1>3

LEMMA RunsKept ==
    ASSUME TypeOK, TypeOK', Onward, RunsSee, UNCHANGED <<day, billed, stages>>,
           NEW r \in working, view'[r] = view[r], state'[r] = state[r], step'[r] = step[r]
    PROVE  Recall(state[r])' /\ Sees(r)'
<1>1. PICK s : s = state[r] /\ s = state'[r]
  OBVIOUS
<1>2. Recall(s)'
  BY <1>1, RecallKept DEF RunsSee
<1>3. Recall(state[r])'
  BY <1>1, <1>2 DEF Recall
<1>4. Sees(r)
  BY DEF RunsSee
<1>5. Sees(r)'
  BY <1>4, OwedSame DEF Sees
<1> QED
  BY <1>3, <1>5

\* The bank without its calendar, the broker, and the owner.
LEMMA BankStepsKnown ==
    ASSUME TypeOK, TypeOK', EarlyInv,
           \/ Deposit \/ Withdraw \/ PayCard \/ \E k \in DOMAIN payments : Post(k)
           \/ \E b \in Overrides : SetOverrides(b)
    PROVE  EarlyInv'
<1>1. UNCHANGED <<day, billed, stages, run>>
  BY DEF Deposit, Withdraw, PayCard, Post, SetOverrides, bank
<1>2. Onward /\ DOMAIN payments' = DOMAIN payments
  <2>1. payments' = payments \/ \E k \in DOMAIN payments : Post(k)
    BY DEF Deposit, Withdraw, PayCard, SetOverrides, coin
  <2> QED
    BY <1>1, <2>1, SameOnward
<1>3. Calendar'
  BY <1>1 DEF EarlyInv, Calendar
<1>4. PaymentsExcused'
  BY <1>2, PaymentsKept DEF EarlyInv
<1>5. RunsSee'
  BY <1>1, <1>2, RunsKept DEF EarlyInv, RunsSee, run
<1>6. Recall(saved)'
  <2>1. PICK s \in State : s = saved'
    BY DEF TypeOK
  <2>2. Recall(s)
    <3>1. CASE saved' = saved
      BY <2>1, <3>1 DEF EarlyInv, Recall
    <3>2. CASE \E b \in Overrides : SetOverrides(b)
      <4>1. \/ s.lastDue = saved.lastDue /\ s.lastAmount = saved.lastAmount
            \/ s.lastAmount = None
        BY <2>1, <3>2 DEF SetOverrides, TypeOK, State
      <4> QED
        BY <4>1 DEF EarlyInv, Recall
    <3> QED
      BY <3>1, <3>2 DEF Deposit, Withdraw, PayCard, Post
  <2>3. Recall(s)'
    BY <1>2, <2>2, RecallKept
  <2> QED
    BY <2>1, <2>3 DEF Recall
<1> QED
  BY <1>3, <1>4, <1>5, <1>6 DEF EarlyInv

\* A day passes: a statement may close.
LEMMA TickKnown ==
    ASSUME TypeOK, TypeOK', EarlyInv, Tick
    PROVE  EarlyInv'
<1>1. /\ working' = {} /\ day' = day + 1 /\ payments' = payments /\ stages' = stages
      /\ saved' = saved
      /\ billed' = IF \E i \in Statements : Closes[i] = day + 1
                   THEN Append(billed, owing') ELSE billed
  BY DEF Tick, coin, run
<1>2. PICK bs \in Seq(Int), l \in Nat, d \in Nat, new \in Int :
         bs = billed /\ l = Len(bs) /\ d = day /\ new = owing'
  BY DEF TypeOK
<1>3. \A i \in Statements : i <= l <=> Closes[i] <= d
  BY <1>2 DEF EarlyInv, Calendar
<1>4. ASSUME \E i \in Statements : Closes[i] = day + 1
      PROVE  Calendar' /\ Onward
  <2>1. PICK i \in Statements : Closes[i] = d + 1
    BY <1>2, <1>4
  <2>2. PICK cs \in Seq(Int) : cs = billed' /\ cs = Append(bs, new)
    <3>1. Append(bs, new) \in Seq(Int)
      OBVIOUS
    <3> QED
      BY <1>1, <1>2, <1>4, <3>1
  <2>3. Len(cs) = l + 1 /\ \A n \in 1 .. l : cs[n] = bs[n]
    BY <1>2, <2>2
  <2>4. i = l + 1
    <3>1. i \in Nat \ {0} /\ ~ (i <= l)
      BY <1>2, <1>3, <2>1, CalendarDays
    <3>2. CASE i = 1
      BY <1>2, <3>1, <3>2
    <3>3. CASE i # 1
      <4>1. i - 1 \in Statements /\ i - 1 < i
        BY <3>1, <3>3, CalendarDays
      <4>2. Closes[i - 1] < Closes[i] /\ Closes[i - 1] \in Nat
        BY <4>1, CalendarDays
      <4>3. Closes[i - 1] <= d
        BY <1>2, <2>1, <4>2
      <4>4. i - 1 <= l
        BY <1>3, <4>1, <4>3
      <4> QED
        BY <1>2, <3>1, <4>4
    <3> QED
      BY <3>2, <3>3
  <2>5. ASSUME NEW j \in Statements PROVE j <= l + 1 <=> Closes[j] <= d + 1
    <3>1. /\ j \in Nat /\ Closes[j] \in Nat /\ (j < i => Closes[j] < Closes[i])
          /\ (i < j => Closes[i] < Closes[j])
      BY CalendarDays
    <3> QED
      BY <1>2, <2>1, <2>4, <3>1
  <2>6. Calendar'
    BY <1>1, <1>2, <2>2, <2>3, <2>5 DEF Calendar
  <2>7. \A n \in 0 .. l : Owed(n)' = Owed(n)
    <3>1. \A n \in 0 .. l : n # 0 => n \in 1 .. l
      BY <1>2
    <3>2. \A n \in 1 .. l : billed'[n] = billed[n]
      BY <1>2, <2>2, <2>3
    <3> QED
      BY <1>1, <3>1, <3>2 DEF Owed
  <2>8. Len(billed) <= Len(billed')
    BY <1>2, <2>2, <2>3
  <2>9. Onward
    BY <1>1, <1>2, <2>7, <2>8 DEF Onward
  <2> QED
    BY <2>6, <2>9
<1>5. ASSUME ~ \E i \in Statements : Closes[i] = day + 1
      PROVE  Calendar' /\ Onward
  <2>1. Onward
    BY <1>1, <1>5, SameOnward
  <2>2. ASSUME NEW j \in Statements PROVE Closes[j] <= d <=> Closes[j] <= d + 1
    <3>1. Closes[j] \in Nat /\ Closes[j] # d + 1
      BY <1>2, <1>5, CalendarDays
    <3> QED
      BY <1>2, <3>1
  <2>3. Calendar'
    BY <1>1, <1>2, <1>3, <1>5, <2>2 DEF Calendar
  <2> QED
    BY <2>1, <2>3
<1>6. Calendar' /\ Onward
  BY <1>4, <1>5
<1>7. Recall(saved)'
  <2>1. PICK s : s = saved /\ s = saved'
    BY <1>1
  <2>2. Recall(s)
    BY <2>1 DEF EarlyInv, Recall
  <2>3. Recall(s)'
    BY <1>6, <2>2, RecallKept
  <2> QED
    BY <2>1, <2>3 DEF Recall
<1>8. PaymentsExcused'
  BY <1>1, <1>6, PaymentsKept DEF EarlyInv
<1> QED
  BY <1>1, <1>6, <1>7, <1>8 DEF EarlyInv, RunsSee

\* The steps of a run, one after another, reduce an amount once at most.
LEMMA LeftOn ==
    ASSUME TypeOK, NEW a, NEW k \in 1 .. Len(stages), stages[k] # "ProcessPercent",
           NEW n \in 1 .. Len(stages) + 1, k + 1 <= n
    PROVE  Left(Left(a, 1, k), k + 1, n) = Left(a, 1, n)
<1>1. PICK l \in Nat : l = Len(stages) /\ DOMAIN stages = 1 .. l
  BY StagesTyped
<1>2. PICK before, after, all :
         /\ before = 1 .. k - 1 /\ after = k + 1 .. n - 1 /\ all = 1 .. n - 1
         /\ all = before \cup {k} \cup after
         /\ before \subseteq DOMAIN stages /\ after \subseteq DOMAIN stages
         /\ \A i \in before, j \in after : i < j
  <2>1. k \in Nat \ {0} /\ n \in Nat /\ k <= l /\ n <= l + 1 /\ k + 1 <= n
    BY <1>1
  <2>2. 1 .. n - 1 = (1 .. k - 1) \cup {k} \cup (k + 1 .. n - 1)
    BY ONLY <2>1
  <2>3. /\ 1 .. k - 1 \subseteq 1 .. l /\ k + 1 .. n - 1 \subseteq 1 .. l
        /\ \A i \in 1 .. k - 1, j \in k + 1 .. n - 1 : i < j
    BY <1>1, <2>1
  <2> QED
    BY <1>1, <2>2, <2>3
<1>3. \A i \in before, j \in after :
         stages[i] = "ProcessPercent" => stages[j] # "ProcessPercent"
  BY <1>2, PercentOnce
<1>4. \A b : Left(b, 1, k) = IF \E j \in before : stages[j] = "ProcessPercent" THEN Percentage(b) ELSE b
  BY <1>2 DEF Left
<1>5. \A b : Left(b, k + 1, n) = IF \E j \in after : stages[j] = "ProcessPercent" THEN Percentage(b) ELSE b
  BY <1>2 DEF Left
<1>6. \A b : Left(b, 1, n) = IF \E j \in all : stages[j] = "ProcessPercent" THEN Percentage(b) ELSE b
  BY <1>2 DEF Left
<1> QED
  BY <1>2, <1>3, <1>4, <1>5, <1>6

\* A run starts.
LEMMA InitializeKnown ==
    ASSUME TypeOK, TypeOK', EarlyInv, NEW r \in Runners, Initialize(r)
    PROVE  EarlyInv'
<1>1. /\ UNCHANGED <<day, billed, stages, saved, payments>>
      /\ Resumed(r, 1, Read, saved)
  BY DEF Initialize, bank, coin
<1>2. 1 \in 1 .. Len(stages) + 1 /\ saved \in State /\ Read \in View
  <2>1. 1 \in 1 .. Len(stages) + 1
    BY StagesTyped
  <2>2. saved \in State
    BY DEF TypeOK
  <2> QED
    BY <2>1, <2>2, ReadTyped
<1>3. PICK n \in 1 .. Len(stages) + 1, w \in View, u \in State :
         /\ w.date = Read.date /\ w.at = Read.at /\ w.amount = Left(Read.amount, 1, n)
         /\ u.lastDue = saved.lastDue /\ u.lastAmount = saved.lastAmount
         /\ step' = [step EXCEPT ![r] = n]
         /\ view' = [view EXCEPT ![r] = w]
         /\ state' = [state EXCEPT ![r] = u]
         /\ working' = working \cup {r}
  BY <1>1, <1>2, ResumedKeeps
<1>4. Onward /\ Calendar' /\ PaymentsExcused'
  <2>1. Onward
    BY <1>1, SameOnward
  <2>2. Calendar'
    BY <1>1 DEF EarlyInv, Calendar
  <2> QED
    BY <1>1, <2>1, <2>2, PaymentsKept DEF EarlyInv
<1>5. /\ step'[r] = n /\ view'[r] = w /\ state'[r] = u
      /\ \A q \in Runners \ {r} : /\ step'[q] = step[q] /\ view'[q] = view[q]
                                  /\ state'[q] = state[q]
  BY <1>3 DEF TypeOK
<1>6. \A s : s.lastDue = saved.lastDue /\ s.lastAmount = saved.lastAmount => Recall(s)
  BY DEF EarlyInv, Recall
<1>7. Recall(saved)' /\ Recall(state[r])'
  <2>1. PICK s : s = saved /\ s = saved'
    BY <1>1
  <2>2. Recall(s)' /\ Recall(u)'
    BY <1>3, <1>4, <1>6, <2>1, RecallKept
  <2> QED
    BY <1>5, <2>1, <2>2 DEF Recall
<1>8. Sees(r)'
  <2>1. Read.date = Due[Current] /\ Read.at = day /\ Read.amount = DueAmount
    BY DEF Read
  <2>2. \E i \in Statements : w.date = Due[i]
    BY <1>3, <2>1, CurrentTyped
  <2>3. w.at = day' /\ w.amount = Left(DueAmount, 1, n)
    BY <1>1, <1>3, <2>1
  <2>4. Left(DueAmount, 1, n) = Left(DueAmount, 1, n)'
    BY <1>1, OwedSame DEF Left
  <2> QED
    BY <1>5, <2>2, <2>3, <2>4 DEF Sees, Left
<1>9. RunsSee'
  <2>1. working \subseteq Runners /\ RunsSee
    BY DEF TypeOK, EarlyInv
  <2>2. \A q \in working \ {r} : Recall(state[q])' /\ Sees(q)'
    BY <1>1, <1>4, <1>5, <2>1, RunsKept
  <2> QED
    BY <1>3, <1>7, <1>8, <2>2 DEF RunsSee
<1> QED
  BY <1>4, <1>7, <1>9 DEF EarlyInv

\* A run goes on.
LEMMA GoesOnKnown ==
    ASSUME TypeOK, TypeOK', EarlyInv, Onward, PaymentsExcused', UNCHANGED billed,
           NEW r \in Runners, NEW name, At(r, name), name # "ProcessPercent",
           NEW s \in State, Applied(r, s), Recall(s)'
    PROVE  EarlyInv'
<1>1. /\ UNCHANGED <<day, billed, stages, saved>>
      /\ Resumed(r, step[r] + 1, view[r], s)
  BY DEF Applied
<1>2. /\ step[r] + 1 \in 1 .. Len(stages) + 1 /\ view[r] \in View /\ r \in working
      /\ step[r] \in 1 .. Len(stages) /\ stages[step[r]] # "ProcessPercent"
  <2>1. step[r] \in 1 .. Len(stages) + 1 /\ step[r] <= Len(stages) /\ stages[step[r]] = name
    BY DEF At, TypeOK
  <2>2. step[r] \in 1 .. Len(stages)
    BY <2>1, StagesTyped
  <2> QED
    BY <2>1, <2>2, AtTyped
<1>3. PICK n \in 1 .. Len(stages) + 1, w \in View, u \in State :
         /\ step[r] + 1 <= n
         /\ w.date = view[r].date /\ w.at = view[r].at
         /\ w.amount = Left(view[r].amount, step[r] + 1, n)
         /\ u.lastDue = s.lastDue /\ u.lastAmount = s.lastAmount
         /\ step' = [step EXCEPT ![r] = n]
         /\ view' = [view EXCEPT ![r] = w]
         /\ state' = [state EXCEPT ![r] = u]
         /\ working' = working \cup {r}
  <2>1. PICK i \in 1 .. Len(stages) + 1, v \in View :
           i = step[r] + 1 /\ v = view[r] /\ Resumed(r, i, v, s)
    BY <1>1, <1>2
  <2>2. PICK n \in 1 .. Len(stages) + 1, w \in View, u \in State :
           /\ i <= n
           /\ w.date = v.date /\ w.at = v.at /\ w.amount = Left(v.amount, i, n)
           /\ u.lastDue = s.lastDue /\ u.lastAmount = s.lastAmount
           /\ step' = [step EXCEPT ![r] = n]
           /\ view' = [view EXCEPT ![r] = w]
           /\ state' = [state EXCEPT ![r] = u]
           /\ working' = working \cup {r}
    BY <2>1, ResumedKeeps
  <2> QED
    BY <2>1, <2>2
<1>4. /\ step'[r] = n /\ view'[r] = w /\ state'[r] = u
      /\ \A q \in Runners \ {r} : /\ step'[q] = step[q] /\ view'[q] = view[q]
                                  /\ state'[q] = state[q]
  BY <1>3 DEF TypeOK
<1>5. Calendar'
  BY <1>1 DEF EarlyInv, Calendar
<1>6. Recall(state[r])'
  <2>1. Recall(u)'
    BY <1>3 DEF Recall
  <2> QED
    BY <1>4, <2>1 DEF Recall
<1>7. Recall(saved)'
  <2>1. PICK t : t = saved /\ t = saved'
    BY <1>1
  <2>2. Recall(t)
    BY <2>1 DEF EarlyInv, Recall
  <2>3. Recall(t)'
    BY <2>2, RecallKept
  <2> QED
    BY <2>1, <2>3 DEF Recall
<1>8. Sees(r)'
  <2>1. Sees(r)
    BY <1>2 DEF EarlyInv, RunsSee
  <2>2. w.amount = Left(DueAmount, 1, n)
    <3>1. PICK k \in 1 .. Len(stages) : k = step[r]
      BY <1>2
    <3>2. Left(Left(DueAmount, 1, k), k + 1, n) = Left(DueAmount, 1, n)
      BY <1>2, <1>3, <3>1, LeftOn
    <3> QED
      BY <1>3, <2>1, <3>1, <3>2 DEF Sees
  <2>3. Left(DueAmount, 1, n) = Left(DueAmount, 1, n)'
    BY <1>1, OwedSame DEF Left
  <2> QED
    BY <1>1, <1>3, <1>4, <2>1, <2>2, <2>3 DEF Sees, Left
<1>9. RunsSee'
  <2>1. working \subseteq Runners /\ RunsSee
    BY DEF TypeOK, EarlyInv
  <2>2. \A q \in working \ {r} : Recall(state[q])' /\ Sees(q)'
    BY <1>1, <1>4, <2>1, RunsKept
  <2> QED
    BY <1>3, <1>6, <1>8, <2>2 DEF RunsSee
<1> QED
  BY <1>5, <1>7, <1>9 DEF EarlyInv

\* What PayVisa sees.
LEMMA SeesOwed ==
    ASSUME TypeOK, EarlyInv, NEW r \in Runners, At(r, "PayVisa")
    PROVE  /\ view[r].at = day
           /\ \E i \in Statements : view[r].date = Due[i]
           /\ view[r].amount = Owed(Len(billed))
           /\ Recall(state[r])
<1>1. r \in working /\ step[r] \in 1 .. Len(stages) /\ stages[step[r]] = "PayVisa"
  <2>1. step[r] \in 1 .. Len(stages) + 1
    BY DEF TypeOK
  <2> QED
    BY <2>1, StagesTyped DEF At
<1>2. Recall(state[r]) /\ Sees(r)
  BY <1>1 DEF EarlyInv, RunsSee
<1>3. PICK l \in Nat, k \in Nat : /\ l = Len(stages) /\ DOMAIN stages = 1 .. l
                                  /\ k = step[r] /\ k \in 1 .. l
  BY <1>1, StagesTyped
<1>4. (\E j \in 1 .. k - 1 : stages[j] = "ProcessPercent") <=> "ProcessPercent" \in Range(stages)
  <2>1. \A j \in 1 .. k - 1 : j \in 1 .. l
    BY <1>3
  <2>2. \A j \in 1 .. l : j \in 1 .. k - 1 \/ j = k \/ k < j
    BY <1>3
  <2>3. \A j \in 1 .. l : k < j => stages[j] # "ProcessPercent"
    BY <1>1, <1>3, PercentOnce
  <2>4. "ProcessPercent" \in Range(stages) <=> \E j \in 1 .. l : stages[j] = "ProcessPercent"
    BY <1>3 DEF Range
  <2> QED
    BY <1>1, <1>3, <2>1, <2>2, <2>3, <2>4
<1>5. PICK a : a = DueAmount
  OBVIOUS
<1>6. Owed(Len(billed)) = IF "ProcessPercent" \in Range(stages) THEN Percentage(a) ELSE a
  <2>1. PICK b \in Seq(Int) : b = billed
    BY DEF TypeOK
  <2>2. b = <<>> <=> Len(b) = 0
    OBVIOUS
  <2> QED
    BY <1>5, <2>1, <2>2 DEF Owed, DueAmount, Percentage
<1>7. Left(a, 1, k) = IF "ProcessPercent" \in Range(stages) THEN Percentage(a) ELSE a
  BY <1>4 DEF Left
<1> QED
  BY <1>2, <1>3, <1>5, <1>6, <1>7 DEF Sees

\* Whoever pays early has a reason.
LEMMA WantsExcused ==
    ASSUME TypeOK, EarlyInv, NEW r \in Runners, At(r, "PayVisa"),
           WantsPayment(view[r], state[r])
    PROVE  Excused(Requested(view[r], state[r]))
<1>1. PICK v \in View, s \in State : v = view[r] /\ s = state[r]
  BY AtTyped
<1>2. PICK m \in Nat, d \in Nat : m = Len(billed) /\ d = day
  BY DEF TypeOK
<1>3. v.at = d /\ v.amount = Owed(m) /\ Recall(s) /\ WantsPayment(v, s)
  BY <1>1, <1>2, SeesOwed
<1>4. PICK p : /\ p = Requested(v, s)
               /\ p.due = v.date /\ p.known = m /\ p.last = s.lastDue
  <2>1. /\ Requested(v, s).due = v.date /\ Requested(v, s).last = s.lastDue
        /\ Requested(v, s).known = Len(billed)
    BY DEF Requested
  <2> QED
    BY <1>2, <2>1
<1> SUFFICES ASSUME NEW i \in Statements \ {1}, Early(p), p.due = Due[i],
                    ~ (p.last # None /\ p.last < Due[i - 1]), ~ EarlyFor(Due[i - 1])
             PROVE  \E n \in 0 .. p.known : n < i - 1 /\ Owed(n) <= 0
  BY <1>1, <1>4 DEF Excused
<1>5. m < i
  <2>1. PICK j \in Statements : Due[j] = Due[i] /\ m < j
    BY <1>4 DEF Early
  <2>2. j = i
    <3>1. /\ i \in Nat /\ j \in Nat /\ Due[i] \in Nat /\ Due[j] \in Nat
          /\ (i < j => Due[i] < Due[j]) /\ (j < i => Due[j] < Due[i])
      BY CalendarDays
    <3> QED
      BY <2>1, <3>1
  <2> QED
    BY <2>1, <2>2
<1>6. /\ i \in Nat \ {0} /\ i - 1 \in Statements /\ i - 1 \in Nat \ {0}
      /\ Due[i] \in Nat /\ Due[i - 1] \in Nat /\ Closes[i] \in Nat
      /\ Closes[i] + Window <= Due[i] /\ Window \in Nat
  BY CalendarDays
<1>7. s.lastAmount # None /\ s.lastAmount # Owed(m)
  <2>1. ~ (Closes[i] <= d)
    BY <1>2, <1>5, <1>6 DEF EarlyInv, Calendar
  <2>2. ~ (v.date - v.at < Window)
    BY <1>3, <1>4, <1>6, <2>1
  <2> QED
    BY <1>3, <2>2 DEF WantsPayment
<1>8. s.lastDue # None /\ s.lastDue < Due[i] /\ ~ (s.lastDue < Due[i - 1])
  BY <1>3, <1>4, <1>7 DEF Recall, WantsPayment
<1>9. ~ (s.lastDue < Due[1])
  <2>1. PICK j \in Statements, k \in Statements :
           j = i - 1 /\ k = 1 /\ (k < j => Due[k] < Due[j])
           /\ j \in Nat \ {0} /\ Due[j] \in Nat /\ Due[k] \in Nat
    BY <1>6, CalendarDays
  <2>2. Due[1] <= Due[i - 1]
    <3>1. j = k \/ k < j
      BY <2>1
    <3> QED
      BY <2>1, <3>1
  <2>3. s.lastDue \in Int
    BY <1>8 DEF State, Maybe
  <2> QED
    BY <1>6, <1>8, <2>1, <2>2, <2>3
<1>10. PICK j \in Statements, n \in 0 .. m :
          /\ s.lastDue = Due[j] /\ s.lastAmount = Owed(n)
          /\ n < j => Owed(n) <= 0 \/ EarlyFor(Due[j])
  BY <1>2, <1>3, <1>7, <1>9 DEF Recall
<1>11. j = i - 1
  <2>1. PICK k \in Statements : k = i - 1
    BY <1>6
  <2>2. /\ j \in Nat /\ Due[j] \in Nat
        /\ (i < j => Due[i] < Due[j]) /\ (j < k => Due[j] < Due[k])
    BY CalendarDays
  <2>3. j # i /\ ~ (i < j) /\ ~ (j < k)
    BY <1>6, <1>8, <1>10, <2>1, <2>2
  <2> QED
    BY <1>6, <2>1, <2>2, <2>3
<1>12. n < j
  BY <1>2, <1>5, <1>6, <1>7, <1>10, <1>11
<1> QED
  BY <1>4, <1>10, <1>11, <1>12

\* The payment is remembered, or nothing to pay is.
LEMMA PaidRecalled ==
    ASSUME TypeOK, TypeOK', EarlyInv, UNCHANGED <<billed, stages>>,
           NEW r \in Runners, At(r, "PayVisa"),
           NEW s, s.lastDue = view[r].date, s.lastAmount = view[r].amount,
           \/ view[r].amount <= 0
           \/ \E k \in DOMAIN payments' : /\ payments'[k].due = view[r].date
                                          /\ payments'[k].known = Len(billed)
    PROVE  Recall(s)'
<1>1. PICK m \in Nat : m = Len(billed) /\ m = Len(billed')
  BY DEF TypeOK
<1>2. PICK j \in Statements : s.lastDue = Due[j] /\ s.lastAmount = Owed(m)
  BY <1>1, SeesOwed
<1>3. Owed(m)' = Owed(m)
  BY OwedSame
<1>4. m < j /\ ~ (view[r].amount <= 0) => EarlyFor(Due[j])'
  <2> SUFFICES ASSUME m < j, ~ (view[r].amount <= 0)
               PROVE  EarlyFor(Due[j])'
    OBVIOUS
  <2>1. PICK k \in DOMAIN payments' : payments'[k].due = Due[j] /\ payments'[k].known = m
    BY <1>1, <1>2
  <2>2. Early(payments'[k])
    BY <2>1 DEF Early
  <2>3. \E i \in DOMAIN payments' : payments'[i].due = Due[j] /\ Early(payments'[i])
    BY <2>1, <2>2
  <2> QED
    BY <2>3 DEF EarlyFor, Early
<1>5. m < j => Owed(m)' <= 0 \/ EarlyFor(Due[j])'
  BY <1>1, <1>2, <1>3, <1>4
<1>6. s.lastDue # None
  BY <1>2, CalendarDays, StagesAssumption DEF StagesAssumption
<1>7. m \in 0 .. Len(billed')
  BY <1>1
<1>8. \E i \in Statements, n \in 0 .. Len(billed)' :
         /\ s.lastDue = Due[i] /\ s.lastAmount = Owed(n)'
         /\ n < i => Owed(n)' <= 0 \/ EarlyFor(Due[i])'
  BY <1>2, <1>3, <1>5, <1>7
<1> QED
  BY <1>6, <1>8 DEF Recall

\* A run pays.
LEMMA PayVisaKnown ==
    ASSUME TypeOK, TypeOK', EarlyInv, NEW r \in Runners, PayVisa(r)
    PROVE  EarlyInv'
<1>1. /\ At(r, "PayVisa") /\ WantsPayment(view[r], state[r]) /\ UNCHANGED billed
      /\ payments' = Append(payments, Requested(view[r], state[r]))
      /\ \/ Applied(r, Paid(view[r], state[r], ToPay(view[r])))
         \/ Applied(r, state[r])
      /\ ToPay(view[r]) >= 0
  BY DEF PayVisa, Requested, bank
<1>2. stages' = stages
  BY <1>1 DEF Applied
<1>3. view[r] \in View /\ state[r] \in State
  BY <1>1, AtTyped
<1>4. PICK p \in Payment :
         /\ p = Requested(view[r], state[r])
         /\ p.due = view[r].date /\ p.known = Len(billed)
  BY <1>1, <1>3, RequestTyped DEF Requested
<1>5. PICK ps \in Seq(Payment), n \in Nat : ps = payments /\ n = Len(ps) /\ DOMAIN ps = 1 .. n
  BY DEF TypeOK
<1>6. PICK new \in Seq(Payment) :
         /\ new = payments' /\ DOMAIN new = 1 .. n + 1
         /\ new[n + 1] = p /\ \A k \in 1 .. n : new[k] = ps[k]
  <2>1. PICK new \in Seq(Payment) : new = Append(ps, p)
    <3>1. Append(ps, p) \in Seq(Payment)
      OBVIOUS
    <3> QED
      BY <3>1
  <2>2. DOMAIN new = 1 .. n + 1
    BY <1>5, <2>1
  <2>3. new[n + 1] = p /\ \A k \in 1 .. n : new[k] = ps[k]
    BY <1>5, <2>1
  <2> QED
    BY <1>1, <1>4, <1>5, <2>1, <2>2, <2>3
<1>7. PICK last \in DOMAIN payments' : /\ payments'[last] = p
                                       /\ \A k \in DOMAIN payments' : k # last => k \in DOMAIN payments
  <2>1. n + 1 \in 1 .. n + 1 /\ \A k \in 1 .. n + 1 : k # n + 1 => k \in 1 .. n
    OBVIOUS
  <2> QED
    BY <1>5, <1>6, <2>1
<1>8. PICK l \in Nat : l = Len(billed) /\ l = Len(billed')
  <2>1. billed' = billed
    BY <1>1
  <2>2. Len(billed) \in Nat
    BY DEF TypeOK
  <2> QED
    BY <2>1, <2>2
<1>9. Onward
  <2>1. \A k \in DOMAIN payments : k \in DOMAIN payments' /\ payments'[k] = payments[k]
    <3>1. \A k \in 1 .. n : k \in 1 .. n + 1
      OBVIOUS
    <3> QED
      BY <1>5, <1>6, <3>1
  <2>2. \A k \in 0 .. Len(billed) : Owed(k)' = Owed(k)
    BY <1>1, <1>2, OwedSame
  <2> QED
    BY <1>8, <2>1, <2>2 DEF Onward
<1>10. PaymentsExcused'
  <2>1. Excused(p) /\ p.known \in Nat /\ p.known <= Len(billed)
    BY <1>1, <1>4, <1>8, WantsExcused
  <2>2. Excused(p)'
    BY <1>9, <2>1, ExcusedKept
  <2>3. Excused(payments[last])' /\ payments'[last].known <= Len(billed')
    BY <1>4, <1>7, <1>8, <2>2 DEF Excused, Early
  <2>4. \A k \in DOMAIN payments' :
           \/ k \in DOMAIN payments
           \/ Excused(payments[k])' /\ payments'[k].known <= Len(billed')
    BY <1>7, <2>3
  <2> QED
    BY <1>9, <2>4, PaymentsKept DEF EarlyInv
<1>11. CASE Applied(r, state[r])
  <2>1. PICK s : s = state[r]
    OBVIOUS
  <2>2. Recall(s)
    BY <1>1, <2>1, SeesOwed
  <2>3. Recall(s)'
    BY <1>9, <2>2, RecallKept
  <2> QED
    BY <1>1, <1>3, <1>9, <1>10, <1>11, <2>1, <2>3, GoesOnKnown
<1>12. CASE Applied(r, Paid(view[r], state[r], ToPay(view[r])))
  <2>1. PICK s \in State : /\ s = Paid(view[r], state[r], ToPay(view[r]))
                           /\ s.lastDue = view[r].date /\ s.lastAmount = view[r].amount
    BY <1>3, MovedTyped
  <2>2. Recall(s)'
    BY <1>1, <1>2, <1>4, <1>7, <2>1, PaidRecalled
  <2> QED
    BY <1>1, <1>9, <1>10, <1>12, <2>1, <2>2, GoesOnKnown
<1> QED
  BY <1>1, <1>11, <1>12

\* The other steps of a run.
LEMMA WorkKnown ==
    ASSUME TypeOK, TypeOK', EarlyInv, NEW r \in Runners,
           Work(r) \/ Crash(r), ~ PayVisa(r)
    PROVE  EarlyInv'
<1>1. UNCHANGED <<billed, payments, stages>>
  BY DEF Work, Ensure, SendNothing, SendETransfer, PayNothing, StageFails, Save, Crash,
         Applied, bank, coin
<1>2. Onward /\ PaymentsExcused'
  <2>1. Onward
    BY <1>1, SameOnward
  <2> QED
    BY <1>1, <2>1, PaymentsKept DEF EarlyInv
<1>3. \A name : At(r, name) => view[r] \in View /\ state[r] \in State /\ r \in working
  BY AtTyped
<1>4. ASSUME NEW name, At(r, name), name # "ProcessPercent", NEW s \in State, Applied(r, s),
             s.lastDue = state[r].lastDue, s.lastAmount = state[r].lastAmount
      PROVE  EarlyInv'
  <2>1. Recall(state[r])
    BY <1>3, <1>4 DEF EarlyInv, RunsSee
  <2>2. Recall(s)
    BY <1>4, <2>1 DEF Recall
  <2>3. Recall(s)'
    BY <1>2, <2>2, RecallKept
  <2> QED
    BY <1>1, <1>2, <1>4, <2>3, GoesOnKnown
<1>5. CASE Ensure(r)
  <2>1. /\ At(r, "EnsureHarvesterBalance")
        /\ Applied(r, EnsureHarvesterBalance(state[r], Available))
    BY <1>5 DEF Ensure
  <2>2. PICK s \in State : /\ s = EnsureHarvesterBalance(state[r], Available)
                           /\ s.lastDue = state[r].lastDue /\ s.lastAmount = state[r].lastAmount
    BY <1>3, <2>1, EnsuredTyped
  <2> QED
    BY <1>4, <2>1, <2>2
<1>6. CASE SendNothing(r)
  BY <1>3, <1>4, <1>6 DEF SendNothing
<1>7. CASE SendETransfer(r)
  <2>1. /\ At(r, "SendETransfer") /\ WantsTransfer(state[r])
        /\ Applied(r, Transferred(view[r], state[r])) \/ Applied(r, state[r])
    BY <1>7 DEF SendETransfer
  <2>2. PICK s \in State : /\ s = Transferred(view[r], state[r])
                           /\ s.lastDue = state[r].lastDue /\ s.lastAmount = state[r].lastAmount
    <3>1. Transferred(view[r], state[r]) \in State
      BY <1>3, <2>1, MovedTyped
    <3>2. /\ Transferred(view[r], state[r]).lastDue = state[r].lastDue
          /\ Transferred(view[r], state[r]).lastAmount = state[r].lastAmount
      BY <1>3, <2>1 DEF Transferred, State
    <3> QED
      BY <3>1, <3>2
  <2> QED
    BY <1>3, <1>4, <2>1, <2>2
<1>8. CASE PayNothing(r)
  <2>1. /\ At(r, "PayVisa")
        /\ \/ Applied(r, state[r])
           \/ view[r].amount <= 0 /\ Applied(r, Paid(view[r], state[r], 0))
    BY <1>8 DEF PayNothing
  <2>2. CASE view[r].amount <= 0 /\ Applied(r, Paid(view[r], state[r], 0))
    <3>1. PICK s \in State : /\ s = Paid(view[r], state[r], 0)
                             /\ s.lastDue = view[r].date /\ s.lastAmount = view[r].amount
      <4>1. view[r] \in View /\ state[r] \in State
        BY <1>3, <2>1
      <4>2. PICK nought \in Int : nought = 0
        OBVIOUS
      <4>3. /\ Paid(view[r], state[r], nought) \in State
            /\ Paid(view[r], state[r], nought).lastDue = view[r].date
            /\ Paid(view[r], state[r], nought).lastAmount = view[r].amount
        BY <4>1, MovedTyped
      <4> QED
        BY <4>2, <4>3
    <3>2. Recall(s)'
      BY <1>1, <2>1, <2>2, <3>1, PaidRecalled
    <3> QED
      BY <1>1, <1>2, <2>1, <2>2, <3>1, <3>2, GoesOnKnown
  <2> QED
    BY <1>3, <1>4, <2>1, <2>2
<1>9. CASE StageFails(r)
  <2>1. PICK name : At(r, name) /\ name # "ProcessPercent"
    BY <1>9 DEF StageFails
  <2>2. Applied(r, state[r])
    BY <1>9 DEF StageFails
  <2> QED
    BY <1>3, <1>4, <2>1, <2>2
<1>10. CASE Save(r) \/ Crash(r)
  <2>1. /\ r \in working /\ Idle(r) /\ day' = day
        /\ saved' = state[r] \/ saved' = saved
    BY <1>10 DEF Save, Crash
  <2>2. /\ working' = working \ {r}
        /\ \A q \in working \ {r} : /\ step'[q] = step[q] /\ view'[q] = view[q]
                                    /\ state'[q] = state[q]
    BY <2>1 DEF Idle, TypeOK
  <2>3. RunsSee'
    <3>1. RunsSee
      BY DEF EarlyInv
    <3> QED
      BY <1>1, <1>2, <2>1, <2>2, <3>1, RunsKept DEF RunsSee
  <2>4. Recall(saved)'
    <3>1. PICK s : s = saved'
      OBVIOUS
    <3>2. Recall(s)
      BY <2>1, <3>1 DEF EarlyInv, RunsSee, Recall
    <3>3. Recall(s)'
      BY <1>2, <3>2, RecallKept
    <3> QED
      BY <3>1, <3>3 DEF Recall
  <2>5. Calendar'
    BY <1>1, <2>1 DEF EarlyInv, Calendar
  <2> QED
    BY <1>2, <2>3, <2>4, <2>5 DEF EarlyInv
<1> QED
  BY <1>5, <1>6, <1>7, <1>8, <1>9, <1>10 DEF Work

LEMMA InitKnown == Init => EarlyInv
<1> SUFFICES ASSUME Init PROVE EarlyInv
  OBVIOUS
<1>1. day = 0 /\ billed = <<>> /\ payments = <<>> /\ working = {}
  BY DEF Init
<1>2. Calendar
  <2>1. ASSUME NEW i \in Statements PROVE ~ (i <= 0) /\ ~ (Closes[i] <= 0)
    <3>1. i \in Nat \ {0} /\ Closes[i] \in Nat \ {0}
      BY CalendarDays
    <3> QED
      BY <3>1
  <2> QED
    BY <1>1, <2>1 DEF Calendar
<1>3. Recall(saved)
  <2>1. PICK start \in Starts :
           saved = [Unsaved EXCEPT !.lastDue = start.lastDue, !.lastAmount = start.lastAmount]
    BY DEF Init
  <2>2. saved.lastDue = start.lastDue /\ saved.lastAmount = start.lastAmount
    BY <2>1 DEF Unsaved
  <2>3. start.lastAmount # None => start.lastDue # None /\ start.lastDue < Due[1]
    BY HarvesterAssumption DEF HarvesterAssumption
  <2> QED
    BY <2>2, <2>3 DEF Recall
<1>4. PaymentsExcused
  BY <1>1 DEF PaymentsExcused
<1> QED
  BY <1>1, <1>2, <1>3, <1>4 DEF EarlyInv, RunsSee

LEMMA StepKnown == TypeOK /\ TypeOK' /\ EarlyInv /\ [Next]_vars => EarlyInv'
<1> SUFFICES ASSUME TypeOK, TypeOK', EarlyInv, [Next]_vars PROVE EarlyInv'
  OBVIOUS
<1>1. CASE UNCHANGED vars
  BY <1>1 DEF vars, bank, coin, run, EarlyInv, Calendar, Recall, RunsSee, PaymentsExcused,
              Excused, EarlyFor, Early, Sees, Left, DueAmount, Owed
<1>2. CASE Next
  BY <1>2, BankStepsKnown, TickKnown, InitializeKnown, PayVisaKnown, WorkKnown DEF Next
<1> QED
  BY <1>1, <1>2

\* A statement is not paid before its amount is known, with the amount of one
\* before, but in the cases that AmountKnown names: for any calendar in which
\* statements follow each other, any steps, and any number of runs and faults.
THEOREM HarvestKnowsAmounts == Spec => []AmountKnown
<1>1. EarlyInv => AmountKnown
  <2> SUFFICES ASSUME EarlyInv, NEW p \in Range(payments), NEW i \in Statements \ {1},
                      Early(p), p.due = Due[i]
               PROVE  \/ p.last # None /\ p.last < Due[i - 1]
                      \/ \E q \in Range(payments) : q.due = Due[i - 1] /\ Early(q)
                      \/ \E n \in 0 .. p.known : n < i - 1 /\ Owed(n) <= 0
    BY DEF AmountKnown
  <2>1. PICK k \in DOMAIN payments : p = payments[k]
    BY DEF Range
  <2>2. Excused(p)
    BY <2>1 DEF EarlyInv, PaymentsExcused
  <2>3. EarlyFor(Due[i - 1]) => \E q \in Range(payments) : q.due = Due[i - 1] /\ Early(q)
    BY DEF EarlyFor, Range
  <2> QED
    BY <2>2, <2>3 DEF Excused
<1>2. Spec => []TypeOK
  BY HarvestTyped
<1>3. Spec => []EarlyInv
  BY InitKnown, StepKnown, <1>2, PTL DEF Spec
<1> QED
  BY <1>1, <1>3, PTL
=============================================================================
