----------------------------- MODULE CoinProofs -----------------------------
(***************************************************************************)
(* For any number of clients, accounts and moments and for all prices: the *)
(* coin's contract keeps its types, so no balance and no total underflows; *)
(* what is pending keeps the plugin attached; the total that a client has  *)
(* pending is the sum of what the client has registered; a signed request  *)
(* takes effect once; and the contract with its converter keeps the        *)
(* promises of module Promises.                                            *)
(***************************************************************************)
EXTENDS TheCoin, SequenceTheorems, FiniteSetTheorems, WellFoundedInduction, TLAPS

USE PriceAssumption, AccountAssumption, CoinAssumption
    DEF PriceAssumption, AccountAssumption, CoinAssumption, Amounts

\* Moments are numbers.
LEMMA TimesNat == Times \subseteq Nat
BY DEF Times

\* Fiat is worth some coin.
LEMMA ToCoinNat ==
    ASSUME NEW fiat \in Nat, NEW t \in Times
    PROVE  ToCoin(fiat, t) \in Nat
<1> DEFINE n == fiat * Scale + Rounding
           p == Price[t]
<1>1. fiat * Scale \in Nat
  OBVIOUS
<1>2. n \in Nat
  BY <1>1
<1>3. p \in Nat \ {0}
  OBVIOUS
<1> HIDE DEF n, p
<1>4. n \div p \in Nat
  BY <1>2, <1>3
<1> QED
  BY <1>4 DEF ToCoin, n, p

\* A transfer that the payer can cover leaves every balance a number.
LEMMA TransferredNat ==
    ASSUME TypeOK, NEW from \in Accounts, NEW to \in Accounts,
           NEW coin \in Nat, coin <= balances[from]
    PROVE  Transferred(from, to, coin) \in [Accounts -> Nat]
<1>1. balances \in [Accounts -> Nat]
  BY DEF TypeOK
<1>2. ASSUME NEW x \in Accounts
      PROVE  Transferred(from, to, coin)[x] \in Nat
  <2>1. CASE x = to /\ x = from
    BY <1>1, <2>1 DEF Transferred
  <2>2. CASE x = to /\ x # from
    BY <1>1, <2>2 DEF Transferred
  <2>3. CASE x # to
    BY <1>1, <2>3 DEF Transferred
  <2> QED
    BY <2>1, <2>2, <2>3
<1>3. Transferred(from, to, coin) = [x \in Accounts |-> Transferred(from, to, coin)[x]]
  BY <1>1 DEF Transferred
<1> QED
  BY <1>2, <1>3

\* Two of them, the second to whoever has the fee.
LEMMA WithFeeNat ==
    ASSUME TypeOK, NEW from \in Accounts, NEW to \in Accounts, NEW other \in Accounts,
           NEW coin \in Nat, NEW fee \in Nat,
           coin <= balances[from], fee <= Transferred(from, to, coin)[from]
    PROVE  [Transferred(from, to, coin) EXCEPT ![from] = @ - fee,
                                               ![other] = @ + fee]
              \in [Accounts -> Nat]
<1> DEFINE b == Transferred(from, to, coin)
<1>1. b \in [Accounts -> Nat]
  BY TransferredNat
<1> HIDE DEF b
<1>2. ASSUME fee <= b[from]
      PROVE  [b EXCEPT ![from] = @ - fee, ![other] = @ + fee] \in [Accounts -> Nat]
  BY <1>1, <1>2
<1> QED
  BY <1>2 DEF b

\* Dropping an element of a list of permissions leaves one.
LEMMA WithoutSeq ==
    ASSUME NEW s \in Seq(BOOLEAN), NEW i \in 1 .. Len(s)
    PROVE  Without(s, i) \in Seq(BOOLEAN)
<1>1. SubSeq(s, 1, i - 1) \in Seq(BOOLEAN)
  BY SubSeqProperties
<1>2. SubSeq(s, i + 1, Len(s)) \in Seq(BOOLEAN)
  BY SubSeqProperties
<1> QED
  BY <1>1, <1>2 DEF Without

\* What a transfer becomes is a number of coins, and of fiat to register.
LEMMA ModifiedNat ==
    ASSUME NEW c \in Clients, NEW amount \in Nat, NEW currency \in {CAD, Coin},
           NEW at \in Times
    PROVE  /\ Modified(c, amount, currency, at).amount \in Nat
           /\ Modified(c, amount, currency, at).registered \in Nat
BY ToCoinNat DEF Modified, ModifyTransfer, Outcome

\* Changing one entry of what is registered leaves numbers.
LEMMA RaisedNat ==
    ASSUME NEW c \in Clients, NEW a \in Accounts, NEW t \in Times, NEW n \in Nat,
           NEW f \in [Clients -> [Accounts -> [Times -> Nat]]]
    PROVE  /\ [f EXCEPT ![c][a][t] = @ + n] \in [Clients -> [Accounts -> [Times -> Nat]]]
           /\ [f EXCEPT ![c][a][t] = n] \in [Clients -> [Accounts -> [Times -> Nat]]]
<1>1. f[c] \in [Accounts -> [Times -> Nat]] /\ f[c][a] \in [Times -> Nat] /\ f[c][a][t] \in Nat
  OBVIOUS
<1>2. ASSUME NEW m \in Nat
      PROVE  [f EXCEPT ![c][a][t] = m] \in [Clients -> [Accounts -> [Times -> Nat]]]
  <2>1. [f[c][a] EXCEPT ![t] = m] \in [Times -> Nat]
    BY <1>1
  <2>2. [f[c] EXCEPT ![a] = [f[c][a] EXCEPT ![t] = m]] \in [Accounts -> [Times -> Nat]]
    BY <1>1, <2>1
  <2> QED
    BY <2>2
<1>3. f[c][a][t] + n \in Nat
  BY <1>1
<1>4. [f EXCEPT ![c][a][t] = @ + n] = [f EXCEPT ![c][a][t] = f[c][a][t] + n]
  OBVIOUS
<1> QED
  BY <1>2, <1>3, <1>4

LEMMA InitTyped == Init => TypeOK
BY DEF Init, TypeOK

LEMMA StepTyped == TypeOK /\ [Next]_vars => TypeOK'
<1> SUFFICES ASSUME TypeOK, [Next]_vars PROVE TypeOK'
  OBVIOUS
<1> USE DEF clock, converter, requests
<1> DEFINE Others == /\ now \in Nat \ {0}
                     /\ horizon \in Nat
                     /\ transfers \in [Clients -> [Accounts -> [Times -> Nat]]]
                     /\ total \in [Clients -> Nat]
                     /\ balances \in [Accounts -> Nat]
                     /\ lastTx \in [Clients -> Nat]
                     /\ freezeUntil \in [Accounts -> Nat]
                     /\ plugins \in [Clients -> Seq(BOOLEAN)]
<1>1. ASSUME NEW coin \in Amounts, MintCoins(coin) \/ BurnCoins(coin) PROVE TypeOK'
  <2>1. balances' \in [Accounts -> Nat]
    <3>1. balances \in [Accounts -> Nat]
      BY DEF TypeOK
    <3>2. \/ balances' = [balances EXCEPT ![Treasury] = @ + coin]
          \/ /\ coin <= balances[Treasury]
             /\ balances' = [balances EXCEPT ![Treasury] = @ - coin]
      BY <1>1 DEF MintCoins, BurnCoins
    <3> QED
      BY <3>1, <3>2
  <2>2. UNCHANGED <<clock, converter, requests, freezeUntil, plugins>>
    BY <1>1 DEF MintCoins, BurnCoins
  <2> QED
    BY <2>1, <2>2 DEF TypeOK
<1>2. ASSUME NEW from \in Accounts, NEW to \in Accounts, NEW coin \in Amounts,
             Transfer(from, to, coin),
             UNCHANGED <<clock, converter, requests, freezeUntil, plugins>>
      PROVE  TypeOK'
  <2>1. balances' \in [Accounts -> Nat]
    BY <1>2, TransferredNat DEF Transfer
  <2> QED
    BY <1>2, <2>1 DEF TypeOK
<1>3. ASSUME NEW a \in Accounts, NEW coin \in Amounts, NEW at \in Times,
             ExactTransfer(a, coin, at)
      PROVE  TypeOK'
  BY <1>2, <1>3 DEF ExactTransfer
<1>4. ASSUME NEW a \in Accounts, NEW b \in Accounts, NEW coin \in Amounts,
             \/ RevertTransfer(a, b, coin)
             \/ TransferCoin(a, b, coin)
             \/ TransferFrom(a, b, coin)
             \/ TransferTo(a, b, coin)
      PROVE  TypeOK'
  BY <1>2, <1>4 DEF RevertTransfer, TransferCoin, TransferFrom, TransferTo
<1>5. ASSUME NEW a \in Accounts, NEW b \in Accounts, NEW coin \in Amounts,
             NEW fee \in 0 .. MaxFee, RunCloneTransfer(a, b, coin, fee)
      PROVE  TypeOK'
  <2>1. balances' \in [Accounts -> Nat]
    <3>1. /\ coin <= balances[a]
          /\ fee <= Transferred(a, b, coin)[a]
          /\ balances' = [Transferred(a, b, coin) EXCEPT ![a] = @ - fee,
                                                    ![Treasury] = @ + fee]
      BY <1>5 DEF RunCloneTransfer
    <3>2. a \in Accounts /\ Treasury \in Accounts /\ coin \in Nat /\ fee \in Nat
      OBVIOUS
    <3> HIDE DEF CoinAssumption, AccountAssumption
    <3> QED
      BY <3>1, <3>2, WithFeeNat
  <2>2. UNCHANGED <<clock, converter, requests, freezeUntil, plugins>>
    BY <1>5 DEF RunCloneTransfer
  <2> QED
    BY <2>1, <2>2 DEF TypeOK
<1>6. ASSUME NEW a \in Suspects, NEW t \in Freezes, SetAccountFreezeTime(a, t) PROVE TypeOK'
  BY <1>6, CoinAssumption DEF TypeOK, SetAccountFreezeTime
<1>7. ASSUME NEW c \in Clients, NEW a \in Accounts, NEW sender \in Accounts,
             NEW coin \in Amounts, NEW fee \in 0 .. MaxFee, NEW at \in Times,
             CertifiedTransfer(c, a, coin, fee, sender, at)
      PROVE  Others'
  <2>1. balances' \in [Accounts -> Nat]
    <3>1. /\ coin <= balances[c]
          /\ fee <= Transferred(c, a, coin)[c]
          /\ balances' = [Transferred(c, a, coin) EXCEPT ![c] = @ - fee,
                                                    ![sender] = @ + fee]
      BY <1>7 DEF CertifiedTransfer
    <3>2. c \in Accounts /\ sender \in Accounts /\ coin \in Nat /\ fee \in Nat
      OBVIOUS
    <3> HIDE DEF CoinAssumption, AccountAssumption
    <3> QED
      BY <3>1, <3>2, WithFeeNat
  <2>2. UNCHANGED <<clock, converter, freezeUntil, plugins>> /\ Signed(c, at)
    BY <1>7 DEF CertifiedTransfer
  <2> QED
    BY <2>1, <2>2, TimesNat DEF TypeOK, Signed
<1>8. ASSUME NEW c \in Clients, NEW a \in Accounts, NEW amount \in Nat,
             NEW currency \in {CAD, Coin}, NEW at \in Times, NEW signedAt \in Times,
             UberTransfer(c, a, amount, currency, at, signedAt)
      PROVE  Others'
  <2> DEFINE final == Modified(c, amount, currency, at)
  <2>1. final.amount \in Nat /\ final.registered \in Nat
    BY ModifiedNat
  <2>2. /\ Signed(c, signedAt)
        /\ Register(c, a, at, final.registered)
        /\ balances' = balances \/ Transfer(c, a, final.amount)
        /\ UNCHANGED <<clock, freezeUntil, plugins>>
    BY <1>8 DEF UberTransfer
  <2> HIDE DEF final
  <2>3. balances' \in [Accounts -> Nat]
    <3>1. CASE balances' = balances
      BY <3>1 DEF TypeOK
    <3>2. CASE Transfer(c, a, final.amount)
      BY <2>1, <3>2, TransferredNat DEF Transfer
    <3> QED
      BY <2>2, <3>1, <3>2
  <2>4. transfers' \in [Clients -> [Accounts -> [Times -> Nat]]]
    BY <2>1, <2>2, RaisedNat DEF Register, TypeOK
  <2>5. total' \in [Clients -> Nat]
    <3>1. total \in [Clients -> Nat] /\ total' = [total EXCEPT ![c] = @ + final.registered]
      BY <2>2 DEF Register, TypeOK
    <3> QED
      BY <2>1, <3>1
  <2> QED
    BY <2>2, <2>3, <2>4, <2>5, TimesNat DEF TypeOK, Signed
<1>9. ASSUME NEW c \in Clients, NEW may \in BOOLEAN, NEW at \in Times,
             AssignPlugin(c, may, at)
      PROVE  Others'
  <2>1. plugins' \in [Clients -> Seq(BOOLEAN)]
    BY <1>9 DEF TypeOK, AssignPlugin
  <2> QED
    BY <1>9, <2>1, TimesNat DEF TypeOK, AssignPlugin, Signed
<1>10. ASSUME NEW c \in Clients, NEW i \in 1 .. Len(plugins[c]), NEW at \in Times,
              RemovePlugin(c, i, at)
       PROVE  Others'
  <2>1. plugins' \in [Clients -> Seq(BOOLEAN)]
    BY <1>10, WithoutSeq DEF TypeOK, RemovePlugin
  <2> QED
    BY <1>10, <2>1, TimesNat DEF TypeOK, RemovePlugin, Signed, UserDetached
<1>11. ASSUME NEW c \in Clients, NEW a \in Accounts, NEW t \in Times,
              ProcessPending(c, a, t)
       PROVE  TypeOK'
  <2>1. transfers[c][a][t] \in Nat
    BY DEF TypeOK
  <2>2. balances' \in [Accounts -> Nat]
    BY <1>11, <2>1, ToCoinNat, TransferredNat DEF ProcessPending, Transfer
  <2>3. transfers' \in [Clients -> [Accounts -> [Times -> Nat]]]
    BY <1>11 DEF ProcessPending, Settled, TypeOK
  <2>4. total' \in [Clients -> Nat]
    BY <1>11, <2>1 DEF ProcessPending, Settled, TypeOK
  <2> QED
    BY <1>11, <2>2, <2>3, <2>4 DEF TypeOK, ProcessPending
<1>12. ASSUME Tick \/ Publish PROVE TypeOK'
  BY <1>12 DEF TypeOK, Tick, Publish
<1>13. ASSUME UNCHANGED vars PROVE TypeOK'
  BY <1>13 DEF TypeOK, vars
<1>14. ASSUME NEW c \in Clients, Request(c) PROVE TypeOK'
  <2>1. PICK signedAt \in Times :
           /\ Take(c, signedAt)
           /\ accepted' = [accepted EXCEPT ![c] = Append(@, signedAt)]
    BY <1>14 DEF Request
  <2>2. Others'
    <3> HIDE DEF Others
    <3> QED
      BY <1>7, <1>8, <1>9, <1>10, <2>1 DEF Take
  <2>3. accepted' \in [Clients -> Seq(Times)]
    BY <2>1 DEF TypeOK
  <2> QED
    BY <2>2, <2>3 DEF TypeOK
<1> QED
  BY <1>1, <1>3, <1>4, <1>5, <1>6, <1>11, <1>12, <1>13, <1>14
  DEF Next, Company, Holder

\* The variables keep their types: no balance and no total goes below zero.
THEOREM CoinTyped == Spec => []TypeOK
BY InitTyped, StepTyped, PTL DEF Spec

-----------------------------------------------------------------------------
(* What is pending keeps the plugin.                                       *)

\* Only a client with the converter registers a transfer; it is one of the
\* future, and no coin moves.
LEMMA RegisteredLater ==
    ASSUME NEW c \in Clients, NEW amount, NEW currency, NEW at,
           Modified(c, amount, currency, at).registered # 0
    PROVE  /\ plugins[c] # <<>>
           /\ at > now
           /\ Modified(c, amount, currency, at).amount = 0
BY DEF Modified, ModifyTransfer, Outcome

\* The actions that change what is pending or which plugins there are.
LEMMA StepKinds ==
    ASSUME [Next]_vars
    PROVE  \/ UNCHANGED <<converter, plugins, requests>>
           \/ \E c \in Clients : Request(c)
           \/ \E c \in Clients, a \in Accounts, t \in Times : ProcessPending(c, a, t)
<1> USE DEF converter
<1>1. CASE Company
  BY <1>1 DEF Company, MintCoins, BurnCoins, ExactTransfer, RevertTransfer,
              RunCloneTransfer, SetAccountFreezeTime
<1>2. CASE Holder
  BY <1>2 DEF Holder, TransferCoin, TransferFrom, TransferTo
<1>3. CASE Tick \/ Publish
  BY <1>3 DEF Tick, Publish
<1>4. CASE UNCHANGED vars
  BY <1>4 DEF vars
<1> QED
  BY <1>1, <1>2, <1>3, <1>4 DEF Next

LEMMA UberRegisters ==
    ASSUME NEW c \in Clients, NEW a \in Accounts, NEW amount \in Nat,
           NEW currency \in {CAD, Coin}, NEW at \in Times, NEW signedAt \in Times,
           UberTransfer(c, a, amount, currency, at, signedAt)
    PROVE  \E f \in Nat :
              /\ Signed(c, signedAt)
              /\ Register(c, a, at, f)
              /\ f # 0 => plugins[c] # <<>> /\ at > now /\ UNCHANGED balances
              /\ UNCHANGED <<now, plugins>>
<1> DEFINE final == Modified(c, amount, currency, at)
<1>1. final.amount \in Nat /\ final.registered \in Nat
  BY ModifiedNat
<1>2. final.registered # 0 => plugins[c] # <<>> /\ at > now /\ final.amount = 0
  BY RegisteredLater
<1>3. /\ Signed(c, signedAt)
      /\ Register(c, a, at, final.registered)
      /\ final.amount # 0 \/ UNCHANGED balances
      /\ UNCHANGED <<now, plugins>>
  BY DEF UberTransfer, clock
<1> HIDE DEF final
<1> QED
  BY <1>1, <1>2, <1>3

CoinInv == TypeOK /\ PendingAttached

LEMMA StepAttached == CoinInv /\ [Next]_vars => PendingAttached'
<1> SUFFICES ASSUME TypeOK, PendingAttached, [Next]_vars,
                    NEW d \in Clients, total'[d] > 0
             PROVE  plugins'[d] # <<>>
  BY DEF CoinInv, PendingAttached
<1>0. /\ total \in [Clients -> Nat]
      /\ plugins \in [Clients -> Seq(BOOLEAN)]
      /\ transfers \in [Clients -> [Accounts -> [Times -> Nat]]]
      /\ total[d] > 0 => plugins[d] # <<>>
  BY DEF TypeOK, PendingAttached
<1>1. CASE UNCHANGED <<converter, plugins, requests>>
  BY <1>0, <1>1 DEF converter
<1>2. ASSUME NEW c \in Clients, NEW a \in Accounts, NEW amount \in Nat,
             NEW currency \in {CAD, Coin}, NEW at \in Times, NEW signedAt \in Times,
             UberTransfer(c, a, amount, currency, at, signedAt)
      PROVE  plugins'[d] # <<>>
  <2>1. PICK f \in Nat : /\ Register(c, a, at, f)
                         /\ f # 0 => plugins[c] # <<>>
                         /\ plugins' = plugins
    BY <1>2, UberRegisters
  <2>2. total' = [total EXCEPT ![c] = @ + f]
    BY <2>1 DEF Register
  <2> QED
    BY <1>0, <2>1, <2>2
<1>3. ASSUME NEW c \in Clients, NEW may \in BOOLEAN, NEW at \in Times,
             AssignPlugin(c, may, at)
      PROVE  plugins'[d] # <<>>
  <2>1. Append(plugins[c], may) # <<>>
    <3>1. plugins[c] \in Seq(BOOLEAN)
      BY <1>0
    <3> QED
      BY <3>1, AppendProperties, ZenonT(30)
  <2>2. total' = total /\ plugins' = [plugins EXCEPT ![c] = Append(@, may)]
    BY <1>3 DEF AssignPlugin, converter
  <2> QED
    BY <1>0, <2>1, <2>2
<1>4. ASSUME NEW c \in Clients, NEW i, NEW at \in Times, RemovePlugin(c, i, at)
      PROVE  plugins'[d] # <<>>
  <2>1. /\ total' = [total EXCEPT ![c] = 0]
        /\ plugins' = [plugins EXCEPT ![c] = Without(@, i)]
    BY <1>4 DEF RemovePlugin, UserDetached
  <2> QED
    BY <1>0, <2>1
<1>5. ASSUME NEW c \in Clients, NEW a \in Accounts, NEW t \in Times,
             ProcessPending(c, a, t)
      PROVE  plugins'[d] # <<>>
  <2>1. /\ total' = [total EXCEPT ![c] = @ - transfers[c][a][t]]
        /\ plugins' = plugins
    BY <1>5 DEF ProcessPending, Settled
  <2>2. transfers[c][a][t] \in Nat
    BY <1>0
  <2> QED
    BY <1>0, <2>1, <2>2
<1>6. ASSUME NEW c \in Clients, Request(c) PROVE plugins'[d] # <<>>
  <2>1. ASSUME NEW a \in Accounts, NEW sender \in Accounts, NEW coin \in Amounts,
               NEW fee \in 0 .. MaxFee, NEW at \in Times,
               CertifiedTransfer(c, a, coin, fee, sender, at)
        PROVE  plugins'[d] # <<>>
    BY <1>0, <2>1 DEF CertifiedTransfer, converter
  <2> QED
    BY <1>2, <1>3, <1>4, <1>6, <2>1 DEF Request, Take
<1> QED
  BY <1>1, <1>5, <1>6, StepKinds

\* The types and the plugin that pending transfers need, together.
LEMMA CoinInvariant == Spec => []CoinInv
<1>1. Init => CoinInv
  BY InitTyped DEF CoinInv, Init, PendingAttached
<1>2. CoinInv /\ [Next]_vars => CoinInv'
  BY StepTyped, StepAttached DEF CoinInv
<1> QED
  BY <1>1, <1>2, PTL DEF Spec

\* A client with transfers pending has the converter attached.
THEOREM CoinAttached == Spec => []PendingAttached
<1>1. CoinInv => PendingAttached
  BY DEF CoinInv
<1> QED
  BY <1>1, CoinInvariant, PTL

-----------------------------------------------------------------------------
(* Sums over what a client has registered.                                 *)

Slots == Accounts \X Times
First(s) == CHOOSE x \in s : TRUE

\* What the function g must be to add the entries of f up, set by set.
Sum(g, f, s) ==
    IF s = {} THEN 0 ELSE f[First(s)[1]][First(s)[2]] + g[s \ {First(s)}]
Adds(g, f) == g = [s \in SUBSET Slots |-> Sum(g, f, s)]

SumOf(f) == MapThenSumSet(LAMBDA x : f[x[1]][x[2]], Slots)

\* Induction on numbers, and on the sets that lose one element after another.
LEMMA FromZeroOn ==
    ASSUME NEW P, 0 \in P, \A n \in Nat : n \in P => n + 1 \in P
    PROVE  Nat \subseteq P
<1> DEFINE others == Nat \ P
<1>1. SUFFICES ASSUME others # {} PROVE FALSE
  OBVIOUS
<1>2. PICK n \in others : \A m \in others : ~ (<<m, n>> \in OpToRel(<, Nat))
  <2> HIDE DEF others
  <2>1. others \in SUBSET Nat
    BY DEF others
  <2> QED
    BY <1>1, <2>1, NatLessThanWellFounded, WFMin
<1>3. n \in Nat /\ n # 0 /\ n - 1 \in Nat
  OBVIOUS
<1>4. n - 1 \notin others
  <2>1. \A m \in others : m \in Nat /\ ~ (m < n)
    BY <1>2 DEF OpToRel
  <2> HIDE DEF others
  <2>2. n - 1 < n
    BY <1>3
  <2> QED
    BY <2>1, <2>2
<1>5. n - 1 + 1 \in P
  BY <1>3, <1>4
<1> QED
  BY <1>3, <1>5

LEMMA SlotsFinite ==
    ASSUME NEW s \in SUBSET Slots
    PROVE  /\ IsFiniteSet(s) /\ Cardinality(s) \in Nat
           /\ Cardinality(s) <= Cardinality(Slots) /\ Cardinality(Slots) \in Nat
           /\ s # {} => /\ First(s) \in s /\ s \ {First(s)} \in SUBSET Slots
                        /\ Cardinality(s \ {First(s)}) = Cardinality(s) - 1
           /\ Cardinality(s) = 0 => s = {}
<1>1. IsFiniteSet(Slots)
  <2>1. IsFiniteSet(Times)
    BY FS_Interval DEF Times
  <2> QED
    BY <2>1, FS_Product DEF Slots
<1>2. /\ IsFiniteSet(s) /\ Cardinality(s) \in Nat
      /\ Cardinality(s) <= Cardinality(Slots) /\ Cardinality(Slots) \in Nat
  BY <1>1, FS_Subset, FS_CardinalityType
<1>3. Cardinality(s) = 0 => s = {}
  BY <1>2, FS_EmptySet
<1>4. ASSUME s # {}
      PROVE  /\ First(s) \in s /\ s \ {First(s)} \in SUBSET Slots
             /\ Cardinality(s \ {First(s)}) = Cardinality(s) - 1
  <2>1. First(s) \in s
    BY <1>4 DEF First
  <2> QED
    BY <1>2, <2>1, FS_RemoveElement
<1> QED
  BY <1>2, <1>3, <1>4

LEMMA SlotBySlot ==
    ASSUME NEW P, {} \in P,
           \A s \in SUBSET Slots : s # {} /\ s \ {First(s)} \in P => s \in P
    PROVE  Slots \in P
<1> DEFINE Q == {n \in Nat : \A s \in SUBSET Slots : Cardinality(s) = n => s \in P}
<1>1. 0 \in Q
  BY SlotsFinite
<1>2. ASSUME NEW n \in Nat, n \in Q PROVE n + 1 \in Q
  <2> SUFFICES ASSUME NEW s \in SUBSET Slots, Cardinality(s) = n + 1 PROVE s \in P
    OBVIOUS
  <2>1. s # {}
    <3> SUFFICES ASSUME s = {} PROVE FALSE
      OBVIOUS
    <3>1. Cardinality(s) = 0
      BY FS_EmptySet
    <3> HIDE DEF Q
    <3> QED
      BY <1>2, <3>1
  <2>2. Cardinality(s \ {First(s)}) = n /\ s \ {First(s)} \in SUBSET Slots
    BY <2>1, SlotsFinite
  <2> QED
    BY <1>2, <2>1, <2>2
<1> HIDE DEF Q
<1>3. Nat \subseteq Q
  BY <1>1, <1>2, FromZeroOn
<1>4. Slots \in SUBSET Slots /\ Cardinality(Slots) \in Nat
  BY SlotsFinite
<1> QED
  BY <1>3, <1>4 DEF Q

\* There is such a function.
LEMMA SumExists ==
    ASSUME NEW f
    PROVE  \E g : Adds(g, f)
<1> DEFINE Part(g, n) == \A s \in SUBSET Slots : Cardinality(s) <= n => g[s] = Sum(g, f, s)
           P == {n \in Nat : \E g : Part(g, n)}
<1>1. 0 \in P
  <2> DEFINE g == [s \in SUBSET Slots |-> 0]
  <2>1. ASSUME NEW s \in SUBSET Slots, Cardinality(s) <= 0 PROVE g[s] = Sum(g, f, s)
    <3>1. Cardinality(s) = 0
      <4>1. Cardinality(s) \in Nat
        BY SlotsFinite
      <4> HIDE DEF P, Part
      <4> QED
        BY <2>1, <4>1
    <3>2. s = {}
      BY <3>1, SlotsFinite
    <3> QED
      BY <3>2 DEF Sum
  <2> HIDE DEF g
  <2> QED
    BY <2>1
<1>2. ASSUME NEW n \in Nat, n \in P PROVE n + 1 \in P
  <2>1. PICK h : Part(h, n)
    BY <1>2
  <2> DEFINE g == [s \in SUBSET Slots |-> Sum(h, f, s)]
  <2>2. ASSUME NEW s \in SUBSET Slots, Cardinality(s) <= n + 1
        PROVE  g[s] = Sum(g, f, s)
    <3>1. CASE s = {}
      BY <3>1 DEF Sum
    <3>2. CASE s # {}
      <4>1. PICK r \in SUBSET Slots : r = s \ {First(s)} /\ Cardinality(r) <= n
        <5>1. /\ s \ {First(s)} \in SUBSET Slots /\ Cardinality(s) \in Nat
              /\ Cardinality(s \ {First(s)}) = Cardinality(s) - 1
          BY <3>2, SlotsFinite
        <5>2. Cardinality(s \ {First(s)}) <= n
          BY <2>2, <5>1
        <5> QED
          BY <5>1, <5>2
      <4>2. g[r] = h[r]
        BY <2>1, <4>1
      <4> QED
        BY <3>2, <4>1, <4>2 DEF Sum
    <3> QED
      BY <3>1, <3>2
  <2> HIDE DEF g
  <2>3. Part(g, n + 1)
    BY <2>2
  <2> QED
    BY <2>3
<1> HIDE DEF P
<1>3. Cardinality(Slots) \in P
  BY <1>1, <1>2, FromZeroOn, SlotsFinite
<1>4. PICK h : Part(h, Cardinality(Slots))
  BY <1>3 DEF P
<1> DEFINE g == [s \in SUBSET Slots |-> h[s]]
<1>5. ASSUME NEW s \in SUBSET Slots PROVE g[s] = Sum(g, f, s)
  <2>1. h[s] = Sum(h, f, s)
    BY <1>4, SlotsFinite
  <2>2. Sum(h, f, s) = Sum(g, f, s)
    BY SlotsFinite DEF Sum
  <2> QED
    BY <2>1, <2>2
<1>6. g = [s \in SUBSET Slots |-> Sum(g, f, s)]
  <2>1. g = [s \in SUBSET Slots |-> g[s]]
    OBVIOUS
  <2> HIDE DEF g
  <2> QED
    BY <1>5, <2>1
<1> HIDE DEF g
<1> QED
  BY <1>6 DEF Adds

LEMMA SumIsOne ==
    ASSUME NEW f
    PROVE  \E g : Adds(g, f) /\ SumOf(f) = g[Slots]
<1>1. SumOf(f) = (CHOOSE g : Adds(g, f))[Slots]
  BY DEF SumOf, Adds, Sum, MapThenSumSet, MapThenFoldSet, First
<1> QED
  BY <1>1, SumExists

\* Nothing adds up to nothing.
LEMMA SumOfNothing ==
    ASSUME NEW f, \A a \in Accounts, t \in Times : f[a][t] = 0
    PROVE  SumOf(f) = 0
<1>1. PICK g : Adds(g, f) /\ SumOf(f) = g[Slots]
  BY SumIsOne
<1>2. \A s \in SUBSET Slots : g[s] = Sum(g, f, s)
  BY <1>1 DEF Adds
<1> DEFINE P == {s \in SUBSET Slots : g[s] = 0}
<1>3. {} \in P
  BY <1>2 DEF Sum
<1>4. ASSUME NEW s \in SUBSET Slots, s # {}, s \ {First(s)} \in P PROVE s \in P
  <2>1. First(s) \in Slots /\ g[s \ {First(s)}] = 0
    BY <1>4, SlotsFinite
  <2>2. f[First(s)[1]][First(s)[2]] = 0
    BY <2>1 DEF Slots
  <2> QED
    BY <1>2, <1>4, <2>1, <2>2 DEF Sum
<1>5. Slots \in P
  <2> HIDE DEF P
  <2> QED
    BY <1>3, <1>4, SlotBySlot
<1> QED
  BY <1>1, <1>5

\* A sum changes with an entry, by as much.
LEMMA SumChanges ==
    ASSUME NEW f \in [Accounts -> [Times -> Nat]],
           NEW a \in Accounts, NEW t \in Times, NEW n \in Nat
    PROVE  /\ SumOf(f) \in Nat
           /\ SumOf([f EXCEPT ![a][t] = n]) = SumOf(f) + n - f[a][t]
<1>1. PICK h : h = [f EXCEPT ![a][t] = n]
  OBVIOUS
<1>2. /\ f[a][t] \in Nat
      /\ \A b \in Accounts, u \in Times :
            /\ f[b][u] \in Nat
            /\ h[b][u] = IF b = a /\ u = t THEN n ELSE f[b][u]
  BY <1>1
<1>3. PICK g : Adds(g, f) /\ SumOf(f) = g[Slots]
  BY SumIsOne
<1>4. PICK k : Adds(k, h) /\ SumOf(h) = k[Slots]
  BY SumIsOne
<1>5. \A s \in SUBSET Slots : g[s] = Sum(g, f, s) /\ k[s] = Sum(k, h, s)
  BY <1>3, <1>4 DEF Adds
<1> DEFINE more(s) == IF <<a, t>> \in s THEN n - f[a][t] ELSE 0
           P == {s \in SUBSET Slots : g[s] \in Nat /\ k[s] = g[s] + more(s)}
<1>6. {} \in P
  <2>1. g[{}] = 0 /\ k[{}] = 0
    BY <1>5 DEF Sum
  <2> QED
    BY <2>1
<1>7. ASSUME NEW s \in SUBSET Slots, s # {}, s \ {First(s)} \in P PROVE s \in P
  <2>1. PICK b \in Accounts, u \in Times : First(s) = <<b, u>> /\ <<b, u>> \in s
    <3>1. First(s) \in s /\ First(s) \in Accounts \X Times
      BY <1>7, SlotsFinite DEF Slots
    <3>2. PICK b \in Accounts, u \in Times : First(s) = <<b, u>>
      BY <3>1
    <3> QED
      BY <3>1, <3>2
  <2>2. PICK r : r = s \ {<<b, u>>} /\ r = s \ {First(s)}
    BY <2>1
  <2>3. g[r] \in Nat /\ k[r] = g[r] + more(r)
    BY <1>7, <2>2
  <2>4. g[s] = f[b][u] + g[r] /\ k[s] = h[b][u] + k[r]
    <3>1. g[s] = Sum(g, f, s) /\ k[s] = Sum(k, h, s)
      BY <1>5
    <3>2. First(s)[1] = b /\ First(s)[2] = u
      BY <2>1
    <3> QED
      BY <1>7, <2>2, <3>1, <3>2 DEF Sum
  <2>5. CASE b = a /\ u = t
    <3>1. <<a, t>> \notin r /\ <<a, t>> \in s /\ h[b][u] = n /\ f[b][u] = f[a][t]
      BY <1>2, <2>1, <2>2, <2>5
    <3> QED
      BY <1>2, <2>3, <2>4, <3>1
  <2>6. CASE ~ (b = a /\ u = t)
    <3>1. (<<a, t>> \in r <=> <<a, t>> \in s) /\ h[b][u] = f[b][u] /\ f[b][u] \in Nat
      BY <1>2, <2>2, <2>6
    <3> QED
      BY <1>2, <2>3, <2>4, <3>1
  <2> QED
    BY <2>5, <2>6
<1>8. Slots \in P
  <2> HIDE DEF P
  <2> QED
    BY <1>6, <1>7, SlotBySlot
<1>9. <<a, t>> \in Slots
  BY DEF Slots
<1> QED
  BY <1>1, <1>2, <1>3, <1>4, <1>8, <1>9

\* No entry is more than the sum.
LEMMA PartOfSum ==
    ASSUME NEW f \in [Accounts -> [Times -> Nat]], NEW a \in Accounts, NEW t \in Times
    PROVE  f[a][t] <= SumOf(f)
<1>1. PICK n \in Nat : n = 0
  OBVIOUS
<1>2. PICK h : h = [f EXCEPT ![a][t] = n]
  OBVIOUS
<1>3. h \in [Accounts -> [Times -> Nat]]
  <2>1. [f[a] EXCEPT ![t] = n] \in [Times -> Nat]
    OBVIOUS
  <2>2. [f EXCEPT ![a] = [f[a] EXCEPT ![t] = n]] \in [Accounts -> [Times -> Nat]]
    BY <2>1
  <2> QED
    BY <1>2, <2>2
<1>4. SumOf([f EXCEPT ![a][t] = n]) = SumOf(f) + n - f[a][t] /\ SumOf(f) \in Nat
  BY SumChanges
<1>5. SumOf(h) \in Nat
  BY <1>1, <1>3, SumChanges
<1>6. f[a][t] \in Nat
  OBVIOUS
<1> QED
  BY <1>1, <1>2, <1>4, <1>5, <1>6

LEMMA RegisteredIs ==
    ASSUME NEW c \in Clients
    PROVE  Registered(c) = SumOf(transfers[c]) /\ Registered(c)' = SumOf(transfers'[c])
BY DEF SumOf, Registered, Slots, MapThenSumSet, MapThenFoldSet

LEMMA InitMatches == Init => TotalMatches
<1> SUFFICES ASSUME Init, NEW c \in Clients PROVE total[c] = Registered(c)
  BY DEF TotalMatches
<1>1. total[c] = 0 /\ \A a \in Accounts, t \in Times : transfers[c][a][t] = 0
  BY DEF Init
<1> QED
  BY <1>1, SumOfNothing, RegisteredIs

\* The converter changes one entry of its record, and the total as much.
LEMMA StepMatches == TypeOK /\ TotalMatches /\ [Next]_vars => TotalMatches'
<1> SUFFICES ASSUME TypeOK, TotalMatches, [Next]_vars, NEW d \in Clients
             PROVE  total'[d] = Registered(d)'
  BY DEF TotalMatches
<1>0. /\ total \in [Clients -> Nat]
      /\ transfers \in [Clients -> [Accounts -> [Times -> Nat]]]
      /\ total[d] = SumOf(transfers[d])
  BY RegisteredIs DEF TypeOK, TotalMatches
<1>1. SUFFICES total'[d] = SumOf(transfers'[d])
  BY RegisteredIs
<1>2. CASE UNCHANGED converter
  BY <1>0, <1>2 DEF converter
<1>3. ASSUME NEW c \in Clients, NEW a \in Accounts, NEW t \in Times, NEW n \in Nat,
             transfers' = [transfers EXCEPT ![c][a][t] = n],
             total' = [total EXCEPT ![c] = total[c] + n - transfers[c][a][t]]
      PROVE  total'[d] = SumOf(transfers'[d])
  <2>1. CASE c = d
    <3>1. PICK f \in [Accounts -> [Times -> Nat]] : f = transfers[d]
      BY <1>0
    <3>2. transfers'[d] = [f EXCEPT ![a][t] = n] /\ total'[d] = SumOf(f) + n - f[a][t]
      BY <1>0, <1>3, <2>1, <3>1
    <3>3. SumOf([f EXCEPT ![a][t] = n]) = SumOf(f) + n - f[a][t]
      BY SumChanges
    <3>4. PICK h : h = [f EXCEPT ![a][t] = n]
      OBVIOUS
    <3> QED
      BY <3>2, <3>3, <3>4
  <2>2. CASE c # d
    BY <1>0, <1>3, <2>2
  <2> QED
    BY <2>1, <2>2
<1>4. ASSUME NEW c \in Clients, NEW a \in Accounts, NEW amount \in Nat,
             NEW currency \in {CAD, Coin}, NEW at \in Times, NEW signedAt \in Times,
             UberTransfer(c, a, amount, currency, at, signedAt)
      PROVE  total'[d] = SumOf(transfers'[d])
  <2>1. PICK f \in Nat : Register(c, a, at, f)
    BY <1>4, UberRegisters
  <2>2. PICK x \in Nat, n \in Nat, m \in Nat :
             x = transfers[c][a][at] /\ n = x + f /\ m = total[c] /\ m + n - x = m + f
    <3>1. PICK x \in Nat, m \in Nat : x = transfers[c][a][at] /\ m = total[c]
      BY <1>0
    <3>2. x + f \in Nat /\ m + (x + f) - x = m + f
      OBVIOUS
    <3> QED
      BY <3>1, <3>2
  <2>3. /\ transfers' = [transfers EXCEPT ![c][a][at] = n]
        /\ total' = [total EXCEPT ![c] = total[c] + n - transfers[c][a][at]]
    BY <2>1, <2>2 DEF Register
  <2> QED
    BY <1>3, <2>3
<1>5. ASSUME NEW c \in Clients, Request(c) PROVE total'[d] = SumOf(transfers'[d])
  <2>1. ASSUME NEW may \in BOOLEAN, NEW at \in Times, AssignPlugin(c, may, at)
        PROVE  total'[d] = SumOf(transfers'[d])
    BY <1>2, <2>1 DEF AssignPlugin
  <2>2. ASSUME NEW i, NEW at \in Times, RemovePlugin(c, i, at)
        PROVE  total'[d] = SumOf(transfers'[d])
    <3>1. /\ total[c] = 0 /\ total' = [total EXCEPT ![c] = 0]
          /\ transfers' = transfers
      BY <2>2 DEF RemovePlugin, UserDetached
    <3> QED
      BY <1>0, <3>1
  <2>3. ASSUME NEW a \in Accounts, NEW sender \in Accounts, NEW coin \in Amounts,
               NEW fee \in 0 .. MaxFee, NEW at \in Times,
               CertifiedTransfer(c, a, coin, fee, sender, at)
        PROVE  total'[d] = SumOf(transfers'[d])
    BY <1>2, <2>3 DEF CertifiedTransfer
  <2> QED
    BY <1>4, <1>5, <2>1, <2>2, <2>3 DEF Request, Take
<1>6. ASSUME NEW c \in Clients, NEW a \in Accounts, NEW t \in Times,
             ProcessPending(c, a, t)
      PROVE  total'[d] = SumOf(transfers'[d])
  <2>1. PICK x \in Nat, m \in Nat :
             x = transfers[c][a][t] /\ m = total[c] /\ m + 0 - x = m - x
    BY <1>0
  <2>2. /\ transfers' = [transfers EXCEPT ![c][a][t] = 0]
        /\ total' = [total EXCEPT ![c] = total[c] + 0 - transfers[c][a][t]]
    BY <1>6, <2>1 DEF ProcessPending, Settled
  <2> QED
    BY <1>3, <2>2
<1> QED
  BY <1>2, <1>5, <1>6, StepKinds

\* The total that withdrawals are held against is the sum of the transfers
\* that are registered.
THEOREM CoinTotals == Spec => []TotalMatches
BY InitMatches, StepMatches, CoinTyped, PTL DEF Spec

Covered == \A c \in Clients, a \in Accounts, t \in Times : transfers[c][a][t] <= total[c]

\* So the subtraction from the total when a transfer has been paid does not
\* underflow, which would keep that transfer from ever being processed.
THEOREM CoinCovered == Spec => []Covered
<1>1. TypeOK /\ TotalMatches => Covered
  <2> SUFFICES ASSUME TypeOK, TotalMatches,
                      NEW c \in Clients, NEW a \in Accounts, NEW t \in Times
               PROVE  transfers[c][a][t] <= total[c]
    BY DEF Covered
  <2>1. PICK f \in [Accounts -> [Times -> Nat]] : f = transfers[c]
    BY DEF TypeOK
  <2>2. f[a][t] <= SumOf(f)
    BY PartOfSum
  <2> QED
    BY <2>1, <2>2, RegisteredIs DEF TotalMatches
<1> QED
  BY <1>1, CoinTyped, CoinTotals, PTL

-----------------------------------------------------------------------------
(* Signed requests.                                                        *)

\* Whatever a client signed, the contract looks at its time and keeps it.
LEMMA TakeSigned ==
    ASSUME NEW c \in Clients, NEW signedAt \in Times, Take(c, signedAt)
    PROVE  Signed(c, signedAt)
BY DEF Take, CertifiedTransfer, UberTransfer, AssignPlugin, RemovePlugin

\* No request that took effect was signed after the last timestamp.
LastIsLast == \A c \in Clients : \A i \in DOMAIN accepted[c] : accepted[c][i] <= lastTx[c]

AcceptInv == LastIsLast /\ RequestsOnce

LEMMA StepAccepted == TypeOK /\ AcceptInv /\ [Next]_vars => AcceptInv'
<1> SUFFICES ASSUME TypeOK, AcceptInv, [Next]_vars PROVE AcceptInv'
  OBVIOUS
<1>1. CASE UNCHANGED requests
  BY <1>1 DEF AcceptInv, LastIsLast, RequestsOnce, requests
<1>2. ASSUME NEW c \in Clients, Request(c) PROVE AcceptInv'
  <2>1. PICK at \in Times :
           /\ Take(c, at)
           /\ accepted' = [accepted EXCEPT ![c] = Append(@, at)]
    BY <1>2 DEF Request
  <2>2. /\ lastTx \in [Clients -> Nat]
        /\ accepted \in [Clients -> Seq(Times)]
        /\ at \in Nat
        /\ at > lastTx[c]
        /\ lastTx' = [lastTx EXCEPT ![c] = at]
    BY <2>1, TakeSigned, TimesNat DEF TypeOK, Signed
  <2>3. ASSUME NEW d \in Clients
        PROVE  /\ \A i \in DOMAIN accepted'[d] : accepted'[d][i] <= lastTx'[d]
               /\ \A i, j \in DOMAIN accepted'[d] :
                     i < j => accepted'[d][i] < accepted'[d][j]
    <3>1. /\ \A i \in DOMAIN accepted[d] : accepted[d][i] <= lastTx[d]
          /\ \A i, j \in DOMAIN accepted[d] : i < j => accepted[d][i] < accepted[d][j]
      BY DEF AcceptInv, LastIsLast, RequestsOnce
    <3>2. CASE d # c
      BY <2>1, <2>2, <3>1, <3>2
    <3>3. CASE d = c
      <4>1. PICK s \in Seq(Times) : s = accepted[c]
        BY <2>2
      <4>2. accepted'[d] = Append(s, at) /\ lastTx'[d] = at
        BY <2>1, <2>2, <3>3, <4>1
      <4>3. \A i \in 1 .. Len(s) : s[i] \in Nat /\ s[i] < at
        <5>1. \A i \in 1 .. Len(s) : s[i] <= lastTx[c]
          BY <3>1, <3>3, <4>1
        <5>2. \A i \in 1 .. Len(s) : s[i] \in Times
          OBVIOUS
        <5>3. \A i \in 1 .. Len(s) : s[i] \in Nat
          BY <5>2, TimesNat
        <5>4. lastTx[c] \in Nat
          BY <2>2
        <5> QED
          BY <2>2, <5>1, <5>3, <5>4
      <4>4. \A i \in 1 .. Len(s) + 1 :
               Append(s, at)[i] = IF i = Len(s) + 1 THEN at ELSE s[i]
        BY <4>1
      <4>5. DOMAIN Append(s, at) = 1 .. Len(s) + 1 /\ DOMAIN s = 1 .. Len(s)
        BY <4>1
      <4>6. \A i, j \in 1 .. Len(s) : i < j => s[i] < s[j]
        BY <3>1, <3>3, <4>1, <4>5
      <4>7. \A i \in 1 .. Len(s) + 1 : i # Len(s) + 1 => i \in 1 .. Len(s)
        BY <4>1
      <4> QED
        BY <2>2, <4>2, <4>3, <4>4, <4>5, <4>6, <4>7
    <3> QED
      BY <3>2, <3>3
  <2> QED
    BY <2>3 DEF AcceptInv, LastIsLast, RequestsOnce
<1>3. ASSUME NEW c \in Clients, NEW a \in Accounts, NEW t \in Times,
             ProcessPending(c, a, t)
      PROVE  AcceptInv'
  BY <1>1, <1>3 DEF ProcessPending
<1> QED
  BY <1>1, <1>2, <1>3, StepKinds

\* No signed request takes effect twice, nor after a later one.
THEOREM CoinRequestsOnce == Spec => []RequestsOnce
<1>1. Init => AcceptInv
  BY DEF Init, AcceptInv, LastIsLast, RequestsOnce
<1>2. AcceptInv => RequestsOnce
  BY DEF AcceptInv
<1> QED
  BY <1>1, <1>2, StepAccepted, CoinTyped, PTL DEF Spec

-----------------------------------------------------------------------------
(* The contract and its converter keep what module Promises says.          *)

\* An entry that is raised by nothing stays.
LEMMA RaisedByNothing ==
    ASSUME TypeOK, NEW c \in Clients, NEW a \in Accounts, NEW t \in Times
    PROVE  [transfers EXCEPT ![c][a][t] = @ + 0] = transfers
<1>1. transfers[c][a][t] \in Nat
  BY DEF TypeOK
<1>2. transfers[c][a][t] + 0 = transfers[c][a][t]
  BY <1>1
<1> QED
  BY <1>2 DEF TypeOK

LEMMA StepPromises == TypeOK /\ [Next]_vars => [Promised!Next]_(Promised!vars)
<1> SUFFICES ASSUME TypeOK, [Next]_vars PROVE Promised!Next \/ UNCHANGED Promised!vars
  OBVIOUS
<1> USE DEF Promised!Next, Promised!Elsewhere, clock, converter
<1>1. CASE Company
  BY <1>1 DEF Company, MintCoins, BurnCoins, ExactTransfer, RevertTransfer,
              RunCloneTransfer, SetAccountFreezeTime
<1>2. CASE Holder
  BY <1>2 DEF Holder, TransferCoin, TransferFrom, TransferTo
<1>3. CASE Tick
  <2>1. now' > now /\ UNCHANGED <<transfers, balances>>
    BY <1>3 DEF Tick, TypeOK
  <2> QED
    BY <2>1 DEF Promised!Tick
<1>4. CASE Publish
  BY <1>4 DEF Publish
<1>5. CASE UNCHANGED vars
  BY <1>5 DEF vars
<1>6. ASSUME NEW c \in Clients, NEW a \in Accounts, NEW amount \in Nat,
             NEW currency \in {CAD, Coin}, NEW at \in Times, NEW signedAt \in Times,
             UberTransfer(c, a, amount, currency, at, signedAt)
      PROVE  Promised!Next
  <2>1. PICK f \in Nat : /\ Register(c, a, at, f)
                         /\ f # 0 => at > now /\ UNCHANGED balances
                         /\ UNCHANGED now
    BY <1>6, UberRegisters
  <2>2. transfers' = [transfers EXCEPT ![c][a][at] = @ + f]
    BY <2>1 DEF Register
  <2>3. CASE f = 0
    BY <2>1, <2>2, <2>3, RaisedByNothing
  <2>4. CASE f # 0
    <3>1. transfers[c][a][at] \in Nat
      BY DEF TypeOK
    <3>2. transfers'[c][a][at] = transfers[c][a][at] + f
      BY <2>2 DEF TypeOK
    <3>3. transfers' = [transfers EXCEPT ![c][a][at] = transfers'[c][a][at]]
      BY <2>2, <3>2
    <3>4. Promised!Promise(c, a, at)
      BY <2>1, <2>4, <3>1, <3>2, <3>3 DEF Promised!Promise
    <3> QED
      BY <3>4 DEF Promised!Times, Times
  <2> QED
    BY <2>3, <2>4
<1>7. ASSUME NEW c \in Clients, Request(c) PROVE Promised!Next
  BY <1>6, <1>7 DEF Request, Take, CertifiedTransfer, AssignPlugin, RemovePlugin
<1>8. ASSUME NEW c \in Clients, NEW a \in Accounts, NEW t \in Times,
             ProcessPending(c, a, t)
      PROVE  Promised!Next
  <2>1. /\ t <= now /\ now' = now
        /\ transfers' = [transfers EXCEPT ![c][a][t] = 0]
        /\ balances' = Transferred(c, a, ToCoin(transfers[c][a][t], t))
    BY <1>8 DEF ProcessPending, Settled, Transfer
  <2>2. Promised!ToCoin(transfers[c][a][t], t) = ToCoin(transfers[c][a][t], t)
    BY DEF Promised!ToCoin, ToCoin
  <2>3. Promised!Pay(c, a, t)
    BY <2>1, <2>2 DEF Promised!Pay, Transferred
  <2> QED
    BY <2>3 DEF Promised!Times, Times
<1> QED
  BY <1>1, <1>2, <1>3, <1>4, <1>5, <1>7, <1>8 DEF Next

\* The ledger implements the allowance that cannot be revoked.
THEOREM CoinKeepsPromises == Spec => PromisesKept
<1>1. Init => Promised!Init
  BY DEF Init, Promised!Init, Promised!Times, Times
<1> QED
  BY <1>1, StepPromises, CoinTyped, PTL DEF Spec, PromisesKept, Promised!Spec
=============================================================================
