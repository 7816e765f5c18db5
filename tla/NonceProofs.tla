---------------------------- MODULE NonceProofs -----------------------------
(***************************************************************************)
(* The claim of ManagedNonce excludes other senders until one can be taken *)
(* for an old one, and until then a nonce is used again only for a reply   *)
(* that was lost: for any number of senders, claims and crashes.  None is  *)
(* skipped in any case.                                                    *)
(***************************************************************************)
EXTENDS ManagedNonce, FiniteSetTheorems, TLAPS

LEMMA InitTyped == Init => TypeOK
<1> SUFFICES ASSUME Init PROVE TypeOK
  OBVIOUS
<1>1. CASE started = 1
  <2>1. sent = {[nonce |-> 0, claim |-> 1]}
    BY <1>1 DEF Init, NoStamp
  <2>2. Cardinality(sent) = 1
    BY <2>1, FS_Singleton
  <2> QED
    BY <1>1, <2>1, <2>2 DEF Init, TypeOK, TxSent, NoStamp, Undefined
<1>2. CASE started = NoStamp
  <2>1. sent = {} /\ Cardinality(sent) = 0
    BY <1>2, FS_EmptySet DEF Init, NoStamp
  <2> QED
    BY <1>2, <2>1 DEF Init, TypeOK, TxSent, NoStamp, Undefined
<1> QED
  BY <1>1, <1>2 DEF Init

LEMMA StepTyped == TypeOK /\ [Next]_vars => TypeOK'
<1> SUFFICES ASSUME TypeOK, [Next]_vars PROVE TypeOK'
  OBVIOUS
<1> USE DEF TypeOK, TxSent, doc, time, local, chain, faults
<1>1. ASSUME NEW p \in Senders, Enter(p) PROVE TypeOK'
  BY <1>1 DEF Enter
<1>2. ASSUME NEW p \in Senders, Choose(p) PROVE TypeOK'
  <2>1. nonce' \in [Senders -> Nat]
    <3>1. CASE known[p] # Undefined /\ nonce' = [nonce EXCEPT ![p] = Later(mined, known[p] + 1)]
      <4>1. Later(mined, known[p] + 1) \in Nat
        BY <3>1 DEF Later
      <4> QED
        BY <3>1, <4>1
    <3>2. ASSUME NEW n \in mined .. (mined + Cardinality(sent)),
                 nonce' = [nonce EXCEPT ![p] = n]
          PROVE  nonce' \in [Senders -> Nat]
      <4>1. n \in Nat
        OBVIOUS
      <4> QED
        BY <3>2, <4>1
    <3> QED
      BY <1>2, <3>1, <3>2 DEF Choose
  <2> QED
    BY <1>2, <2>1 DEF Choose
<1>3. ASSUME NEW p \in Senders, Send(p) PROVE TypeOK'
  <2>1. sent' \subseteq TxSent
    BY <1>3 DEF Send, Broadcast
  <2>2. known' \in [Senders -> Nat \cup {Undefined}]
    BY <1>3 DEF Send
  <2>3. lost' \in Nat
    BY <1>3 DEF Send
  <2>4. pc' = [pc EXCEPT ![p] = "leaving"]
        /\ UNCHANGED <<doc, time, guard, nonce, mined, crashes>>
    BY <1>3 DEF Send
  <2> QED
    BY <2>1, <2>2, <2>3, <2>4
<1>4. ASSUME NEW p \in Senders, Exit(p) PROVE TypeOK'
  BY <1>4 DEF Exit
<1>5. ASSUME NEW p \in Senders, Crash(p) PROVE TypeOK'
  BY <1>5 DEF Crash
<1>6. ASSUME Mine PROVE TypeOK'
  BY <1>6 DEF Mine
<1>7. ASSUME NEW s \in 1 .. clock, Age(s) PROVE TypeOK'
  BY <1>7 DEF Age
<1>8. ASSUME UNCHANGED vars PROVE TypeOK'
  BY <1>8 DEF vars
<1> QED
  BY <1>1, <1>2, <1>3, <1>4, <1>5, <1>6, <1>7, <1>8
  DEF Next, Sender, GiveUp, Rest

\* Every variable of the nonce manager keeps its type.
THEOREM NonceTyped == Spec => []TypeOK
BY InitTyped, StepTyped, PTL DEF Spec

-----------------------------------------------------------------------------
(* The claim.                                                              *)

\* Claims do not become young again.
LEMMA OldStays ==
  ASSUME TypeOK, [Next]_vars, Timely'
  PROVE  Timely
<1> USE DEF TypeOK, Timely, doc, time, local, chain, faults
<1>1. ASSUME NEW p \in Senders, Sender(p) \/ Crash(p) PROVE old' = old
  BY <1>1 DEF Sender, Crash, Enter, Choose, Send, Exit
<1>2. ASSUME Mine \/ UNCHANGED vars PROVE old' = old
  BY <1>2 DEF Mine, vars
<1>3. ASSUME NEW s \in 1 .. clock, Age(s) PROVE old' # 0
  BY <1>3 DEF Age
<1> QED
  BY <1>1, <1>2, <1>3 DEF Next, GiveUp, Rest

\* Without old claims, one that is held is not taken over.
LEMMA NeverTakenOver ==
  ASSUME TypeOK, Timely
  PROVE  ~ Expired
BY DEF TypeOK, Expired, NoStamp, Timely

LEMMA InitClaim == Init => ClaimInv
BY DEF Init, ClaimInv, MutualExclusion, Inside

LEMMA StepClaim ==
  ASSUME TypeOK, ClaimInv, [Next]_vars, Timely'
  PROVE  ClaimInv'
<1> USE DEF ClaimInv, MutualExclusion, Inside, doc, time, local, chain, faults
<1>0. Timely
  BY OldStays
<1>1. ASSUME NEW p \in Senders, Enter(p) PROVE ClaimInv'
  <2>1. started = complete
    BY <1>0, <1>1, NeverTakenOver DEF Enter, Held
  <2>2. \A q \in Senders : pc[q] = "out"
    BY <2>1
  <2>3. clock + 1 # complete
    BY DEF TypeOK
  <2> QED
    BY <1>1, <2>2, <2>3 DEF Enter, TypeOK
<1>2. ASSUME NEW p \in Senders, Choose(p) PROVE ClaimInv'
  BY <1>2 DEF Choose, TypeOK
<1>3. ASSUME NEW p \in Senders, Send(p) PROVE ClaimInv'
  BY <1>3 DEF Send, TypeOK
<1>4. ASSUME NEW p \in Senders, Exit(p) PROVE ClaimInv'
  BY <1>4 DEF Exit, TypeOK
<1>5. ASSUME NEW p \in Senders, Crash(p) PROVE ClaimInv'
  BY <1>5 DEF Crash, TypeOK
<1>6. ASSUME Mine PROVE ClaimInv'
  BY <1>6 DEF Mine
<1>7. ASSUME NEW s \in 1 .. clock, Age(s) PROVE ClaimInv'
  BY <1>7 DEF Age, TypeOK
<1>8. ASSUME UNCHANGED vars PROVE ClaimInv'
  BY <1>8 DEF vars
<1> QED
  BY <1>1, <1>2, <1>3, <1>4, <1>5, <1>6, <1>7, <1>8
  DEF Next, Sender, GiveUp, Rest

\* Until a claim is 15 minutes old, one sender at a time is inside.
THEOREM ClaimExcludes == Spec => []ExclusiveWhileTimely
<1> DEFINE Inv == Timely => ClaimInv
<1>1. TypeOK /\ Inv /\ [Next]_vars => Inv'
  BY StepClaim, OldStays
<1>2. Init => Inv
  BY InitClaim
<1>3. Inv => ExclusiveWhileTimely
  BY DEF ClaimInv, ExclusiveWhileTimely
<1> HIDE DEF Inv
<1> QED
  BY <1>1, <1>2, <1>3, NonceTyped, PTL DEF Spec

-----------------------------------------------------------------------------
(* No gaps.  Whatever is lost or taken over, a nonce that is known to the  *)
(* document or to a sender has been sent, and so have all below it; these, *)
(* and those that have been mined, are all that a nonce is chosen from.    *)

SentBelow(n) == \A k \in Nat : k < n => k \in Nonces

GapInv == /\ SentBelow(mined)
          /\ SentBelow(lastNonce + 1)
          /\ \A p \in Senders : SentBelow(known[p] + 1)
          /\ \A p \in Senders : pc[p] = "sending" => SentBelow(nonce[p])
          /\ NoGap

LEMMA InitGap == Init => GapInv
<1> SUFFICES ASSUME Init PROVE GapInv
  OBVIOUS
<1>1. CASE started = 1
  <2>1. sent = {[nonce |-> 0, claim |-> 1]} /\ Nonces = {0}
    BY <1>1 DEF Init, Nonces
  <2>2. mined = 1
    BY <2>1, FS_Singleton DEF Init
  <2> QED
    BY <1>1, <2>1, <2>2 DEF Init, GapInv, SentBelow, NoGap, Undefined
<1>2. CASE started = NoStamp
  <2>1. sent = {} /\ mined = 0
    BY <1>2, FS_EmptySet DEF Init, NoStamp
  <2> QED
    BY <1>2, <2>1 DEF Init, GapInv, SentBelow, NoGap, Undefined, NoStamp
<1> QED
  BY <1>1, <1>2 DEF Init

\* What has been sent stays sent.
LEMMA NoncesGrow ==
  ASSUME sent \subseteq sent'
  PROVE  /\ Nonces \subseteq Nonces'
         /\ \A n \in Int : SentBelow(n) => SentBelow(n)'
BY DEF Nonces, SentBelow

\* A transaction joins those below it.
LEMMA SentNext ==
  ASSUME TypeOK, GapInv, NEW p \in Senders, pc[p] = "sending", sent' = Broadcast(p)
  PROVE  /\ \A k \in Nat : k <= nonce[p] => k \in Nonces'
         /\ NoGap'
<1>1. nonce[p] \in Nat /\ nonce[p] \in Nonces' /\ Nonces \subseteq Nonces'
  <2>1. [nonce |-> nonce[p], claim |-> guard[p]] \in sent'
    BY DEF Broadcast
  <2>2. [nonce |-> nonce[p], claim |-> guard[p]].nonce \in Nonces'
    BY <2>1 DEF Nonces
  <2> QED
    BY <2>2, NoncesGrow DEF Broadcast, TypeOK
<1>2. \A k \in Nat : k <= nonce[p] => k \in Nonces'
  BY <1>1 DEF GapInv, SentBelow
<1>3. ASSUME NEW tx \in sent' PROVE 0 .. tx.nonce \subseteq Nonces'
  <2>1. CASE tx \in sent
    BY <2>1, <1>1 DEF GapInv, NoGap
  <2>2. CASE tx.nonce = nonce[p]
    BY <2>2, <1>2
  <2> QED
    BY <2>1, <2>2 DEF Broadcast
<1> QED
  BY <1>2, <1>3 DEF NoGap

LEMMA StepGap ==
  ASSUME TypeOK, GapInv, [Next]_vars
  PROVE  GapInv'
<1> USE DEF doc, time, local, chain, faults
<1> DEFINE Known == \A p \in Senders : SentBelow(known[p] + 1)
           ToSend == \A p \in Senders : pc[p] = "sending" => SentBelow(nonce[p])
<1>0. /\ mined \in Int /\ lastNonce + 1 \in Int /\ Undefined = -1
      /\ \A p \in Senders : known[p] + 1 \in Int /\ nonce[p] \in Int
  BY DEF TypeOK, Undefined
<1>1. ASSUME NEW p \in Senders, Enter(p) PROVE GapInv'
  BY <1>1 DEF Enter, GapInv, SentBelow, NoGap, Nonces, TypeOK
<1>2. ASSUME NEW p \in Senders, Choose(p) PROVE GapInv'
  <2>1. SentBelow(nonce'[p])
    <3>1. CASE known[p] # Undefined /\ nonce' = [nonce EXCEPT ![p] = Later(mined, known[p] + 1)]
      BY <3>1, SMTT(20) DEF Later, GapInv, TypeOK
    <3>2. ASSUME NEW n \in mined .. (mined + Cardinality(sent)),
                 mined .. (n - 1) \subseteq Nonces,
                 nonce' = [nonce EXCEPT ![p] = n]
          PROVE  SentBelow(nonce'[p])
      <4>1. nonce'[p] = n /\ n \in Int
        BY <3>2, <1>0 DEF TypeOK
      <4>2. ASSUME NEW k \in Nat, k < n PROVE k \in Nonces
        <5>1. CASE k < mined
          BY <5>1 DEF GapInv, SentBelow
        <5>2. CASE ~ (k < mined)
          BY <5>2, <4>1, <4>2, <3>2, <1>0
        <5> QED
          BY <5>1, <5>2
      <4> QED
        BY <4>1, <4>2 DEF SentBelow
    <3> QED
      BY <1>2, <3>1, <3>2 DEF Choose
  <2> QED
    BY <1>2, <2>1 DEF Choose, GapInv, SentBelow, NoGap, Nonces, TypeOK
<1>3. ASSUME NEW p \in Senders, Send(p) PROVE GapInv'
  <2>1. CASE sent' = sent /\ known' = known
    BY <1>3, <2>1 DEF Send, GapInv, SentBelow, NoGap, Nonces, TypeOK
  <2>2. CASE sent' = Broadcast(p) /\ known' \in {known, [known EXCEPT ![p] = nonce[p]]}
    <3>1. (\A k \in Nat : k <= nonce[p] => k \in Nonces') /\ NoGap'
      BY <1>3, <2>2, SentNext DEF Send
    <3>2. nonce' = nonce /\ mined' = mined /\ lastNonce' = lastNonce
          /\ pc' = [pc EXCEPT ![p] = "leaving"]
      BY <1>3 DEF Send
    <3>3. \A n \in Int : SentBelow(n) => SentBelow(n)'
      BY <2>2, NoncesGrow DEF Broadcast
    <3>4. Known'
      <4>1. \A q \in Senders : known'[q] \in {known[q], nonce[p]}
        BY <2>2 DEF TypeOK
      <4>2. ASSUME NEW q \in Senders, NEW k \in Nat, k < known'[q] + 1
            PROVE  k \in Nonces'
        <5>1. CASE known'[q] = nonce[p]
          BY <5>1, <4>2, <3>1, <1>0
        <5>2. CASE known'[q] = known[q]
          <6>1. k \in Nonces
            BY <5>2, <4>2 DEF GapInv, SentBelow
          <6> QED
            BY <6>1, <2>2, NoncesGrow DEF Broadcast
        <5> QED
          BY <4>1, <5>1, <5>2
      <4> QED
        BY <4>2 DEF SentBelow
    <3>5. ToSend'
      BY <3>2, <3>3, <1>0 DEF GapInv, TypeOK, SentBelow
    <3> QED
      BY <3>1, <3>2, <3>3, <3>4, <3>5, <1>0 DEF GapInv, SentBelow
  <2> QED
    BY <1>3, <2>1, <2>2 DEF Send
<1>4. ASSUME NEW p \in Senders, Exit(p) PROVE GapInv'
  BY <1>4 DEF Exit, GapInv, SentBelow, NoGap, Nonces, TypeOK
<1>5. ASSUME NEW p \in Senders, Crash(p) PROVE GapInv'
  BY <1>5 DEF Crash, GapInv, SentBelow, NoGap, Nonces, TypeOK
<1>6. ASSUME Mine PROVE GapInv'
  <2>1. \A k \in Nat : k < mined + 1 => k \in Nonces
    BY <1>6, <1>0 DEF Mine, GapInv, SentBelow
  <2> QED
    BY <1>6, <2>1 DEF Mine, GapInv, SentBelow, NoGap, Nonces
<1>7. ASSUME NEW s \in 1 .. clock, Age(s) PROVE GapInv'
  BY <1>7 DEF Age, GapInv, SentBelow, NoGap, Nonces
<1>8. ASSUME UNCHANGED vars PROVE GapInv'
  BY <1>8 DEF vars, GapInv, SentBelow, NoGap, Nonces
<1> QED
  BY <1>1, <1>2, <1>3, <1>4, <1>5, <1>6, <1>7, <1>8
  DEF Next, Sender, GiveUp, Rest

\* No nonce is ever skipped, so no transaction waits for ever behind a gap:
\* with senders that overlap, die or lose their replies as well.
THEOREM NoncesFollow == Spec => []NoGap
<1>1. GapInv => NoGap
  BY DEF GapInv
<1> QED
  BY <1>1, InitGap, StepGap, NonceTyped, PTL DEF Spec

-----------------------------------------------------------------------------
(* The nonces that are used again.                                         *)

Finite == IsFiniteSet(sent) /\ IsFiniteSet(Nonces)

\* A transaction that is broadcast adds its nonce, unless it was there before.
LEMMA BroadcastAdds ==
  ASSUME TypeOK, Finite, NEW p \in Senders, sent' = Broadcast(p)
  PROVE  /\ Finite'
         /\ Nonces' = Nonces \cup {nonce[p]}
         /\ Reused \in Int /\ Reused' \in Int
         /\ Reused' <= Reused + 1
         /\ nonce[p] \notin Nonces => Reused' <= Reused
<1> DEFINE tx == [nonce |-> nonce[p], claim |-> guard[p]]
<1>1. tx.nonce = nonce[p] /\ sent' = sent \cup {tx}
  BY DEF Broadcast
<1> HIDE DEF tx
<1>2. Nonces' = Nonces \cup {nonce[p]}
  BY <1>1 DEF Nonces
<1>3. /\ IsFiniteSet(sent') /\ Cardinality(sent) \in Nat
      /\ Cardinality(sent') \in Nat /\ Cardinality(sent') <= Cardinality(sent) + 1
  <2>1. IsFiniteSet(sent) /\ Cardinality(sent) \in Nat
    BY FS_CardinalityType DEF Finite
  <2>2. /\ IsFiniteSet(sent \cup {tx})
        /\ Cardinality(sent \cup {tx}) \in {Cardinality(sent), Cardinality(sent) + 1}
    BY <2>1, FS_AddElement
  <2> QED
    BY <1>1, <2>1, <2>2
<1>4. /\ IsFiniteSet(Nonces') /\ Cardinality(Nonces) \in Nat
      /\ Cardinality(Nonces') \in Nat /\ Cardinality(Nonces') >= Cardinality(Nonces)
      /\ nonce[p] \notin Nonces => Cardinality(Nonces') = Cardinality(Nonces) + 1
  <2>1. IsFiniteSet(Nonces) /\ Cardinality(Nonces) \in Nat
    BY FS_CardinalityType DEF Finite
  <2>2. /\ IsFiniteSet(Nonces \cup {nonce[p]})
        /\ Cardinality(Nonces \cup {nonce[p]}) =
              IF nonce[p] \in Nonces THEN Cardinality(Nonces) ELSE Cardinality(Nonces) + 1
    BY <2>1, FS_AddElement
  <2> QED
    BY <1>2, <2>1, <2>2
<1> QED
  BY <1>2, <1>3, <1>4 DEF Finite, Reused

LEMMA InitFinite == Init => Finite
<1> SUFFICES ASSUME Init PROVE Finite
  OBVIOUS
<1>1. CASE started = 1
  <2>1. sent = {[nonce |-> 0, claim |-> 1]} /\ Nonces = {0}
    BY <1>1 DEF Init, Nonces
  <2> QED
    BY <2>1, FS_Singleton DEF Finite
<1>2. CASE started = NoStamp
  <2>1. sent = {} /\ Nonces = {}
    BY <1>2 DEF Init, NoStamp, Nonces
  <2> QED
    BY <2>1, FS_EmptySet DEF Finite
<1> QED
  BY <1>1, <1>2 DEF Init

\* What an action leaves that sends nothing.
LEMMA SameSent ==
  ASSUME sent' = sent
  PROVE  /\ Nonces' = Nonces /\ Reused' = Reused
         /\ Finite => Finite'
         /\ \A n : SentUpTo(n)' <=> SentUpTo(n)
BY DEF Nonces, Reused, Finite, SentUpTo

\* Only Send sends.
LEMMA OnlySendSends ==
  ASSUME [Next]_vars
  PROVE  sent' = sent \/ \E p \in Senders : sent' = Broadcast(p)
<1> USE DEF doc, time, local, chain, faults
<1>1. ASSUME NEW p \in Senders, Sender(p) \/ Crash(p)
      PROVE  sent' = sent \/ sent' = Broadcast(p)
  BY <1>1 DEF Sender, Crash, Enter, Choose, Send, Exit
<1>2. ASSUME Mine \/ UNCHANGED vars PROVE sent' = sent
  BY <1>2 DEF Mine, vars
<1>3. ASSUME NEW s \in 1 .. clock, Age(s) PROVE sent' = sent
  BY <1>3 DEF Age
<1> QED
  BY <1>1, <1>2, <1>3 DEF Next, GiveUp, Rest

LEMMA StepFinite == TypeOK /\ Finite /\ [Next]_vars => Finite'
BY OnlySendSends, SameSent, BroadcastAdds

\* What has been mined was broadcast, with all nonces below it.
Good == TypeOK /\ Finite /\ GapInv

LEMMA GoodAlways == Spec => []Good
<1>1. Init => Good
  BY InitTyped, InitFinite, InitGap DEF Good
<1>2. Good /\ [Next]_vars => Good'
  BY StepTyped, StepFinite, StepGap DEF Good
<1> QED
  BY <1>1, <1>2, PTL DEF Spec

LEMMA FollowingIs ==
  ASSUME TypeOK, NEW n \in Nat
  PROVE  /\ Following(n) \in Nat
         /\ Following(n) >= mined /\ Following(n) >= n + 1
         /\ Following(n) = mined \/ Following(n) = n + 1
BY DEF TypeOK, Following, Later

LEMMA InitNonce == Init => NonceInv
<1> SUFFICES ASSUME Init PROVE NonceInv
  OBVIOUS
<1>1. ClaimInv /\ \A p \in Senders : pc[p] = "out"
  BY InitClaim DEF Init
<1>2. Reused = 0 /\ lost = 0
  <2>1. CASE started = 1
    <3>1. sent = {[nonce |-> 0, claim |-> 1]} /\ Nonces = {0}
      BY <2>1 DEF Init, Nonces
    <3>2. Cardinality(sent) = 1 /\ Cardinality(Nonces) = 1
      BY <3>1, FS_Singleton
    <3> QED
      BY <3>2 DEF Init, Reused
  <2>2. CASE started = NoStamp
    <3>1. sent = {} /\ Nonces = {}
      BY <2>2 DEF Init, NoStamp, Nonces
    <3> QED
      BY <3>1, FS_EmptySet DEF Init, Reused
  <2> QED
    BY <2>1, <2>2 DEF Init
<1>3. MayFollow(lastNonce)
  <2>1. CASE started = 1
    <3>1. sent = {[nonce |-> 0, claim |-> 1]} /\ Nonces = {0} /\ lastNonce = 0
      BY <2>1 DEF Init, Nonces
    <3>2. mined = 1
      BY <3>1, FS_Singleton DEF Init
    <3>3. Following(lastNonce) = 1
      BY <3>1, <3>2 DEF Following, Later
    <3> QED
      BY <3>1, <3>3 DEF MayFollow, SentUpTo
  <2>2. CASE started = NoStamp
    BY <2>2 DEF Init, MayFollow, NoStamp
  <2> QED
    BY <2>1, <2>2 DEF Init
<1> QED
  BY <1>1, <1>2, <1>3 DEF NonceInv, Inside

LEMMA StepNonce ==
  ASSUME Good, NonceInv, [Next]_vars, Timely'
  PROVE  NonceInv'
<1>0. ClaimInv' /\ TypeOK /\ TypeOK' /\ Finite /\ GapInv /\ Timely /\ Reused <= lost
  BY StepClaim, StepTyped, OldStays DEF NonceInv, Good
<1> USE DEF Inside, doc, time, local, chain, faults
<1> DEFINE Knows == \A p \in Senders : /\ Inside(p) => KnowsLast(p)
                                       /\ pc[p] = "sending" => Chosen(p)
           Free == ~ Held => MayFollow(lastNonce)
           Few == Reused <= lost
           Goal == Knows' /\ Free' /\ Few'
<1> SUFFICES Goal
  BY <1>0 DEF NonceInv
\* Only the sender that moves is inside.
<1>a. ASSUME NEW p \in Senders, Inside(p)
      PROVE  /\ Held
             /\ \A q \in Senders : q # p => pc[q] = "out"
  BY <1>a DEF NonceInv, ClaimInv, MutualExclusion, Held
\* A step that sends and mines nothing changes no nonce that follows.
<1>b. ASSUME sent' = sent, mined' = mined, lost' = lost
      PROVE  /\ Few' /\ Nonces' = Nonces
             /\ \A n : MayFollow(n)' <=> MayFollow(n)
             /\ \A n : Following(n)' = Following(n)
  BY <1>b, <1>0, SameSent DEF MayFollow, Following
<1>1. ASSUME NEW p \in Senders, Enter(p) PROVE Goal
  <2>1. ~ Held
    BY <1>0, <1>1, NeverTakenOver DEF Enter
  <2>2. /\ MayFollow(lastNonce)
        /\ sent' = sent /\ mined' = mined /\ lost' = lost /\ lastNonce' = lastNonce
    BY <1>1, <2>1 DEF Enter, NonceInv
  <2>3. \A q \in Senders : q # p => pc'[q] = "out"
    BY <1>0, <1>1, <2>1, <1>a DEF Enter, TypeOK
  <2>4. Held'
    BY <1>0, <1>1 DEF Enter, ClaimInv, Held, TypeOK
  <2>5. pc'[p] = "choosing" /\ known'[p] = lastNonce
    BY <1>0, <1>1 DEF Enter, TypeOK
  <2>6. KnowsLast(p)'
    BY <1>b, <2>2, <2>5 DEF KnowsLast
  <2> QED
    BY <1>b, <2>2, <2>3, <2>4, <2>5, <2>6
<1>2. ASSUME NEW p \in Senders, Choose(p) PROVE Goal
  <2>1. /\ Inside(p) /\ KnowsLast(p)
        /\ sent' = sent /\ mined' = mined /\ lost' = lost
        /\ known' = known /\ lastNonce' = lastNonce /\ Held' = Held
    BY <1>2 DEF Choose, NonceInv, Held
  <2>2. Chosen(p)'
    <3>1. CASE known[p] = Undefined
      <4>1. nonce'[p] \notin Nonces
        BY <1>0, <1>2, <3>1 DEF Choose, TypeOK
      <4> QED
        BY <2>1, <3>1, <4>1, <1>b DEF Chosen
    <3>2. CASE known[p] # Undefined
      <4>1. nonce'[p] = Following(known[p])
        BY <1>0, <1>2, <3>2 DEF Choose, TypeOK, Following
      <4> QED
        BY <2>1, <3>2, <4>1, <1>b DEF Chosen
    <3> QED
      BY <3>1, <3>2
  <2>3. \A q \in Senders : q # p => pc'[q] = "out"
    BY <1>0, <1>2, <2>1, <1>a DEF Choose, TypeOK
  <2>4. Held' /\ KnowsLast(p)'
    BY <2>1, <1>a, <1>b DEF KnowsLast
  <2> QED
    BY <1>b, <2>1, <2>2, <2>3, <2>4
<1>3. ASSUME NEW p \in Senders, Send(p) PROVE Goal
  <2>1. /\ Inside(p) /\ KnowsLast(p) /\ Chosen(p)
        /\ mined' = mined /\ lastNonce' = lastNonce /\ Held' = Held
    BY <1>3 DEF Send, NonceInv, Held
  <2>2. \A q \in Senders : q # p => pc'[q] = "out"
    BY <1>0, <1>3, <2>1, <1>a DEF Send, TypeOK
  <2>3. pc'[p] = "leaving" /\ Held'
    BY <1>0, <1>3, <2>1, <1>a DEF Send, TypeOK
  <2>4. SUFFICES KnowsLast(p)' /\ Few'
    BY <2>2, <2>3
  <2>5. CASE sent' = sent /\ known' = known /\ lost' = lost
    BY <2>1, <2>5, <1>b DEF KnowsLast
  <2>6. ASSUME sent' = Broadcast(p), nonce[p] >= mined
        PROVE  /\ Reused' \in Int /\ Reused' <= lost
               /\ Nonces' = Nonces \cup {nonce[p]}
               /\ \A tx \in sent' : tx.nonce \in Nat /\ tx.nonce <= nonce[p]
    <3>0. \A tx \in sent' : tx.nonce \in Nat /\ (tx \in sent \/ tx.nonce = nonce[p])
      BY <1>0, <2>6 DEF Broadcast, TypeOK, TxSent
    <3>1. /\ Nonces' = Nonces \cup {nonce[p]}
          /\ Reused \in Int /\ Reused' \in Int
          /\ Reused' <= Reused + 1
          /\ nonce[p] \notin Nonces => Reused' <= Reused
      BY <1>0, <2>6, BroadcastAdds
    <3>2. nonce[p] \in Nat /\ lost \in Nat
      BY <1>0 DEF TypeOK
    <3>3. CASE known[p] = Undefined
      <4>1. nonce[p] \notin Nonces
        BY <2>1, <3>3 DEF Chosen
      <4>2. SentUpTo(nonce[p])
        <5>1. ASSUME NEW tx \in sent, ~ (tx.nonce <= nonce[p]) PROVE FALSE
          <6>1. tx.nonce \in Nat
            BY <1>0 DEF TypeOK, TxSent
          <6>2. nonce[p] \in 0 .. tx.nonce
            BY <3>2, <5>1, <6>1
          <6> QED
            BY <1>0, <4>1, <6>2 DEF GapInv, NoGap
        <5> QED
          BY <5>1 DEF SentUpTo
      <4> QED
        BY <1>0, <3>0, <3>1, <3>2, <4>1, <4>2 DEF SentUpTo
    <3>4. CASE known[p] # Undefined
      <4>1. /\ nonce[p] = Following(known[p])
            /\ SentUpTo(nonce[p])
            /\ nonce[p] \in Nonces => Reused < lost
        BY <2>1, <2>6, <3>4 DEF Chosen, KnowsLast, MayFollow
      <4>2. Reused' <= lost
        BY <1>0, <3>1, <3>2, <4>1
      <4> QED
        BY <3>0, <3>1, <3>2, <4>1, <4>2 DEF SentUpTo
    <3> QED
      BY <3>3, <3>4
  <2>7. CASE /\ nonce[p] >= mined /\ sent' = Broadcast(p)
             /\ known' = [known EXCEPT ![p] = nonce[p]] /\ lost' = lost
    <3>1. PICK n \in Nat : n = nonce[p]
      BY <1>0 DEF TypeOK
    <3>2. known'[p] = n /\ mined' = mined /\ mined \in Nat /\ n >= mined
      BY <1>0, <2>1, <2>7, <3>1 DEF TypeOK
    <3>3. Following(n)' = n + 1
      BY <3>1, <3>2 DEF Following, Later
    <3>4. \A tx \in sent' : tx.nonce \in Nat /\ tx.nonce <= n
      BY <2>6, <2>7, <3>1
    <3>5. SentUpTo(n + 1)' /\ n + 1 \notin Nonces'
      BY <3>1, <3>4 DEF SentUpTo, Nonces
    <3>6. n # Undefined
      BY <3>1 DEF Undefined
    <3>7. MayFollow(n)'
      BY <3>3, <3>5 DEF MayFollow
    <3>8. Reused' <= lost'
      BY <2>6, <2>7
    <3> QED
      BY <3>2, <3>6, <3>7, <3>8 DEF KnowsLast
  <2>8. CASE /\ nonce[p] >= mined /\ sent' = Broadcast(p)
             /\ known' = known /\ lost' = lost + 1
    <3>1. lost \in Nat /\ Reused' \in Int /\ Reused' < lost'
      BY <1>0, <2>6, <2>8 DEF TypeOK
    <3>2. ASSUME known[p] # Undefined
          PROVE  SentUpTo(Following(known[p]))'
      <4>1. Following(known[p])' = nonce[p]
        BY <2>1, <2>8, <3>2 DEF Chosen, Following
      <4>2. \A tx \in sent' : tx.nonce <= nonce[p]
        BY <2>6, <2>8
      <4> QED
        BY <4>1, <4>2 DEF SentUpTo
    <3> QED
      BY <2>1, <2>8, <3>1, <3>2 DEF KnowsLast, MayFollow
  <2> QED
    BY <1>3, <2>5, <2>7, <2>8 DEF Send
<1>4. ASSUME NEW p \in Senders, Exit(p) PROVE Goal
  <2>1. /\ Inside(p) /\ KnowsLast(p)
        /\ sent' = sent /\ mined' = mined /\ lost' = lost
    BY <1>4 DEF Exit, NonceInv
  <2>2. \A q \in Senders : pc'[q] = "out"
    BY <1>0, <1>4, <2>1, <1>a DEF Exit, TypeOK
  <2>3. MayFollow(lastNonce')
    <3>1. CASE known[p] = Undefined
      BY <1>4, <2>1, <3>1 DEF Exit, KnowsLast
    <3>2. CASE known[p] # Undefined
      BY <1>4, <2>1, <3>2 DEF Exit, KnowsLast
    <3> QED
      BY <3>1, <3>2
  <2>4. MayFollow(lastNonce)'
    BY <2>1, <2>3, SameSent DEF MayFollow, Following
  <2> QED
    BY <1>b, <2>1, <2>2, <2>4
<1>5. ASSUME NEW p \in Senders, Crash(p) PROVE Goal
  <2>1. /\ sent' = sent /\ mined' = mined /\ lost' = lost
        /\ known' = known /\ nonce' = nonce /\ lastNonce' = lastNonce /\ Held' = Held
        /\ pc' = [pc EXCEPT ![p] = "out"]
    BY <1>5 DEF Crash, Held
  <2>2. \A q \in Senders : pc'[q] = "out" \/ pc'[q] = pc[q]
    BY <1>0, <2>1 DEF TypeOK
  <2>3. \A q \in Senders : /\ KnowsLast(q)' <=> KnowsLast(q)
                           /\ Chosen(q)' <=> Chosen(q)
    BY <1>b, <2>1 DEF KnowsLast, Chosen
  <2> QED
    BY <1>b, <2>1, <2>2, <2>3 DEF NonceInv
<1>6. ASSUME Mine PROVE Goal
  <2>1. /\ sent' = sent /\ lost' = lost /\ mined' = mined + 1 /\ mined \in Nonces
        /\ pc' = pc /\ known' = known /\ nonce' = nonce /\ lastNonce' = lastNonce
        /\ Held' = Held /\ Nonces' = Nonces /\ Reused' = Reused
    BY <1>6, SameSent DEF Mine, Held
  <2>2. mined \in Nat /\ \A tx \in sent : tx.nonce \in Nat
    BY <1>0 DEF TypeOK, TxSent
  <2>3. ASSUME NEW n \in Nat, MayFollow(n) PROVE MayFollow(n)'
    <3>1. CASE n + 1 <= mined
      <4>1. Following(n) = mined /\ Following(n)' = mined + 1
        BY <2>1, <2>2, <3>1 DEF Following, Later
      <4>2. SentUpTo(mined)
        BY <2>2, <2>3, <4>1 DEF MayFollow, Undefined
      <4>3. \A tx \in sent' : tx.nonce \in Nat /\ tx.nonce <= mined
        BY <2>1, <2>2, <4>2 DEF SentUpTo
      <4>4. \A tx \in sent' : tx.nonce <= Following(n)'
        BY <2>2, <4>1, <4>3
      <4>5. mined + 1 \notin Nonces'
        BY <2>2, <4>3 DEF Nonces
      <4> QED
        BY <4>1, <4>4, <4>5 DEF MayFollow, SentUpTo
    <3>2. CASE mined < n + 1
      <4>1. Following(n) = n + 1 /\ Following(n)' = n + 1
        BY <2>1, <2>2, <3>2 DEF Following, Later
      <4> QED
        BY <2>1, <2>3, <4>1 DEF MayFollow, SentUpTo
    <3> QED
      BY <2>2, <3>1, <3>2
  <2>4. \A n \in Nat \cup {Undefined} : MayFollow(n) => MayFollow(n)'
    BY <2>3 DEF MayFollow
  <2>5. Free'
    BY <1>0, <2>1, <2>4 DEF TypeOK, NonceInv
  <2>6. ASSUME NEW q \in Senders, Inside(q)' PROVE KnowsLast(q)'
    BY <1>0, <2>1, <2>4, <2>6 DEF TypeOK, NonceInv, KnowsLast
  <2>7. ASSUME NEW q \in Senders, pc'[q] = "sending" PROVE Chosen(q)'
    <3>1. Chosen(q) /\ nonce[q] \in Nat
      BY <1>0, <2>1, <2>7 DEF NonceInv, TypeOK
    <3>2. CASE known[q] = Undefined
      BY <2>1, <3>1, <3>2 DEF Chosen
    <3>3. CASE known[q] # Undefined /\ nonce[q] >= mined + 1
      <4>1. known[q] \in Nat /\ nonce[q] = Later(mined, known[q] + 1)
        BY <1>0, <2>2, <3>1, <3>3 DEF TypeOK, Chosen, Following
      <4>2. nonce[q] = Later(mined + 1, known[q] + 1)
        BY <2>2, <3>1, <3>3, <4>1 DEF Later
      <4> QED
        BY <2>1, <3>3, <4>2 DEF Chosen, Following
    <3> QED
      BY <2>1, <3>2, <3>3 DEF Chosen
  <2> QED
    BY <1>0, <2>1, <2>5, <2>6, <2>7
<1>7. ASSUME NEW s \in 1 .. clock, Age(s) PROVE Goal
  BY <1>0, <1>7 DEF Age, Timely, TypeOK
<1>8. ASSUME UNCHANGED vars PROVE Goal
  <2>1. \A q \in Senders : /\ KnowsLast(q)' <=> KnowsLast(q)
                           /\ Chosen(q)' <=> Chosen(q)
    BY <1>8, <1>b DEF vars, KnowsLast, Chosen
  <2> QED
    BY <1>8, <1>b, <2>1 DEF vars, NonceInv, Held
<1> QED
  BY <1>1, <1>2, <1>3, <1>4, <1>5, <1>6, <1>7, <1>8
  DEF Next, Sender, GiveUp, Rest

\* Until a claim is 15 minutes old, the nonce after the one that a sender or
\* the document knows is the highest that can have been sent, and if it has
\* been, one more reply was lost than nonces were used again.
THEOREM NoncesKnown == Spec => []NoncesKept
<1>1. Good /\ NoncesKept /\ [Next]_vars => NoncesKept'
  BY StepNonce, OldStays DEF NoncesKept, Good
<1>2. Init => NoncesKept
  BY InitNonce DEF NoncesKept
<1> QED
  BY <1>1, <1>2, GoodAlways, PTL DEF Spec

\* Until then a nonce is used again only after a reply was lost, once for each.
THEOREM NoncesReused == Spec => []ReusedWhenLost
<1>1. NoncesKept => ReusedWhenLost
  BY DEF NoncesKept, NonceInv, ReusedWhenLost
<1> QED
  BY <1>1, NoncesKnown, PTL
=============================================================================
