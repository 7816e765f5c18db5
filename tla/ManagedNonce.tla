---------------------------- MODULE ManagedNonce ----------------------------
(***************************************************************************)
(* The broker service sends transactions from one account out of several   *)
(* processes.  Each claims a document in Firestore, reads the last nonce   *)
(* used, sends, and writes the nonce back (ManagedNonceSigner.ts).  The    *)
(* document holds the time of the last claim and that of the claim last    *)
(* released: they differ while the account is claimed.                     *)
(***************************************************************************)
EXTENDS Integers, FiniteSets

CONSTANTS Senders,       \* requests that send a transaction
          MaxStamps,     \* bound: claims
          MaxCrashes,    \* bound: senders that vanish
          MaxLost        \* bound: replies of the node that are lost

ASSUME NonceAssumption == /\ MaxStamps \in Nat \ {0}
                          /\ MaxCrashes \in Nat
                          /\ MaxLost \in Nat

VARIABLES started, complete, lastNonce,   \* the document
          clock,     \* the last timestamp given out; a claim takes a new one
          old,       \* timestamps up to this one are more than 15 minutes old
          pc,        \* sender -> "out", "choosing", "sending" or "leaving"
          guard,     \* sender -> the timestamp of its claim
          known,     \* sender -> the nonce it will write back
          nonce,     \* sender -> the nonce it sends with
          sent,      \* transactions broadcast: their nonce and their claim
          mined,     \* how many nonces of the account have been mined
          crashes, lost   \* faults so far

doc == <<started, complete, lastNonce>>
time == <<clock, old>>
local == <<pc, guard, known, nonce>>
chain == <<sent, mined>>
faults == <<crashes, lost>>
vars == <<doc, time, local, chain, faults>>

Undefined == -1     \* a nonce nobody has written
NoStamp == 0        \* a time nobody has written

TxSent == [nonce : Nat, claim : Nat]
Nonces == {tx.nonce : tx \in sent}

\* The document has never been written, or once, by the first transaction.
Init == /\ started \in {NoStamp, 1}
        /\ complete = started
        /\ lastNonce = IF started = 1 THEN 0 ELSE Undefined
        /\ clock = started
        /\ old = 0
        /\ pc = [p \in Senders |-> "out"]
        /\ guard = [p \in Senders |-> NoStamp]
        /\ known = [p \in Senders |-> Undefined]
        /\ nonce = [p \in Senders |-> 0]
        /\ sent = IF started = 1 THEN {[nonce |-> 0, claim |-> 1]} ELSE {}
        /\ mined = Cardinality(sent)
        /\ crashes = 0
        /\ lost = 0

Held == started # complete

\* Mutant: a claim is never taken over.
NeverExpired == FALSE

\* The age that is compared is that of the release; an undefined one is not old.
Expired == complete # NoStamp /\ complete <= old

-----------------------------------------------------------------------------
\* Mutant: whether someone else holds the claim is not looked at.
EnterAnyway(p) ==
    /\ pc[p] = "out"
    /\ clock < MaxStamps
    /\ clock' = clock + 1
    /\ started' = clock + 1
    /\ guard' = [guard EXCEPT ![p] = clock + 1]
    /\ known' = [known EXCEPT ![p] = lastNonce]
    /\ pc' = [pc EXCEPT ![p] = "choosing"]
    /\ UNCHANGED <<complete, lastNonce, old, nonce, chain, faults>>

\* Claim the account, in one database transaction.
Enter(p) ==
    /\ pc[p] = "out"
    /\ ~ Held \/ Expired
    /\ clock < MaxStamps
    /\ clock' = clock + 1
    /\ started' = clock + 1
    /\ guard' = [guard EXCEPT ![p] = clock + 1]
    /\ known' = [known EXCEPT ![p] = lastNonce]
    /\ pc' = [pc EXCEPT ![p] = "choosing"]
    /\ UNCHANGED <<complete, lastNonce, old, nonce, chain, faults>>

Later(a, b) == IF a > b THEN a ELSE b

\* Mutant: only what is mined is counted.
ChooseMined(p) ==
    /\ pc[p] = "choosing"
    /\ nonce' = [nonce EXCEPT ![p] = mined]
    /\ pc' = [pc EXCEPT ![p] = "sending"]
    /\ UNCHANGED <<doc, time, guard, known, chain, faults>>

\* The nonce after the last one known, or the chain's count if that is ahead;
\* with none known, the node's: the first that is not in its pool.
Choose(p) ==
    /\ pc[p] = "choosing"
    /\ \/ /\ known[p] # Undefined
          /\ nonce' = [nonce EXCEPT ![p] = Later(mined, known[p] + 1)]
       \/ /\ known[p] = Undefined
          /\ \E n \in mined .. (mined + Cardinality(sent)) :
                /\ n \notin Nonces
                /\ mined .. (n - 1) \subseteq Nonces
                /\ nonce' = [nonce EXCEPT ![p] = n]
    /\ pc' = [pc EXCEPT ![p] = "sending"]
    /\ UNCHANGED <<doc, time, guard, known, chain, faults>>

Broadcast(p) == sent \cup {[nonce |-> nonce[p], claim |-> guard[p]]}

\* Mutant: the nonce counts as used, whether or not the node took it.
SendBookFirst(p) ==
    /\ pc[p] = "sending"
    /\ sent' \in {sent, Broadcast(p)}
    /\ known' = [known EXCEPT ![p] = nonce[p]]
    /\ pc' = [pc EXCEPT ![p] = "leaving"]
    /\ UNCHANGED <<doc, time, guard, nonce, mined, faults>>

\* Send.  The nonce is used once the node has replied; a refusal, or a reply
\* that is lost, throws, and the nonce that was known stays.
Send(p) ==
    /\ pc[p] = "sending"
    /\ \/ /\ nonce[p] >= mined
          /\ sent' = Broadcast(p)
          /\ known' = [known EXCEPT ![p] = nonce[p]]
          /\ lost' = lost
       \/ /\ lost < MaxLost
          /\ nonce[p] >= mined
          /\ sent' = Broadcast(p)
          /\ known' = known
          /\ lost' = lost + 1
       \/ UNCHANGED <<sent, known, lost>>
    /\ pc' = [pc EXCEPT ![p] = "leaving"]
    /\ UNCHANGED <<doc, time, guard, nonce, mined, crashes>>

\* Mutant: the release is stamped with a time of its own.
ExitNow(p) ==
    /\ pc[p] = "leaving"
    /\ complete' = clock + 1
    /\ lastNonce' = IF known[p] = Undefined THEN lastNonce ELSE known[p]
    /\ pc' = [pc EXCEPT ![p] = "out"]
    /\ UNCHANGED <<started, time, guard, known, nonce, chain, faults>>

\* Release: write the time of one's own claim, and the nonce unless undefined.
Exit(p) ==
    /\ pc[p] = "leaving"
    /\ complete' = guard[p]
    /\ lastNonce' = IF known[p] = Undefined THEN lastNonce ELSE known[p]
    /\ pc' = [pc EXCEPT ![p] = "out"]
    /\ UNCHANGED <<started, time, guard, known, nonce, chain, faults>>

\* The process dies, or writing the release fails.
Crash(p) ==
    /\ crashes < MaxCrashes
    /\ pc[p] # "out"
    /\ crashes' = crashes + 1
    /\ pc' = [pc EXCEPT ![p] = "out"]
    /\ UNCHANGED <<doc, time, guard, known, nonce, chain, lost>>

\* Nonces are mined in order.
Mine == /\ mined \in Nonces
        /\ mined' = mined + 1
        /\ UNCHANGED <<doc, time, local, sent, faults>>

\* Fifteen minutes pass since the claim of timestamp s.
Age(s) == /\ old < s
          /\ old' = s
          /\ UNCHANGED <<doc, clock, local, chain, faults>>

\* Ten tries found the account claimed: the request fails.
GiveUp(p) == /\ pc[p] = "out"
             /\ Held /\ ~ Expired
             /\ UNCHANGED vars

\* No more requests: the model has given out its last timestamp.
Rest == /\ clock = MaxStamps
        /\ \A p \in Senders : pc[p] = "out"
        /\ UNCHANGED vars

Sender(p) == Enter(p) \/ Choose(p) \/ Send(p) \/ Exit(p)

Next == \/ \E p \in Senders : Sender(p) \/ Crash(p) \/ GiveUp(p)
        \/ Mine
        \/ \E s \in 1 .. clock : Age(s)
        \/ Rest

Spec == Init /\ [][Next]_vars

\* Requests keep coming; a sender that has entered goes on; pending
\* transactions are mined; time passes.
Fairness == /\ WF_vars(\E p \in Senders : Enter(p))
            /\ \A p \in Senders : WF_vars(Choose(p) \/ Send(p) \/ Exit(p))
            /\ WF_vars(Mine)
            /\ WF_vars(\E s \in 1 .. clock : Age(s))

FairSpec == Spec /\ Fairness

-----------------------------------------------------------------------------
\* The variables have their types; no timestamp is ahead of the clock.
TypeOK == /\ {started, complete, clock, old, mined, crashes, lost} \subseteq Nat
          /\ complete <= clock
          /\ lastNonce \in Nat \cup {Undefined}
          /\ pc \in [Senders -> {"out", "choosing", "sending", "leaving"}]
          /\ guard \in [Senders -> Nat]
          /\ \A p \in Senders : guard[p] <= clock
          /\ known \in [Senders -> Nat \cup {Undefined}]
          /\ nonce \in [Senders -> Nat]
          /\ sent \subseteq TxSent

Inside(p) == pc[p] # "out"

\* One sender at a time works between its claim and its release.
MutualExclusion ==
    \A p, q \in Senders : Inside(p) /\ Inside(q) => p = q

\* No claim is 15 minutes old yet.
Timely == old = 0

\* So it is until a claim is 15 minutes old, whoever vanishes.
ExclusiveWhileTimely == Timely => MutualExclusion

\* The transactions whose nonce another one carries too, one of each nonce not
\* counted: of two with one nonce, one replaces the other or is refused.
Reused == Cardinality(sent) - Cardinality(Nonces)

\* Until a claim is that old, a nonce is used again only after a reply was lost,
\* and once at most for each: with every reply received, no two transactions
\* carry the same nonce.
ReusedWhenLost == Timely => Reused <= lost

(***************************************************************************)
(* Why: while claims do not expire, whoever is inside made the last claim, *)
(* and it is not released.  The nonce that follows the one known to the    *)
(* sender inside, or else to the document, is the highest that can have    *)
(* been sent; if it has been, a reply was lost for which none was reused.  *)
(***************************************************************************)
ClaimInv == /\ \A p \in Senders :
                  Inside(p) => started = guard[p] /\ complete # guard[p]
            /\ MutualExclusion

SentUpTo(n) == \A tx \in sent : tx.nonce <= n

Following(n) == Later(mined, n + 1)

MayFollow(n) == n # Undefined => /\ SentUpTo(Following(n))
                                 /\ Following(n) \in Nonces => Reused < lost

KnowsLast(p) == /\ MayFollow(known[p])
                /\ known[p] = Undefined => lastNonce = Undefined

Chosen(p) == IF known[p] = Undefined THEN nonce[p] \notin Nonces
             ELSE nonce[p] >= mined => nonce[p] = Following(known[p])

NonceInv == /\ ClaimInv
            /\ Reused <= lost
            /\ ~ Held => MayFollow(lastNonce)
            /\ \A p \in Senders : /\ Inside(p) => KnowsLast(p)
                                  /\ pc[p] = "sending" => Chosen(p)

NoncesKept == Timely => NonceInv

\* No nonce is skipped: a transaction behind a gap would wait for ever.
NoGap == \A tx \in sent : 0 .. tx.nonce \subseteq Nonces

\* Requests keep being served once one has been: every claim the bound allows
\* is given out, although a sender may vanish with one.
ClaimsGoOn == (complete # NoStamp) ~> (clock = MaxStamps)
=============================================================================
