-------------------------- MODULE ProcessingProofs --------------------------
(***************************************************************************)
(* For any number of users, requests and resends, and any number of        *)
(* mishaps and overrides: the records keep their types, the contract       *)
(* accepts a signed request once, and an uber transfer overtakes no bill   *)
(* and no sale.                                                            *)
(***************************************************************************)
EXTENDS Processing, TLAPS

USE MailingsAssumption, BoundsAssumption

Places == {"out", "absent", "asking", "asked", "ready", "over"}

\* What an arrival carries, by name.
LEMMA RequestFields ==
    ASSUME request \in Mailings, NEW d \in Arrivals
    PROVE  /\ request[d] \in Requests /\ User(d) \in Users
           /\ Kind(d) \in Kinds /\ At(d) \in Nat
BY DEF Requests, Users, User, Kind, At, MailingsAssumption

(***************************************************************************)
(* Once.  A request that was accepted is not newer than its user's last    *)
(* timestamp; the contract is changed by accepting only.                   *)
(***************************************************************************)
ChainTyped ==
    request \in Mailings /\ lastTx \in [Users -> Nat] /\ taken \in [Requests -> Nat]

OnceInv ==
    /\ ChainTyped
    /\ \A r \in Requests :
          r.kind # "Buy" => taken[r] <= 1 /\ (taken[r] = 1 => r.at <= lastTx[r.user])

LEMMA ChainStep ==
    ASSUME [Next]_vars
    PROVE  /\ request' = request
           /\ UNCHANGED chain \/ \E d \in Arrivals : Accepted(d)
<1>1. CASE UNCHANGED vars
  BY <1>1 DEF vars, chain
<1>2. ASSUME NEW a \in Arrivals, Service(a)
      PROVE  request' = request /\ (UNCHANGED chain \/ Accepted(a))
  BY <1>2 DEF Service, Record, FindSale, RecordSale, AskBills, AskSales, Serve, Abandon,
              Submit, Interrupted, Others, chain
<1>3. ASSUME NEW a \in Arrivals, CoolDown(a) \/ Override(a)
      PROVE  request' = request /\ UNCHANGED chain
  BY <1>3 DEF CoolDown, Override, chain
<1>4. CASE Fetch \/ EndRun \/ CrashRun
  BY <1>4 DEF Fetch, EndRun, CrashRun, Outside, chain
<1>5. ASSUME NEW d \in Arrivals, Skip(d) \/ ProcessError(d) \/ ProcessPaused(d)
                                 \/ ProcessRest(d) \/ ProcessRestFails(d)
      PROVE  request' = request /\ UNCHANGED chain
  BY <1>5 DEF Skip, ProcessError, ProcessPaused, ProcessRest, ProcessRestFails, Process,
              Outside, chain
<1>6. ASSUME NEW d \in Arrivals,
             ProcessSubmit(d) \/ ProcessInterrupted(d) \/ ProcessDies(d)
      PROVE  request' = request /\ (UNCHANGED chain \/ Accepted(d))
  BY <1>6 DEF ProcessSubmit, ProcessInterrupted, ProcessDies, Process, Submit, Interrupted,
              Outside, chain
<1> QED
  BY <1>1, <1>2, <1>3, <1>4, <1>5, <1>6 DEF Next, Processor

LEMMA OnceStep ==
    ASSUME OnceInv, [Next]_vars
    PROVE  OnceInv'
<1>1. request' = request /\ request \in Mailings
  BY ChainStep DEF OnceInv, ChainTyped
<1>2. CASE UNCHANGED chain
  BY <1>1, <1>2 DEF OnceInv, ChainTyped, chain
<1>3. ASSUME NEW d \in Arrivals, Accepted(d)
      PROVE  OnceInv'
  <2> DEFINE x == request[d]
             w == User(d)
  <2>1. x \in Requests /\ w \in Users /\ At(d) \in Nat
    BY <1>1, RequestFields
  <2>2. taken' = [taken EXCEPT ![x] = @ + 1] /\ taken \in [Requests -> Nat]
    BY <1>3 DEF Accepted, OnceInv, ChainTyped
  <2>3. CASE Kind(d) = "Buy"
    <3>1. lastTx' = lastTx /\ x.kind = "Buy"
      BY <1>3, <2>3 DEF Accepted, Kind
    <3>2. taken' \in [Requests -> Nat]
      BY <2>1, <2>2
    <3>3. \A r \in Requests : r.kind # "Buy" => taken'[r] = taken[r]
      BY <2>2, <3>1
    <3> QED
      BY <1>1, <3>1, <3>2, <3>3 DEF OnceInv, ChainTyped
  <2>4. CASE Kind(d) # "Buy"
    <3>1. /\ lastTx' = [lastTx EXCEPT ![w] = At(d)] /\ lastTx \in [Users -> Nat]
          /\ At(d) > lastTx[w]
      BY <1>3, <2>4 DEF Accepted, TimestampIncreases, OnceInv, ChainTyped
    <3>2. taken' \in [Requests -> Nat] /\ lastTx' \in [Users -> Nat]
      BY <2>1, <2>2, <3>1
    <3>3. x.kind # "Buy" /\ x.at = At(d) /\ x.user = w
      BY <2>4 DEF Kind, At, User
    <3>4. taken[x] = 0
      BY <2>1, <2>2, <3>1, <3>3 DEF OnceInv
    <3>5. taken'[x] = 1 /\ lastTx'[w] = At(d)
      BY <2>1, <2>2, <3>1, <3>4
    <3>6. ASSUME NEW r \in Requests, r.kind # "Buy"
          PROVE  taken'[r] <= 1 /\ (taken'[r] = 1 => r.at <= lastTx'[r.user])
      <4>1. CASE r = x
        BY <2>1, <3>3, <3>5, <4>1
      <4>2. CASE r # x
        <5>1. taken'[r] = taken[r] /\ taken[r] <= 1
          BY <2>2, <3>6, <4>2 DEF OnceInv
        <5>2. taken[r] = 1 => r.at <= lastTx[r.user]
          BY <3>6 DEF OnceInv
        <5>3. PICK m \in Mailings, a \in Arrivals : r = m[a]
          BY DEF Requests
        <5>4. r.at \in Nat /\ r.user \in Users
          BY <5>3 DEF MailingsAssumption, Users
        <5>5. lastTx[r.user] <= lastTx'[r.user]
          BY <2>1, <3>1, <5>4
        <5>6. lastTx[r.user] \in Nat /\ lastTx'[r.user] \in Nat
          BY <3>1, <3>2, <5>4
        <5> QED
          BY <5>1, <5>2, <5>4, <5>5, <5>6
      <4> QED
        BY <4>1, <4>2
    <3> QED
      BY <1>1, <3>2, <3>6 DEF OnceInv, ChainTyped
  <2> QED
    BY <2>3, <2>4
<1> QED
  BY <1>2, <1>3, ChainStep

\* The contract accepts a signed request once, however often it is sent,
\* recorded and executed, and whatever fails meanwhile.
THEOREM AcceptedOnce == Spec => []TakenOnce
<1>1. Init => OnceInv
  BY DEF Init, OnceInv, ChainTyped
<1>2. OnceInv /\ [Next]_vars => OnceInv'
  BY OnceStep
<1>3. OnceInv => TakenOnce
  BY DEF OnceInv, TakenOnce
<1> QED
  BY <1>1, <1>2, <1>3, PTL DEF Spec

(***************************************************************************)
(* Types, with where the handlers are and what has not been created.       *)
(***************************************************************************)
PlacesInv ==
    \A a \in Arrivals :
       /\ a \notin created => stage[a] = "initial" /\ todo[a] = NotListed
       /\ pc[a] = "absent" => Kind(a) = "Sell"
       /\ pc[a] \in {"out", "absent"} /\ Kind(a) # "Buy" => a \notin created
       /\ pc[a] \in {"asking", "asked", "ready"} => a \in created
       /\ Kind(a) = "Buy" => pc[a] = "out"

TypeInv == TypeOK /\ PlacesInv

\* The stages that an execution can leave an action at, before the last.
Unfinished == Stages \ {"complete"}

LEMMA CreateTyped ==
    ASSUME TypeInv, NEW D \in SUBSET Arrivals, D \cap created = {}, CreateAction(D)
    PROVE  /\ created \subseteq created' /\ created' \subseteq Arrivals
           /\ elders' \in [Arrivals -> SUBSET created']
           /\ listed' \subseteq created' /\ erroneous' \subseteq created'
           /\ stage' = stage /\ erroneous' = erroneous
           /\ \A d \in listed' : stage'[d] # "complete"
<1>1. /\ created' = created \cup D /\ listed' = listed \cup D
      /\ stage' = stage /\ erroneous' = erroneous
      /\ elders' = [d \in Arrivals |-> IF d \in D THEN created ELSE elders[d]]
  BY DEF CreateAction
<1>2. elders' \in [Arrivals -> SUBSET created']
  BY <1>1 DEF TypeInv, TypeOK
<1>3. ASSUME NEW d \in listed'
      PROVE  stage'[d] # "complete"
  <2>1. CASE d \in listed
    BY <1>1, <2>1 DEF TypeInv, TypeOK
  <2>2. CASE d \in D
    BY <1>1, <2>2 DEF TypeInv, PlacesInv
  <2> QED
    BY <1>1, <1>3, <2>1, <2>2
<1> QED
  BY <1>1, <1>2, <1>3 DEF TypeInv, TypeOK

LEMMA ReachesTyped ==
    ASSUME TypeInv, NEW d \in created, NEW s \in Unfinished, NEW seen, Reaches(d, seen, s)
    PROVE  /\ stage' \in [Arrivals -> Stages]
           /\ UNCHANGED <<created, elders, listed>>
           /\ erroneous' \subseteq created /\ erroneous \subseteq erroneous'
           /\ \A x \in listed : stage'[x] # "complete"
           /\ \A x \in Arrivals : x # d => stage'[x] = stage[x]
           /\ stage'[d] \in {s, "jammed"}
<1>1. /\ stage' = [stage EXCEPT ![d] = Stored(d, seen, s)]
      /\ UNCHANGED <<created, elders, listed>>
      /\ erroneous' \subseteq erroneous \cup {d} /\ erroneous \subseteq erroneous'
  BY DEF Reaches
<1>2. Stored(d, seen, s) \in {s, "jammed"}
  BY DEF Stored
<1>3. stage \in [Arrivals -> Stages] /\ d \in Arrivals
  BY DEF TypeInv, TypeOK
<1>4. stage'[d] \in {s, "jammed"} /\ \A x \in Arrivals : x # d => stage'[x] = stage[x]
  BY <1>1, <1>2, <1>3
<1>5. {s, "jammed"} \subseteq Stages \ {"complete"}
  BY DEF Unfinished, Stages
<1>6. stage' \in [Arrivals -> Stages]
  BY <1>1, <1>2, <1>3, <1>5
<1> QED
  BY <1>1, <1>4, <1>5, <1>6 DEF TypeInv, TypeOK

LEMMA AcceptedTyped ==
    ASSUME TypeInv, NEW d \in Arrivals, Accepted(d) \/ UNCHANGED chain
    PROVE  lastTx' \in [Users -> Nat] /\ taken' \in [Requests -> Nat]
<1>1. /\ request[d] \in Requests /\ User(d) \in Users /\ At(d) \in Nat
      /\ lastTx \in [Users -> Nat] /\ taken \in [Requests -> Nat]
  BY RequestFields DEF TypeInv, TypeOK
<1> QED
  BY <1>1 DEF Accepted, chain

LEMMA MishapTyped ==
    ASSUME TypeInv, Mishap \/ AllWell
    PROVE  mishaps' \in 0 .. MaxMishaps
BY DEF TypeInv, TypeOK, Mishap, AllWell, BoundsAssumption

LEMMA SubmitTyped ==
    ASSUME TypeInv, NEW d \in created, NEW failure \in {"erred", "failed"}, NEW s,
           Submit(d, failure, s)
    PROVE  /\ s \in Unfinished
           /\ lastTx' \in [Users -> Nat] /\ taken' \in [Requests -> Nat]
           /\ mishaps' \in 0 .. MaxMishaps
<1>1. s \in {"sent", "refused", "erred", "failed", "stuck", "reverted"}
  BY DEF Submit, Refused
<1>2. Accepted(d) \/ UNCHANGED chain
  BY DEF Submit
<1>3. Mishap \/ AllWell
  BY DEF Submit
<1>4. d \in Arrivals
  BY DEF TypeInv, TypeOK
<1> QED
  BY <1>1, <1>2, <1>3, <1>4, AcceptedTyped, MishapTyped DEF Unfinished, Stages

\* Taking an action off the list, and blocking its user.
LEMMA TakesTyped ==
    ASSUME TypeInv, NEW d \in Arrivals, Takes(d)
    PROVE  /\ d \in created /\ phase' = phase
           /\ todo' \in [Arrivals -> Stages \cup {NotListed}]
           /\ todo'[d] = NotListed /\ \A x \in Arrivals : x # d => todo'[x] = todo[x]
           /\ \A x \in Arrivals : x \notin created => todo'[x] = NotListed
<1>1. todo \in [Arrivals -> Stages \cup {NotListed}] /\ todo[d] # NotListed
  BY DEF TypeInv, TypeOK, Takes, IsNext
<1>2. todo' = [todo EXCEPT ![d] = NotListed] /\ phase' = phase
  BY DEF Takes
<1>3. d \in created
  BY <1>1 DEF TypeInv, PlacesInv
<1>4. \A x \in Arrivals : x \notin created => todo[x] = NotListed
  BY DEF TypeInv, PlacesInv
<1> QED
  BY <1>1, <1>2, <1>3, <1>4

LEMMA NextRunTyped ==
    ASSUME NextRun
    PROVE  /\ phase' \in 1 .. Running /\ blocked' \subseteq Users
           /\ todo' \in [Arrivals -> Stages \cup {NotListed}]
           /\ \A x \in Arrivals : todo'[x] = NotListed
BY DEF NextRun, NoTodo, Running

LEMMA BlocksTyped ==
    ASSUME TypeInv, NEW d \in Arrivals, NEW s
    PROVE  Blocks(d, s) \subseteq Users /\ blocked \cup {User(d)} \subseteq Users
           /\ blocked \subseteq Blocks(d, s)
BY RequestFields DEF TypeInv, TypeOK, Blocks

LEMMA ServiceTyped ==
    ASSUME TypeInv, NEW a \in Arrivals, Service(a)
    PROVE  TypeInv'
<1> DEFINE Kept == UNCHANGED <<request, cooled, phase, todo, blocked, overrides>>
<1>1. TypeOK /\ PlacesInv
  BY DEF TypeInv
<1>2. /\ Kept
      /\ pc' \in [Arrivals -> Places] /\ \A x \in Arrivals : x # a => pc'[x] = pc[x]
  BY <1>1 DEF Service, Record, FindSale, RecordSale, AskBills, AskSales, Serve, Abandon,
              Goes, Others, processor, TypeOK, Places, Kinds
<1>3. ASSUME \/ Record(a)
             \/ RecordSale(a)
      PROVE  TypeInv'
  <2>1. CreateAction({a}) /\ UNCHANGED <<lastTx, taken, mishaps>>
    BY <1>3 DEF Record, RecordSale, chain
  <2>2. a \notin created /\ Kind(a) # "Buy"
    BY <1>1, <1>3 DEF Record, RecordSale, Goes, PlacesInv
  <2>3. /\ created \subseteq created' /\ created' \subseteq Arrivals
        /\ elders' \in [Arrivals -> SUBSET created']
        /\ listed' \subseteq created' /\ erroneous' \subseteq created'
        /\ stage' = stage /\ erroneous' = erroneous
        /\ \A d \in listed' : stage'[d] # "complete"
    BY <2>1, <2>2, CreateTyped
  <2>4. TypeOK'
    BY <1>1, <1>2, <2>1, <2>3 DEF TypeOK, Places
  <2>5. created' = created \cup {a}
    BY <2>1 DEF CreateAction
  <2>6. pc'[a] \in {"asking", "ready", "over"}
    BY <1>1, <1>3 DEF Record, RecordSale, Goes, TypeOK
  <2>7. PlacesInv'
    BY <1>1, <1>2, <2>2, <2>3, <2>5, <2>6 DEF PlacesInv, Kind
  <2> QED
    BY <2>4, <2>7 DEF TypeInv
<1>4. ASSUME FindSale(a) \/ AskBills(a) \/ AskSales(a) \/ Abandon(a)
      PROVE  TypeInv'
  <2>1. UNCHANGED <<created, elders, listed, stage, erroneous, lastTx, taken, mishaps>>
    BY <1>4 DEF FindSale, AskBills, AskSales, Abandon, records, chain
  <2>2. TypeOK'
    BY <1>1, <1>2, <2>1 DEF TypeOK, Places
  <2>3. /\ pc'[a] = "absent" => pc[a] = "out" /\ Kind(a) = "Sell"
        /\ pc'[a] \in {"asking", "asked", "ready"} => pc[a] \in {"asking", "asked"}
        /\ pc[a] # "out" \/ Kind(a) = "Sell"
    BY <1>1, <1>4 DEF FindSale, AskBills, AskSales, Abandon, Goes, TypeOK
  <2>4. pc'[a] # "out"
    BY <1>1, <1>4 DEF FindSale, AskBills, AskSales, Abandon, Goes, TypeOK
  <2>5. PlacesInv'
    BY <1>1, <1>2, <2>1, <2>3, <2>4 DEF PlacesInv, Kind
  <2> QED
    BY <2>2, <2>5 DEF TypeInv
<1>5. ASSUME Serve(a)
      PROVE  TypeInv'
  <2>1. pc[a] = "ready" /\ pc'[a] = "over" /\ a \in created
    BY <1>1, <1>5 DEF Serve, Goes, PlacesInv, TypeOK
  <2>2. PICK s \in Unfinished : Reaches(a, "initial", s)
    BY <1>5, <2>1, SubmitTyped DEF Serve, Unfinished, Stages
  <2>3. /\ stage' \in [Arrivals -> Stages] /\ UNCHANGED <<created, elders, listed>>
        /\ erroneous' \subseteq created /\ erroneous \subseteq erroneous'
        /\ \A x \in listed : stage'[x] # "complete"
        /\ \A x \in Arrivals : x # a => stage'[x] = stage[x]
    BY <2>1, <2>2, ReachesTyped
  <2>4. /\ lastTx' \in [Users -> Nat] /\ taken' \in [Requests -> Nat]
        /\ mishaps' \in 0 .. MaxMishaps
    BY <1>5, <2>1, SubmitTyped, AcceptedTyped, MishapTyped DEF Serve, Interrupted
  <2>5. TypeOK'
    BY <1>1, <1>2, <2>3, <2>4 DEF TypeOK, Places
  <2>6. PlacesInv'
    BY <1>1, <1>2, <2>1, <2>3 DEF PlacesInv, Kind
  <2> QED
    BY <2>5, <2>6 DEF TypeInv
<1> QED
  BY <1>3, <1>4, <1>5 DEF Service

\* An execution by the processor, whatever becomes of the rest of its list.
LEMMA ExecutionTyped ==
    ASSUME TypeInv, NEW d \in created, NEW s \in Unfinished, NEW seen, Reaches(d, seen, s),
           UNCHANGED <<request, cooled, pc, overrides>>,
           lastTx' \in [Users -> Nat], taken' \in [Requests -> Nat],
           mishaps' \in 0 .. MaxMishaps, phase' \in 1 .. Running, blocked' \subseteq Users,
           todo' \in [Arrivals -> Stages \cup {NotListed}],
           \A x \in Arrivals : x \notin created => todo'[x] = NotListed
    PROVE  TypeInv'
<1>1. TypeOK /\ PlacesInv
  BY DEF TypeInv
<1>2. /\ stage' \in [Arrivals -> Stages] /\ UNCHANGED <<created, elders, listed>>
      /\ erroneous' \subseteq created /\ erroneous \subseteq erroneous'
      /\ \A x \in listed : stage'[x] # "complete"
      /\ \A x \in Arrivals : x # d => stage'[x] = stage[x]
  BY ReachesTyped
<1>3. TypeOK'
  BY <1>1, <1>2 DEF TypeOK
<1>4. PlacesInv'
  BY <1>1, <1>2 DEF PlacesInv, Kind
<1> QED
  BY <1>3, <1>4 DEF TypeInv

LEMMA ProcessorTyped ==
    ASSUME TypeInv, NEW d \in Arrivals,
           \/ Skip(d) \/ ProcessSubmit(d) \/ ProcessInterrupted(d) \/ ProcessDies(d)
           \/ ProcessError(d) \/ ProcessPaused(d) \/ ProcessRest(d) \/ ProcessRestFails(d)
    PROVE  TypeInv'
<1>1. TypeOK /\ PlacesInv
  BY DEF TypeInv
<1>2. /\ lastTx \in [Users -> Nat] /\ taken \in [Requests -> Nat]
      /\ mishaps \in 0 .. MaxMishaps /\ phase \in 1 .. Running
      /\ blocked \subseteq Users
  BY <1>1 DEF TypeOK
<1>3. CASE ProcessSubmit(d)
  <2>1. Takes(d) /\ UNCHANGED <<request, cooled, pc, overrides>>
    BY <1>3 DEF ProcessSubmit, Process, Outside
  <2>2. PICK s : Submit(d, "failed", s) /\ Reaches(d, todo[d], s) /\ blocked' = Blocks(d, s)
    BY <1>3 DEF ProcessSubmit
  <2>3. d \in created
    BY <2>1, TakesTyped
  <2> QED
    BY <1>2, <2>1, <2>2, <2>3, TakesTyped, SubmitTyped, BlocksTyped, ExecutionTyped
<1>4. CASE ProcessInterrupted(d) \/ ProcessDies(d)
  <2>1. /\ UNCHANGED <<request, cooled, pc, overrides>>
        /\ Interrupted(d) /\ Reaches(d, todo[d], "locked") /\ todo[d] # NotListed
        /\ (Takes(d) /\ blocked' = blocked \cup {User(d)}) \/ NextRun
    BY <1>4 DEF ProcessInterrupted, ProcessDies, Process, Outside, Takes, IsNext
  <2>2. d \in created /\ "locked" \in Unfinished
    BY <1>1, <2>1 DEF PlacesInv, Unfinished, Stages
  <2>3. /\ lastTx' \in [Users -> Nat] /\ taken' \in [Requests -> Nat]
        /\ mishaps' \in 0 .. MaxMishaps
    BY <2>1, AcceptedTyped, MishapTyped DEF Interrupted
  <2>4. /\ phase' \in 1 .. Running /\ blocked' \subseteq Users
        /\ todo' \in [Arrivals -> Stages \cup {NotListed}]
        /\ \A x \in Arrivals : x \notin created => todo'[x] = NotListed
    BY <1>2, <2>1, TakesTyped, BlocksTyped, NextRunTyped
  <2> QED
    BY <2>1, <2>2, <2>3, <2>4, ExecutionTyped
<1>5. CASE ProcessError(d) \/ ProcessRestFails(d)
  <2>1. PICK s \in {"failed", "stuck", "reverted"} :
           /\ UNCHANGED <<request, cooled, pc, overrides, lastTx, taken>> /\ Takes(d)
           /\ Reaches(d, todo[d], s) /\ blocked' = Blocks(d, s)
           /\ UNCHANGED mishaps \/ Mishap
    <3>1. CASE ProcessError(d)
      BY <3>1 DEF ProcessError, Process, Outside, chain
    <3>2. CASE ProcessRestFails(d)
      BY <3>2 DEF ProcessRestFails, Process, Outside, chain
    <3> QED
      BY <1>5, <3>1, <3>2
  <2>2. s \in Unfinished
    BY <2>1 DEF Unfinished, Stages
  <2> QED
    BY <1>2, <2>1, <2>2, TakesTyped, BlocksTyped, MishapTyped, ExecutionTyped
<1>6. CASE Skip(d) \/ ProcessPaused(d)
  <2>1. /\ UNCHANGED <<request, created, elders, listed, stage, erroneous, cooled, pc,
                       lastTx, taken, mishaps, overrides>>
        /\ Takes(d) /\ (blocked' = blocked \/ blocked' = Blocks(d, todo[d]))
    BY <1>6 DEF Skip, ProcessPaused, Process, Outside, records, chain
  <2>2. blocked' \subseteq Users
    BY <1>2, <2>1, BlocksTyped
  <2>3. /\ phase' = phase /\ todo' \in [Arrivals -> Stages \cup {NotListed}]
        /\ \A x \in Arrivals : x \notin created => todo'[x] = NotListed
    BY <2>1, TakesTyped
  <2> QED
    BY <1>1, <2>1, <2>2, <2>3 DEF TypeInv, TypeOK, PlacesInv, Kind
<1>7. CASE ProcessRest(d)
  <2>1. /\ UNCHANGED <<request, created, elders, erroneous, cooled, pc, lastTx, taken,
                       overrides>>
        /\ Takes(d) /\ listed' = listed \ {d}
        /\ stage' = [stage EXCEPT ![d] = Stored(d, "sent", "complete")]
    BY <1>7 DEF ProcessRest, Process, Outside, chain
  <2>2. blocked' \subseteq Users /\ mishaps' \in 0 .. MaxMishaps
    BY <1>1, <1>7, BlocksTyped, MishapTyped DEF ProcessRest, TypeOK
  <2>3. /\ d \in created /\ phase' = phase /\ todo' \in [Arrivals -> Stages \cup {NotListed}]
        /\ \A x \in Arrivals : x \notin created => todo'[x] = NotListed
    BY <2>1, TakesTyped
  <2>4. stage' \in [Arrivals -> Stages] /\ \A x \in Arrivals : x # d => stage'[x] = stage[x]
    BY <1>1, <2>1 DEF TypeOK, Stored, Stages
  <2> QED
    BY <1>1, <2>1, <2>2, <2>3, <2>4 DEF TypeInv, TypeOK, PlacesInv, Kind
<1> QED
  BY <1>3, <1>4, <1>5, <1>6, <1>7

LEMMA FetchTyped ==
    ASSUME TypeInv, Fetch
    PROVE  TypeInv'
<1>1. TypeOK /\ PlacesInv
  BY DEF TypeInv
<1>2. PICK D \in SUBSET Arrivals : NewMails(D) /\ CreateAction(D)
  BY DEF Fetch
<1>3. /\ phase' = phase + 1 /\ phase < Running
      /\ UNCHANGED <<request, cooled, pc, overrides, lastTx, taken, blocked, mishaps>>
      /\ todo' = [d \in Arrivals |-> IF d \in listed' /\ Collection(d) = FetchOrder[phase]
                                     THEN stage[d] ELSE todo[d]]
  BY DEF Fetch, Outside, chain
<1>4. D \cap created = {} /\ \A x \in D : Kind(x) = "Buy"
  BY <1>2 DEF NewMails
<1>5. /\ created \subseteq created' /\ created' \subseteq Arrivals
      /\ elders' \in [Arrivals -> SUBSET created']
      /\ listed' \subseteq created' /\ erroneous' \subseteq created'
      /\ stage' = stage /\ erroneous' = erroneous
      /\ \A d \in listed' : stage'[d] # "complete"
  BY <1>2, <1>4, CreateTyped
<1>6. created' = created \cup D
  BY <1>2 DEF CreateAction
<1>7. stage \in [Arrivals -> Stages] /\ todo \in [Arrivals -> Stages \cup {NotListed}]
  BY <1>1 DEF TypeOK
<1>8. /\ todo' \in [Arrivals -> Stages \cup {NotListed}]
      /\ \A x \in Arrivals : x \notin created' => todo'[x] = NotListed
  BY <1>1, <1>3, <1>5, <1>6, <1>7 DEF PlacesInv
<1>9. phase' \in 1 .. Running
  BY <1>1, <1>3 DEF TypeOK, Running
<1>10. TypeOK'
  BY <1>1, <1>3, <1>5, <1>8, <1>9 DEF TypeOK
<1>11. PlacesInv'
  BY <1>1, <1>3, <1>4, <1>5, <1>6, <1>8 DEF PlacesInv, Kind
<1> QED
  BY <1>10, <1>11 DEF TypeInv

LEMMA TypeStep ==
    ASSUME TypeInv, [Next]_vars
    PROVE  TypeInv'
<1>1. TypeOK /\ PlacesInv
  BY DEF TypeInv
<1>2. CASE UNCHANGED vars
  BY <1>1, <1>2 DEF vars, records, chain, processor, bounds, TypeInv, TypeOK, PlacesInv, Kind
<1>3. CASE EndRun \/ CrashRun
  <2>1. /\ UNCHANGED <<request, created, elders, listed, stage, erroneous, cooled, pc,
                       lastTx, taken, overrides>>
        /\ NextRun /\ (UNCHANGED mishaps \/ Mishap)
    BY <1>3 DEF EndRun, CrashRun, Outside, records, chain
  <2>2. mishaps' \in 0 .. MaxMishaps
    BY <1>1, <2>1, MishapTyped DEF TypeOK
  <2> QED
    BY <1>1, <2>1, <2>2, NextRunTyped DEF TypeInv, TypeOK, PlacesInv, Kind
<1>4. ASSUME NEW d \in Arrivals, CoolDown(d)
      PROVE  TypeInv'
  <2>1. UNCHANGED <<request, created, elders, listed, stage, erroneous, pc, lastTx, taken,
                    phase, todo, blocked, mishaps, overrides>>
    BY <1>4 DEF CoolDown, records, chain, processor, bounds
  <2>2. cooled' = cooled \cup {d} /\ stage[d] = "refused"
    BY <1>4 DEF CoolDown
  <2> QED
    BY <1>1, <2>1, <2>2 DEF TypeInv, TypeOK, PlacesInv, Kind
<1>5. ASSUME NEW d \in Arrivals, Override(d)
      PROVE  TypeInv'
  <2>1. UNCHANGED <<request, created, elders, listed, erroneous, cooled, pc, lastTx, taken,
                    phase, todo, blocked, mishaps>>
    BY <1>5 DEF Override, chain, processor
  <2>2. /\ d \in listed /\ overrides' = overrides + 1 /\ overrides < MaxOverrides
        /\ \E s \in {"initial", "sent"} : stage' = [stage EXCEPT ![d] = s]
    BY <1>5 DEF Override
  <2>3. overrides' \in 0 .. MaxOverrides
    BY <1>1, <2>2 DEF TypeOK, BoundsAssumption
  <2>4. /\ stage' \in [Arrivals -> Stages]
        /\ \A x \in Arrivals : x # d => stage'[x] = stage[x]
        /\ stage'[d] # "complete" /\ d \in created
    BY <1>1, <2>2 DEF TypeOK, Stages
  <2> QED
    BY <1>1, <2>1, <2>3, <2>4 DEF TypeInv, TypeOK, PlacesInv, Kind
<1> QED
  BY <1>2, <1>3, <1>4, <1>5, ServiceTyped, FetchTyped, ProcessorTyped DEF Next, Processor

\* The variables have their types; what is listed was created and is not
\* complete.
THEOREM ProcessingTyped == Spec => []TypeOK
<1>1. Init => TypeInv
  BY DEF Init, TypeInv, TypeOK, PlacesInv, NoTodo, Stages, Running, BoundsAssumption
<1>2. TypeInv /\ [Next]_vars => TypeInv'
  BY TypeStep
<1>3. TypeInv => TypeOK
  BY DEF TypeInv
<1> QED
  BY <1>1, <1>2, <1>3, PTL DEF Spec

(***************************************************************************)
(* In order.  An elder of an uber transfer is an older bill or sale of the *)
(* same user.  The service has asked for them after it recorded the        *)
(* transfer.  The processor reads the bills first: an elder is on its list *)
(* when all are read, and is taken off it before the transfer; by then it  *)
(* is sent, jammed or complete, or its user is blocked.                    *)
(***************************************************************************)
Rivals == {"Bill", "Uber", "Sell"}

Elder(d, e) ==
    /\ e \in elders[d] /\ e \in listed /\ Kind(e) \in Rivals
    /\ User(e) = User(d) /\ At(e) < At(d)

AskedInv ==
    \A a, e \in Arrivals :
       Kind(a) = "Uber" /\ Elder(a, e) => /\ pc[a] = "asked" => Kind(e) = "Sell"
                                          /\ pc[a] # "ready"

Away == {"sent", "reverted", "jammed"}

QueueInv ==
    \A d, e \in Arrivals :
       /\ Kind(d) = "Uber" /\ todo[d] # NotListed /\ Elder(d, e)
       /\ Kind(e) = "Sell" => phase > 3
       /\ stage[e] \notin Away
       => todo[e] # NotListed \/ User(d) \in blocked

BillsRead ==
    \A d \in Arrivals : Kind(d) = "Uber" /\ todo[d] # NotListed => phase > 1

\* What was read of an action, and how far it may have come since.
SeenInv ==
    \A e \in Arrivals : /\ todo[e] = "jammed" => stage[e] = "jammed"
                        /\ todo[e] \in {"sent", "reverted"} => stage[e] \in Away

ListInv == QueueInv /\ BillsRead /\ SeenInv
OrderInv == TypeInv /\ AskedInv /\ ListInv

\* No step but a creation gives an action an elder.
LEMMA ElderKept ==
    ASSUME request' = request, elders' = elders, listed' \subseteq listed,
           NEW d, NEW e, Elder(d, e)'
    PROVE  Elder(d, e)
BY DEF Elder, Kind, User, At

LEMMA ElderCreated ==
    ASSUME TypeInv, request' = request, NEW D \in SUBSET Arrivals, D \cap created = {},
           CreateAction(D), NEW d \in Arrivals, d \notin D, NEW e, Elder(d, e)'
    PROVE  Elder(d, e)
<1>1. elders'[d] = elders[d] /\ elders[d] \subseteq created /\ listed' = listed \cup D
  BY DEF CreateAction, TypeInv, TypeOK
<1> QED
  BY <1>1 DEF Elder, Kind, User, At

\* An action that goes on at stage s, as long as it is not on the list.
LEMMA ListKept ==
    ASSUME ListInv, request' = request, elders' = elders, listed' \subseteq listed,
           UNCHANGED <<phase, todo, blocked>>,
           \A x \in Arrivals : stage[x] \in Away => stage'[x] \in Away,
           \A x \in Arrivals : stage[x] = "jammed" => stage'[x] = "jammed"
    PROVE  ListInv'
<1>1. ASSUME NEW d \in Arrivals, NEW e \in Arrivals,
             Kind(d)' = "Uber", todo'[d] # NotListed, Elder(d, e)',
             Kind(e)' = "Sell" => phase' > 3, stage'[e] \notin Away
      PROVE  todo'[e] # NotListed \/ User(d)' \in blocked'
  <2>1. Elder(d, e) /\ stage[e] \notin Away
    BY <1>1, ElderKept
  <2> QED
    BY <1>1, <2>1 DEF ListInv, QueueInv, Kind, User
<1>2. QueueInv'
  BY <1>1 DEF QueueInv
<1>3. BillsRead' /\ SeenInv'
  BY DEF ListInv, BillsRead, SeenInv, Kind
<1> QED
  BY <1>2, <1>3 DEF ListInv

LEMMA AskedKept ==
    ASSUME AskedInv, UNCHANGED <<request, elders, pc>>, listed' \subseteq listed
    PROVE  AskedInv'
BY DEF AskedInv, Elder, Kind, User, At

\* The next run has nothing on its list.
LEMMA NextRunOrdered ==
    ASSUME AskedInv, NextRun, UNCHANGED <<request, elders, pc>>, listed' \subseteq listed
    PROVE  AskedInv' /\ ListInv'
<1>1. \A x \in Arrivals : todo'[x] = NotListed
  BY NextRunTyped
<1>2. ListInv'
  BY <1>1 DEF ListInv, QueueInv, BillsRead, SeenInv, NotListed
<1> QED
  BY <1>2, AskedKept

\* An action is taken off the list: whatever waits behind it may go on if it
\* is away, and is blocked if not.
LEMMA TakesOrdered ==
    ASSUME OrderInv, NEW d \in Arrivals, Takes(d), UNCHANGED <<request, elders, pc>>,
           listed' \subseteq listed, blocked \subseteq blocked',
           \A x \in Arrivals : x # d => stage'[x] = stage[x],
           d \in listed' /\ Kind(d) \in Rivals /\ stage'[d] \notin Away
              => User(d) \in blocked'
    PROVE  AskedInv' /\ ListInv'
<1>1. /\ phase' = phase /\ todo'[d] = NotListed
      /\ \A x \in Arrivals : x # d => todo'[x] = todo[x]
  BY TakesTyped DEF OrderInv
<1>2. ASSUME NEW c \in Arrivals, NEW e \in Arrivals,
             Kind(c)' = "Uber", todo'[c] # NotListed, Elder(c, e)',
             Kind(e)' = "Sell" => phase' > 3, stage'[e] \notin Away
      PROVE  todo'[e] # NotListed \/ User(c)' \in blocked'
  <2>1. Elder(c, e) /\ c # d /\ todo[c] # NotListed /\ User(e) = User(c)
    BY <1>1, <1>2, ElderKept DEF Elder
  <2>2. CASE e = d
    <3>1. d \in listed' /\ Kind(d) \in Rivals
      BY <1>2, <2>2 DEF Elder, Kind
    <3> QED
      BY <1>2, <2>1, <2>2, <3>1 DEF User
  <2>3. CASE e # d
    <3>1. stage[e] \notin Away /\ todo'[e] = todo[e]
      BY <1>1, <1>2, <2>3
    <3> QED
      BY <1>1, <1>2, <2>1, <3>1 DEF OrderInv, ListInv, QueueInv, Kind, User
  <2> QED
    BY <2>2, <2>3
<1>3. QueueInv'
  BY <1>2 DEF QueueInv
<1>4. BillsRead' /\ SeenInv'
  BY <1>1 DEF OrderInv, ListInv, BillsRead, SeenInv, Kind, NotListed
<1> QED
  BY <1>3, <1>4, AskedKept DEF OrderInv, ListInv

LEMMA CreateOrdered ==
    ASSUME OrderInv, NEW a \in Arrivals, Record(a) \/ RecordSale(a)
    PROVE  AskedInv' /\ ListInv'
<1>1. TypeOK /\ PlacesInv /\ TypeInv
  BY DEF OrderInv, TypeInv
<1>2. /\ CreateAction({a}) /\ UNCHANGED <<request, phase, todo, blocked>> /\ stage' = stage
      /\ a \notin created /\ (Kind(a) = "Uber" => pc'[a] = "asking")
      /\ \A x \in Arrivals : x # a => pc'[x] = pc[x]
  BY <1>1 DEF Record, RecordSale, Others, processor, CreateAction, Goes, PlacesInv, TypeOK
<1>3. ASSUME NEW c \in Arrivals, c # a, NEW e, Elder(c, e)'
      PROVE  Elder(c, e)
  BY <1>1, <1>2, <1>3, ElderCreated
<1>4. todo[a] = NotListed
  BY <1>1, <1>2 DEF PlacesInv
<1>5. AskedInv'
  BY <1>2, <1>3 DEF OrderInv, AskedInv, Kind
<1>6. QueueInv'
  BY <1>2, <1>3, <1>4 DEF OrderInv, ListInv, QueueInv, Kind, User
<1>7. BillsRead' /\ SeenInv'
  BY <1>2 DEF OrderInv, ListInv, BillsRead, SeenInv, Kind
<1> QED
  BY <1>5, <1>6, <1>7 DEF ListInv

LEMMA AskOrdered ==
    ASSUME OrderInv, NEW a \in Arrivals,
           FindSale(a) \/ AskBills(a) \/ AskSales(a) \/ Abandon(a)
    PROVE  AskedInv' /\ ListInv'
<1>1. TypeOK
  BY DEF OrderInv, TypeInv
<1>2. /\ UNCHANGED <<request, elders, listed, stage, phase, todo, blocked>>
      /\ \A x \in Arrivals : x # a => pc'[x] = pc[x]
  BY <1>1 DEF FindSale, AskBills, AskSales, Abandon, Others, records, processor, Goes, TypeOK
<1>3. ListInv'
  BY <1>2, ListKept DEF OrderInv
<1>4. ASSUME NEW e \in Arrivals, Kind(a) = "Uber", Elder(a, e)
      PROVE  (pc'[a] = "asked" => Kind(e) = "Sell") /\ pc'[a] # "ready"
  <2>1. /\ e \in listed /\ User(e) = User(a) /\ request[e] # request[a]
        /\ Collection(e) = IF Kind(e) = "Sell" THEN "Sell" ELSE "Bill"
    <3>1. At(e) < At(a) /\ At(e) \in Nat /\ At(a) \in Nat
      BY <1>1, <1>4, RequestFields DEF Elder, TypeOK
    <3>2. request[e] # request[a]
      BY <3>1 DEF At
    <3> QED
      BY <1>4, <3>2 DEF Elder, Collection, Rivals
  <2>2. CASE FindSale(a) \/ Abandon(a)
    BY <1>1, <1>4, <2>2 DEF FindSale, Abandon, TypeOK
  <2>3. CASE AskBills(a)
    <3>1. Kind(e) # "Sell" => Pending(a, "Bill")
      BY <2>1 DEF Pending
    <3> QED
      BY <1>1, <2>3, <3>1 DEF AskBills, Goes, TypeOK
  <2>4. CASE AskSales(a)
    <3>1. Kind(e) = "Sell"
      BY <1>4, <2>4 DEF AskSales, Goes, OrderInv, AskedInv
    <3>2. Pending(a, "Sell")
      BY <2>1, <3>1 DEF Pending
    <3> QED
      BY <1>1, <2>4, <3>2 DEF AskSales, Goes, TypeOK
  <2> QED
    BY <2>2, <2>3, <2>4
<1>5. ASSUME NEW c \in Arrivals, NEW e \in Arrivals, Kind(c)' = "Uber", Elder(c, e)'
      PROVE  (pc'[c] = "asked" => Kind(e)' = "Sell") /\ pc'[c] # "ready"
  <2>1. Elder(c, e) /\ Kind(c) = "Uber" /\ Kind(e)' = Kind(e)
    BY <1>2, <1>5, ElderKept DEF Kind
  <2> QED
    BY <1>2, <1>4, <2>1 DEF OrderInv, AskedInv
<1>6. AskedInv'
  BY <1>5 DEF AskedInv
<1> QED
  BY <1>3, <1>6

LEMMA ServeOrdered ==
    ASSUME OrderInv, NEW a \in Arrivals, Serve(a)
    PROVE  AskedInv' /\ ListInv'
<1>1. TypeOK
  BY DEF OrderInv, TypeInv
<1>2. PICK s : Reaches(a, "initial", s)
  BY DEF Serve
<1>3. UNCHANGED <<request, elders, listed, phase, todo, blocked>>
  BY <1>2 DEF Serve, Others, processor, Reaches
<1>4. /\ \A x \in Arrivals : x # a => stage'[x] = stage[x]
      /\ stage[a] # "initial" => stage'[a] = "jammed"
  BY <1>1, <1>2 DEF Reaches, Stored, TypeOK
<1>5. ListInv'
  BY <1>3, <1>4, ListKept DEF OrderInv, Away
<1>6. \A x \in Arrivals : pc'[x] = IF x = a THEN "over" ELSE pc[x]
  BY <1>1 DEF Serve, Goes, TypeOK
<1>7. AskedInv'
  BY <1>3, <1>6, ElderKept DEF OrderInv, AskedInv, Kind
<1> QED
  BY <1>5, <1>7

LEMMA FetchOrdered ==
    ASSUME OrderInv, Fetch
    PROVE  AskedInv' /\ ListInv'
<1>1. TypeOK /\ TypeInv
  BY DEF OrderInv, TypeInv
<1>2. PICK D \in SUBSET Arrivals : NewMails(D) /\ CreateAction(D)
  BY DEF Fetch
<1>3. /\ UNCHANGED <<request, pc, blocked>> /\ phase' = phase + 1 /\ phase \in 1 .. 4
      /\ stage' = stage
  BY <1>1, <1>2 DEF Fetch, Outside, TypeOK, Running, CreateAction
<1>4. \A x \in Arrivals : todo'[x] = IF x \in listed' /\ Collection(x) = FetchOrder[phase]
                                     THEN stage[x] ELSE todo[x]
  BY DEF Fetch
<1>5. ASSUME NEW c \in Arrivals, Kind(c) = "Uber", NEW e, Elder(c, e)'
      PROVE  Elder(c, e)
  <2>1. D \cap created = {} /\ c \notin D
    BY <1>2, <1>5 DEF NewMails
  <2> QED
    BY <1>1, <1>2, <1>3, <1>5, <2>1, ElderCreated
<1>6. AskedInv'
  BY <1>3, <1>5 DEF OrderInv, AskedInv, Kind
<1>7. \A x \in Arrivals : stage[x] # NotListed
  BY <1>1 DEF TypeOK, Stages, NotListed
<1>8. /\ FetchOrder[1] = "Bill" /\ FetchOrder[2] = "Plugin"
      /\ FetchOrder[3] = "Sell" /\ FetchOrder[4] = "Buy"
  BY DEF FetchOrder
<1>9. ASSUME NEW c \in Arrivals, NEW e \in Arrivals,
             Kind(c) = "Uber", todo'[c] # NotListed, Elder(c, e), e \in listed',
             Kind(e) = "Sell" => phase' > 3, stage[e] \notin Away
      PROVE  todo'[e] # NotListed \/ User(c) \in blocked
  <2>1. /\ Collection(c) = "Bill" /\ Collection(e) = IF Kind(e) = "Sell" THEN "Sell" ELSE "Bill"
        /\ Kind(e) \in Rivals
    BY <1>9 DEF Collection, Elder, Rivals
  <2>2. CASE phase = 1
    BY <1>3, <1>4, <1>7, <1>8, <1>9, <2>1, <2>2
  <2>3. CASE phase = 2
    <3>1. Kind(e) # "Sell" /\ todo'[c] = todo[c] /\ todo'[e] = todo[e]
      BY <1>3, <1>4, <1>8, <1>9, <2>1, <2>3
    <3> QED
      BY <1>9, <3>1 DEF OrderInv, ListInv, QueueInv
  <2>4. CASE phase = 3
    <3>1. todo'[c] = todo[c] /\ (Kind(e) # "Sell" => todo'[e] = todo[e])
      BY <1>4, <1>8, <2>1, <2>4
    <3>2. Kind(e) = "Sell" => todo'[e] # NotListed
      BY <1>4, <1>7, <1>8, <1>9, <2>1, <2>4
    <3> QED
      BY <1>9, <3>1, <3>2 DEF OrderInv, ListInv, QueueInv
  <2>5. CASE phase = 4
    <3>1. todo'[c] = todo[c] /\ todo'[e] = todo[e] /\ phase > 3
      BY <1>4, <1>8, <2>1, <2>5
    <3> QED
      BY <1>9, <3>1 DEF OrderInv, ListInv, QueueInv
  <2> QED
    BY <1>3, <2>2, <2>3, <2>4, <2>5
<1>10. QueueInv'
  <2>1. ASSUME NEW c \in Arrivals, NEW e \in Arrivals,
               Kind(c)' = "Uber", todo'[c] # NotListed, Elder(c, e)',
               Kind(e)' = "Sell" => phase' > 3, stage'[e] \notin Away
        PROVE  todo'[e] # NotListed \/ User(c)' \in blocked'
    <3>1. Kind(c) = "Uber" /\ Kind(e)' = Kind(e) /\ User(c)' = User(c) /\ e \in listed'
      BY <1>3, <2>1 DEF Kind, User, Elder
    <3> QED
      BY <1>3, <1>5, <1>9, <2>1, <3>1
  <2> QED
    BY <2>1 DEF QueueInv
<1>11. BillsRead'
  BY <1>3 DEF BillsRead
<1>12. SeenInv'
  BY <1>3, <1>4 DEF OrderInv, ListInv, SeenInv, Away
<1> QED
  BY <1>6, <1>10, <1>11, <1>12 DEF ListInv

LEMMA ProcessorOrdered ==
    ASSUME OrderInv, NEW d \in Arrivals,
           \/ Skip(d) \/ ProcessSubmit(d) \/ ProcessInterrupted(d) \/ ProcessDies(d)
           \/ ProcessError(d) \/ ProcessPaused(d) \/ ProcessRest(d) \/ ProcessRestFails(d)
    PROVE  AskedInv' /\ ListInv'
<1>1. TypeOK /\ TypeInv /\ AskedInv
  BY DEF OrderInv, TypeInv
<1>2. Kind(d) \in Rivals => Kind(d) # "Buy"
  BY DEF Rivals
<1>3. CASE ProcessDies(d)
  BY <1>1, <1>3, NextRunOrdered DEF ProcessDies, Outside, Reaches
<1>4. ASSUME NEW s, Takes(d), UNCHANGED Outside, Reaches(d, todo[d], s),
             blocked' = Blocks(d, s) \/ blocked' = blocked \cup {User(d)},
             \/ s \in {"sent", "reverted", "refused", "failed", "stuck"}
             \/ blocked' = blocked \cup {User(d)}
      PROVE  AskedInv' /\ ListInv'
  <2>1. UNCHANGED <<request, elders, pc, listed>>
    BY <1>4 DEF Outside, Reaches
  <2>2. /\ \A x \in Arrivals : x # d => stage'[x] = stage[x]
        /\ stage'[d] \in {s, "jammed"}
    BY <1>1, <1>4 DEF Reaches, Stored, TypeOK
  <2>3. Kind(d) \in Rivals /\ stage'[d] \notin Away => User(d) \in blocked'
    BY <1>2, <1>4, <2>2 DEF Blocks, Away
  <2>4. blocked \subseteq blocked'
    BY <1>1, <1>4, BlocksTyped
  <2> QED
    BY <1>4, <2>1, <2>2, <2>3, <2>4, TakesOrdered
<1>5. CASE ProcessSubmit(d)
  <2>1. PICK s : Submit(d, "failed", s) /\ Reaches(d, todo[d], s) /\ blocked' = Blocks(d, s)
    BY <1>5 DEF ProcessSubmit
  <2>2. s \in {"sent", "reverted", "refused", "failed", "stuck"}
    BY <2>1 DEF Submit, Refused
  <2> QED
    BY <1>4, <1>5, <2>1, <2>2 DEF ProcessSubmit, Process
<1>6. CASE ProcessInterrupted(d)
  BY <1>4, <1>6 DEF ProcessInterrupted, Process
<1>7. CASE ProcessError(d) \/ ProcessRestFails(d)
  <2>1. CASE ProcessError(d)
    BY <1>4, <2>1 DEF ProcessError, Process
  <2>2. CASE ProcessRestFails(d)
    BY <1>4, <2>2 DEF ProcessRestFails, Process
  <2> QED
    BY <1>7, <2>1, <2>2
<1>8. CASE Skip(d) \/ ProcessPaused(d)
  <2>1. /\ Takes(d) /\ UNCHANGED <<request, elders, pc, listed, stage>>
        /\ \/ User(d) \in blocked /\ blocked' = blocked
           \/ /\ todo[d] \in {"failed", "stuck", "refused", "jammed", "sent", "reverted"}
              /\ blocked' = Blocks(d, todo[d])
    <3>1. CASE Skip(d)
      BY <3>1 DEF Skip, Outside, records
    <3>2. CASE ProcessPaused(d)
      BY <3>2 DEF ProcessPaused, Process, Outside, records
    <3> QED
      BY <1>8, <3>1, <3>2
  <2>2. Kind(d) \in Rivals /\ stage'[d] \notin Away => User(d) \in blocked'
    BY <1>2, <2>1 DEF OrderInv, ListInv, SeenInv, Blocks, Away
  <2>3. blocked \subseteq blocked'
    BY <1>1, <2>1, BlocksTyped
  <2> QED
    BY <2>1, <2>2, <2>3, TakesOrdered
<1>9. CASE ProcessRest(d)
  <2>1. /\ Takes(d) /\ UNCHANGED <<request, elders, pc>> /\ listed' = listed \ {d}
        /\ \A x \in Arrivals : x # d => stage'[x] = stage[x]
    BY <1>1, <1>9 DEF ProcessRest, Process, Outside, TypeOK
  <2>2. blocked \subseteq blocked'
    BY <1>1, <1>9, BlocksTyped DEF ProcessRest
  <2> QED
    BY <2>1, <2>2, TakesOrdered
<1> QED
  BY <1>3, <1>5, <1>6, <1>7, <1>8, <1>9

LEMMA OrderStep ==
    ASSUME OrderInv, [Next]_vars
    PROVE  OrderInv'
<1>1. TypeInv' /\ TypeOK
  BY TypeStep DEF OrderInv, TypeInv
<1>2. CASE UNCHANGED vars
  <2>1. UNCHANGED <<request, elders, listed, stage, pc, phase, todo, blocked>>
    BY <1>2 DEF vars, records, processor
  <2> QED
    BY <1>1, <2>1, ListKept, AskedKept DEF OrderInv
<1>3. CASE EndRun \/ CrashRun
  BY <1>1, <1>3, NextRunOrdered DEF EndRun, CrashRun, Outside, records, OrderInv
<1>4. ASSUME NEW a \in Arrivals, CoolDown(a) \/ Override(a)
      PROVE  OrderInv'
  <2>1. /\ UNCHANGED <<request, elders, listed, pc, phase, todo, blocked>>
        /\ \A x \in Arrivals : stage[x] \in Away => stage'[x] = stage[x]
    BY <1>1, <1>4 DEF CoolDown, Override, records, processor, Away, TypeOK
  <2> QED
    BY <1>1, <2>1, ListKept, AskedKept DEF OrderInv, Away
<1>5. ASSUME NEW a \in Arrivals, Service(a)
      PROVE  OrderInv'
  BY <1>1, <1>5, CreateOrdered, AskOrdered, ServeOrdered DEF Service, OrderInv
<1>6. CASE Fetch
  BY <1>1, <1>6, FetchOrdered DEF OrderInv
<1>7. ASSUME NEW d \in Arrivals,
             \/ Skip(d) \/ ProcessSubmit(d) \/ ProcessInterrupted(d) \/ ProcessDies(d)
             \/ ProcessError(d) \/ ProcessPaused(d) \/ ProcessRest(d) \/ ProcessRestFails(d)
      PROVE  OrderInv'
  BY <1>1, <1>7, ProcessorOrdered DEF OrderInv
<1> QED
  BY <1>2, <1>3, <1>4, <1>5, <1>6, <1>7 DEF Next, Processor

\* What is accepted in a step is what the service or the processor submits.
LEMMA TakenBy ==
    ASSUME TypeInv, [Next]_vars, NEW r \in Requests, taken'[r] > taken[r]
    PROVE  \E d \in Arrivals :
              /\ request[d] = r
              /\ \/ Serve(d)
                 \/ ProcessSubmit(d) \/ ProcessInterrupted(d) \/ ProcessDies(d)
<1>1. taken \in [Requests -> Nat]
  BY DEF TypeInv, TypeOK
<1>2. ~ UNCHANGED taken
  BY <1>1
<1>3. PICK d \in Arrivals :
         Serve(d) \/ ProcessSubmit(d) \/ ProcessInterrupted(d) \/ ProcessDies(d)
  <2>1. ~ UNCHANGED chain
    BY <1>2 DEF chain
  <2>2. ~ UNCHANGED vars
    BY <2>1 DEF vars
  <2>3. \A a \in Arrivals : Service(a) => Serve(a)
    BY <2>1 DEF Service, Record, FindSale, RecordSale, AskBills, AskSales, Abandon
  <2>4. /\ \A a \in Arrivals : ~ CoolDown(a) /\ ~ Override(a)
        /\ ~ Fetch /\ ~ EndRun /\ ~ CrashRun
    BY <2>1 DEF CoolDown, Override, Fetch, EndRun, CrashRun
  <2>5. \A d \in Arrivals : /\ ~ Skip(d) /\ ~ ProcessError(d) /\ ~ ProcessPaused(d)
                            /\ ~ ProcessRest(d) /\ ~ ProcessRestFails(d)
    BY <2>1 DEF Skip, ProcessError, ProcessPaused, ProcessRest, ProcessRestFails
  <2> QED
    BY <2>2, <2>3, <2>4, <2>5 DEF Next, Processor
<1>4. Accepted(d) \/ UNCHANGED chain
  BY <1>3 DEF Serve, ProcessSubmit, ProcessInterrupted, ProcessDies, Submit, Interrupted
<1>5. taken' = [taken EXCEPT ![request[d]] = @ + 1]
  BY <1>2, <1>4 DEF Accepted, chain
<1>6. request[d] = r
  BY <1>1, <1>5
<1> QED
  BY <1>3, <1>6

LEMMA NoneOvertaken ==
    ASSUME OrderInv, [Next]_vars, NEW r \in Requests
    PROVE  ~ Overtakes(r, {"Bill", "Uber", "Sell"})
<1> SUFFICES ASSUME Overtakes(r, {"Bill", "Uber", "Sell"})
             PROVE  FALSE
  OBVIOUS
<1>1. TypeInv /\ TypeOK /\ PlacesInv
  BY DEF OrderInv, TypeInv
<1>2. PICK d \in Arrivals :
         /\ request[d] = r
         /\ Serve(d) \/ ProcessSubmit(d) \/ ProcessInterrupted(d) \/ ProcessDies(d)
  BY <1>1, TakenBy DEF Overtakes
<1>3. PICK e \in Unsubmitted :
         /\ Kind(e) \in Rivals /\ User(e) = r.user /\ At(e) < r.at
         /\ \A x \in created : request[x] = r => e \in elders[x]
  BY DEF Overtakes, Rivals
<1>4. Kind(d) = "Uber" /\ User(d) = r.user /\ At(d) = r.at
  BY <1>2 DEF Overtakes, Kind, User, At
<1>5. /\ e \in Arrivals /\ e \in listed /\ stage[e] \notin Away
      /\ At(e) \in Nat /\ At(d) \in Nat
  BY <1>1, <1>3, RequestFields DEF Unsubmitted, Away, TypeOK
<1>6. ASSUME d \in created
      PROVE  Elder(d, e)
  BY <1>2, <1>3, <1>4, <1>5, <1>6 DEF Elder
<1>7. CASE Serve(d)
  <2>1. pc[d] = "ready" /\ d \in created
    BY <1>1, <1>7 DEF Serve, Goes, PlacesInv
  <2> QED
    BY <1>4, <1>5, <1>6, <2>1 DEF OrderInv, AskedInv
<1>8. CASE ProcessSubmit(d) \/ ProcessInterrupted(d) \/ ProcessDies(d)
  <2>1. IsNext(d) /\ User(d) \notin blocked
    BY <1>8 DEF ProcessSubmit, ProcessInterrupted, ProcessDies, Process, Takes
  <2>2. d \in created /\ phase > 3 /\ todo[d] # NotListed
    BY <1>1, <2>1 DEF IsNext, PlacesInv, Running
  <2>3. todo[e] # NotListed
    BY <1>4, <1>5, <1>6, <2>1, <2>2 DEF OrderInv, ListInv, QueueInv
  <2>4. At(d) <= At(e)
    BY <1>5, <2>1, <2>3 DEF IsNext
  <2> QED
    BY <1>3, <1>4, <1>5, <2>4
<1> QED
  BY <1>2, <1>7, <1>8

\* An uber transfer is never accepted while an older bill or sale of the same
\* user, recorded before it, still waits to be submitted.
THEOREM UbersWait == Spec => UbersInOrder
<1>1. Init => OrderInv
  <2>1. Init => TypeInv
    BY DEF Init, TypeInv, TypeOK, PlacesInv, NoTodo, Stages, Running, BoundsAssumption
  <2>2. Init => AskedInv /\ ListInv
    BY DEF Init, NoTodo, NotListed, AskedInv, ListInv, QueueInv, BillsRead, SeenInv, Elder
  <2> QED
    BY <2>1, <2>2 DEF OrderInv
<1>2. OrderInv /\ [Next]_vars => OrderInv'
  BY OrderStep
<1>3. OrderInv /\ [Next]_vars
         => [\A r \in Requests : ~ Overtakes(r, {"Bill", "Uber", "Sell"})]_vars
  BY NoneOvertaken
<1> QED
  BY <1>1, <1>2, <1>3, PTL DEF Spec, UbersInOrder
=============================================================================
