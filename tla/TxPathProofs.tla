---------------------------- MODULE TxPathProofs ----------------------------
(***************************************************************************)
(* What one executor finds, with whatever crashes and failures, and with   *)
(* overrides of admins who are asked for them: the history it loads is a   *)
(* path of the graph.  The path is the sequence of snapshots that a replay *)
(* of all of the history goes through, and the container of an execution   *)
(* is always a beginning of it.                                            *)
(***************************************************************************)
EXTENDS TxCoinProofs

\* One executor, which runs to the end.
OneExecutor == /\ \A p, q \in Executors : p = q
               /\ \A p \in Executors : BreakOn[p] = ""

\* The transition due in the snapshot s; does the machine stop there?
Due(s) == IF s.name \notin DOMAIN Graph THEN NoEdge
          ELSE IF s.delta.error # "" THEN Graph[s.name].onError
                                     ELSE Graph[s.name].next
Stops(s) == s.name \in {"complete", ""} \/ Due(s) = NoEdge
Asking(s) == Due(s).run = "manualOverride"

\* The snapshot after s when the history has d at place i, and whether d may
\* follow there; a request for an admin is never an error.
Advanced(s, d, i) ==
    Reduced(s, IF d.type = "manualOverride" THEN d.meta ELSE Due(s).to, d, i)
Follows(s, d) == /\ ~ Stops(s)
                 /\ d.type \in {"manualOverride", Due(s).run}
                 /\ d.type = "requestManual" => Ok(d)

\* c is the path of the history.
Trail(c) ==
    /\ Len(c) = Len(stored) + 1
    /\ c[1] = InitialSnapshot
    /\ \A i \in DOMAIN stored : /\ Follows(c[i], stored[i])
                                /\ c[i + 1] = Advanced(c[i], stored[i], i)

(***************************************************************************)
(* The container of p is a beginning of the path c.  Once p has replayed   *)
(* what it loaded it is at the end of c; or an admin has written since,    *)
(* and p is in the state that waits for that.                              *)
(***************************************************************************)
Along(p, c) ==
    /\ pc[p] = "storing" => /\ ~ Replaying(p) /\ Len(hist[p]) = Len(c)
                            /\ Follows(Current(p), delta[p])
                            /\ delta[p].type # "manualOverride"
    /\ Working(p) =>
          /\ Len(hist[p]) <= Len(c)
          /\ \A i \in DOMAIN hist[p] : hist[p][i] = c[i]
          /\ IF Replaying(p)
             THEN loaded[p] + 1 = Len(c) \/ Asking(c[loaded[p] + 1])
             ELSE Len(hist[p]) = Len(c) \/ Asking(Current(p))

Path(c) == Trail(c) /\ \A p \in Executors : Along(p, c)
PathInv == \E c \in Seq(Snapshot) : Path(c)

-----------------------------------------------------------------------------
(* The definitions agree with those of the machine.                        *)

LEMMA DueChosen ==
    ASSUME OneExecutor, NEW p \in Executors
    PROVE  /\ Chosen(p) = Due(Current(p))
           /\ Halted(p) <=> Stops(Current(p))
<1>1. Chosen(p) = Due(Current(p))
  BY DEF Chosen, Due
<1>2. BreakOn[p] = ""
  BY DEF OneExecutor
<1>3. Halted(p) <=> Stops(Current(p))
  BY <1>1, <1>2 DEF Halted, Stops
<1> QED
  BY <1>1, <1>3

LEMMA DueType ==
    ASSUME TypeInv, NEW s
    PROVE  Due(s) \in Edge /\ Due(s).to \in States
<1>1. Due(s) \in Edge
  BY GraphType DEF Due, Edge, TypeInv, TypeOK
<1> QED
  BY <1>1, EdgeType

LEMMA DueKept ==
    ASSUME kind' = kind
    PROVE  /\ \A s : Due(s)' = Due(s)
           /\ \A s : Stops(s)' <=> Stops(s)
           /\ \A s : Asking(s)' <=> Asking(s)
           /\ \A s, d : Follows(s, d)' <=> Follows(s, d)
           /\ \A s, d, i : Advanced(s, d, i)' = Advanced(s, d, i)
<1>1. Graph' = Graph
  BY DEF Graph
<1>2. \A s : Due(s)' = Due(s)
  BY <1>1 DEF Due
<1>3. \A s : Stops(s)' <=> Stops(s)
  BY <1>2 DEF Stops
<1>4. \A s : Asking(s)' <=> Asking(s)
  BY <1>2 DEF Asking
<1>5. \A s, d : Follows(s, d)' <=> Follows(s, d)
  BY <1>2, <1>3 DEF Follows
<1>6. \A s, d, i : Advanced(s, d, i)' = Advanced(s, d, i)
  BY <1>2 DEF Advanced
<1> QED
  BY <1>2, <1>3, <1>4, <1>5, <1>6

LEMMA AdvancedType ==
    ASSUME TypeInv, NEW s \in Snapshot, NEW d \in Delta, NEW i \in Nat
    PROVE  Advanced(s, d, i) \in Snapshot
<1> DEFINE name == IF d.type = "manualOverride" THEN d.meta ELSE Due(s).to
<1>1. name \in States
  BY DueType DEF Delta
<1> HIDE DEF name
<1>2. Reduced(s, name, d, i) \in Snapshot
  BY <1>1, ReducedType
<1> QED
  BY <1>2 DEF Advanced, name

\* A snapshot is due what its delta's error says.
LEMMA DueEdge ==
    ASSUME TypeInv, NEW s, Due(s).run # ""
    PROVE  /\ s.name \in DOMAIN Graph
           /\ Ok(s.delta) => Due(s) = Graph[s.name].next
           /\ ~ Ok(s.delta) => Due(s) = Graph[s.name].onError
  BY DEF Due, NoEdge, Ok

\* After a request for an admin, the machine waits for an override.
LEMMA AskedAsks ==
    ASSUME TypeInv, AskingWaits, NEW s, NEW d, NEW i,
           Follows(s, d), d.type = "requestManual"
    PROVE  /\ Asking(Advanced(s, d, i))
           /\ ~ Stops(Advanced(s, d, i))
<1>1. Due(s).run = "requestManual"
  BY DEF Follows
<1>2. /\ s.name \in DOMAIN Graph
      /\ Due(s) \in {Graph[s.name].next, Graph[s.name].onError}
  BY <1>1, DueEdge
<1> DEFINE t == Advanced(s, d, i)
<1>3. t.name = Due(s).to /\ t.delta = d
  BY DEF Advanced, Reduced
<1>4. /\ t.name \in DOMAIN Graph \ {"complete", ""}
      /\ Graph[t.name].next.run = "manualOverride"
  <2>1. kind \in DOMAIN Graphs /\ s.name \in DOMAIN Graphs[kind]
    BY <1>2 DEF Graph, TypeInv, TypeOK
  <2>2. PICK e \in {Graphs[kind][s.name].next, Graphs[kind][s.name].onError} :
           e = Due(s)
    BY <1>2 DEF Graph
  <2>3. /\ e.to \in DOMAIN Graphs[kind] \ {"complete", ""}
        /\ Graphs[kind][e.to].next.run = "manualOverride"
    BY <1>1, <2>1, <2>2 DEF AskingWaits
  <2> QED
    BY <1>3, <2>2, <2>3 DEF Graph
<1>5. Ok(t.delta)
  BY <1>3 DEF Follows
<1> HIDE DEF t
<1>6. Due(t) = Graph[t.name].next
  BY <1>4, <1>5 DEF Due, Ok
<1>7. Due(t).run = "manualOverride"
  BY <1>4, <1>6
<1>8. Asking(t) /\ ~ Stops(t)
  <2>1. NoEdge.run # "manualOverride"
    BY DEF NoEdge
  <2> QED
    BY <1>4, <1>7, <2>1 DEF Asking, Stops
<1> QED
  BY <1>8 DEF t

-----------------------------------------------------------------------------
(* The path as the history changes.                                        *)

LEMMA TrailKept ==
    ASSUME NEW c, Trail(c), stored' = stored, kind' = kind
    PROVE  Trail(c)'
  BY DueKept DEF Trail

\* The end of the path, and where it is.
LEMMA TrailEnd ==
    ASSUME TypeInv, NEW c \in Seq(Snapshot), Trail(c)
    PROVE  /\ Len(c) \in Nat /\ Len(stored) \in Nat /\ Len(c) = Len(stored) + 1
           /\ DOMAIN c = 1 .. Len(c) /\ Len(c) \in DOMAIN c
           /\ DOMAIN stored = 1 .. Len(stored)
           /\ \A i \in DOMAIN c : c[i] \in Snapshot
           /\ \A i \in DOMAIN stored : i \in Nat /\ i \in DOMAIN c /\ i + 1 \in DOMAIN c
<1>1. /\ Len(c) \in Nat /\ Len(stored) \in Nat
      /\ DOMAIN c = 1 .. Len(c) /\ DOMAIN stored = 1 .. Len(stored)
      /\ \A i \in DOMAIN c : c[i] \in Snapshot
  BY DEF TypeInv, TypeOK
<1>2. Len(c) = Len(stored) + 1
  BY DEF Trail
<1> QED
  BY <1>1, <1>2

\* A delta is appended that may follow the end of the path.
LEMMA TrailGrows ==
    ASSUME TypeInv, NEW c \in Seq(Snapshot), Trail(c), NEW n, n = Len(c),
           NEW d \in Delta, Follows(c[n], d),
           kind' = kind, stored' = Append(stored, d)
    PROVE  \E e \in Seq(Snapshot) :
              /\ Trail(e)'
              /\ Len(e) = n + 1 /\ DOMAIN e = 1 .. n + 1
              /\ \A i \in 1 .. n : e[i] = c[i]
              /\ e[n + 1] = Advanced(c[n], d, n)
<1>1. /\ n \in Nat /\ Len(stored) \in Nat /\ n = Len(stored) + 1
      /\ DOMAIN c = 1 .. n /\ n \in DOMAIN c /\ c[n] \in Snapshot
  BY TrailEnd
<1>2. PICK t \in Snapshot : t = Advanced(c[n], d, n)
  BY <1>1, AdvancedType
<1>3. PICK e \in Seq(Snapshot) :
         /\ Len(e) = n + 1 /\ DOMAIN e = 1 .. n + 1
         /\ \A i \in 1 .. n : e[i] = c[i]
         /\ e[n + 1] = t
  <2>1. PICK e : e = Append(c, t)
    OBVIOUS
  <2>2. /\ e \in Seq(Snapshot) /\ Len(e) = n + 1 /\ DOMAIN e = 1 .. n + 1
        /\ \A i \in 1 .. n : e[i] = c[i]
        /\ e[n + 1] = t
    BY <1>2, <2>1, Appended
  <2> QED
    BY <2>2
<1>4. stored \in Seq(Delta)
  BY DEF TypeInv, TypeOK
<1>5. /\ Len(stored') = n /\ DOMAIN stored' = 1 .. n /\ stored'[n] = d
      /\ \A i \in 1 .. n - 1 : i \in DOMAIN stored /\ stored'[i] = stored[i]
  <2>1. /\ DOMAIN stored = 1 .. Len(stored) /\ DOMAIN stored' = 1 .. Len(stored) + 1
        /\ Len(stored') = Len(stored) + 1
        /\ \A i \in 1 .. Len(stored) : stored'[i] = stored[i]
        /\ stored'[Len(stored) + 1] = d
    BY <1>4, Appended
  <2> QED
    BY <1>1, <2>1
<1>6. \A i \in DOMAIN stored' : /\ Follows(e[i], stored'[i])
                                /\ e[i + 1] = Advanced(e[i], stored'[i], i)
  <2> SUFFICES ASSUME NEW i \in DOMAIN stored'
               PROVE  /\ Follows(e[i], stored'[i])
                      /\ e[i + 1] = Advanced(e[i], stored'[i], i)
    OBVIOUS
  <2>1. i \in 1 .. n - 1 \/ i = n
    BY <1>1, <1>5
  <2>2. CASE i \in 1 .. n - 1
    <3>1. e[i] = c[i] /\ e[i + 1] = c[i + 1]
      BY <1>1, <1>3, <2>2
    <3> QED
      BY <1>5, <2>2, <3>1 DEF Trail
  <2>3. CASE i = n
    <3>1. e[i] = c[n] /\ stored'[i] = d /\ e[i + 1] = t
      BY <1>1, <1>3, <1>5, <2>3
    <3> QED
      BY <1>2, <2>3, <3>1
  <2> QED
    BY <2>1, <2>2, <2>3
<1>7. e[1] = InitialSnapshot
  <2>1. 1 \in 1 .. n
    BY <1>1
  <2> QED
    BY <1>3, <2>1 DEF Trail
<1>8. Trail(e)'
  BY <1>3, <1>5, <1>6, <1>7, DueKept DEF Trail
<1> QED
  BY <1>1, <1>2, <1>3, <1>8

\* The types in the tail of a sale that is returned.
LEMMA ReturnedType ==
    ASSUME TypeInv, ETransferReturned
    PROVE  stored[Len(stored) - 1].type = "waitETransfer"
<1> DEFINE n == Len(stored)
           types == [i \in 1 .. 3 |-> stored[n - 3 + i].type]
<1>1. types = << "sendETransfer", "waitETransfer", "markComplete" >>
  BY DEF ETransferReturned
<1>2. n \in Nat
  BY DEF TypeInv, TypeOK
<1>3. types[2] = stored[n - 3 + 2].type
  OBVIOUS
<1>4. types[2] = "waitETransfer"
  BY <1>1
<1>5. n - 3 + 2 = n - 1
  BY <1>2
<1> QED
  BY <1>3, <1>4, <1>5

\* A sale is returned: the path ends in the error of its waitETransfer.
LEMMA TrailReturned ==
    ASSUME TypeInv, TypeInv', NEW c \in Seq(Snapshot), Trail(c), ETransferReturned
    PROVE  \E e \in Seq(Snapshot) : \E n \in DOMAIN c, d \in Delta :
              /\ Trail(e)' /\ DOMAIN e = 1 .. n + 1
              /\ \A i \in 1 .. n : i \in DOMAIN c /\ e[i] = c[i]
              /\ e[n + 1] = Advanced(c[n], d, n)
              /\ d.coin = Absent /\ d.fiat = Absent /\ d.hash = 0
              /\ Due(c[n]).run = "waitETransfer" /\ d.error = "returned"
<1>1. PICK n : n = Len(stored) - 1
  OBVIOUS
<1>2. PICK d : d = stored'[n]
  OBVIOUS
<1>3. /\ Len(stored) \in Nat /\ Len(c) = Len(stored) + 1 /\ DOMAIN c = 1 .. Len(c)
      /\ DOMAIN stored = 1 .. Len(stored)
      /\ \A i \in DOMAIN c : c[i] \in Snapshot
  BY TrailEnd
<1>4. /\ Len(stored) > 2 /\ Len(stored') = n /\ DOMAIN stored' = 1 .. n
      /\ \A i \in 1 .. Len(stored) - 2 : stored'[i] = stored[i]
      /\ d.type = "waitETransfer" /\ d.error = "returned"
      /\ d.coin = Absent /\ d.fiat = Absent /\ d.hash = 0
  BY <1>1, <1>2, ReturnedTail
<1>5. /\ n \in Nat /\ n > 1 /\ Len(stored) = n + 1 /\ Len(c) = n + 2
      /\ n \in DOMAIN stored /\ n \in DOMAIN c /\ n \in DOMAIN stored'
      /\ \A i \in 1 .. n - 1 : i \in DOMAIN stored /\ stored'[i] = stored[i]
      /\ \A i \in 1 .. n : i \in DOMAIN c
  BY <1>1, <1>3, <1>4
<1>6. d \in Delta
  <2>1. stored' \in Seq(Delta)
    BY DEF TypeInv, TypeOK
  <2>2. PICK s \in Seq(Delta) : s = stored' /\ n \in DOMAIN s
    BY <1>5, <2>1
  <2>3. s[n] \in Delta
    BY <2>2
  <2> QED
    BY <1>2, <2>2, <2>3
<1>7. Follows(c[n], d)
  <2>1. Follows(c[n], stored[n]) /\ stored[n].type = "waitETransfer"
    BY <1>1, <1>5, ReturnedType DEF Trail
  <2> QED
    BY <1>4, <2>1 DEF Follows
<1>8. PICK t \in Snapshot : t = Advanced(c[n], d, n)
  BY <1>3, <1>5, <1>6, AdvancedType
<1>9. PICK b \in Seq(Snapshot) : Len(b) = n /\ \A i \in 1 .. n : b[i] = c[i]
  <2>1. /\ SubSeq(c, 1, n) \in Seq(Snapshot) /\ Len(SubSeq(c, 1, n)) = n
        /\ \A i \in 1 .. n : SubSeq(c, 1, n)[i] = c[i]
    BY <1>3, <1>5
  <2> QED
    BY <2>1
<1>10. PICK e \in Seq(Snapshot) :
          /\ Len(e) = n + 1 /\ DOMAIN e = 1 .. n + 1 /\ e[n + 1] = t
          /\ \A i \in 1 .. n : e[i] = c[i]
  <2>1. PICK e : e = Append(b, t)
    OBVIOUS
  <2>2. /\ e \in Seq(Snapshot) /\ Len(e) = n + 1 /\ DOMAIN e = 1 .. n + 1
        /\ e[n + 1] = t /\ \A i \in 1 .. n : e[i] = b[i]
    BY <1>9, <2>1, Appended
  <2> QED
    BY <1>9, <2>2
<1>11. \A i \in DOMAIN stored' : /\ Follows(e[i], stored'[i])
                                 /\ e[i + 1] = Advanced(e[i], stored'[i], i)
  <2> SUFFICES ASSUME NEW i \in DOMAIN stored'
               PROVE  /\ Follows(e[i], stored'[i])
                      /\ e[i + 1] = Advanced(e[i], stored'[i], i)
    OBVIOUS
  <2>1. i \in 1 .. n - 1 \/ i = n
    BY <1>4, <1>5
  <2>2. CASE i \in 1 .. n - 1
    <3>1. e[i] = c[i] /\ e[i + 1] = c[i + 1]
      BY <1>5, <1>10, <2>2
    <3> QED
      BY <1>5, <2>2, <3>1 DEF Trail
  <2>3. CASE i = n
    <3>1. e[i] = c[n] /\ stored'[i] = d /\ e[i + 1] = t
      BY <1>2, <1>5, <1>10, <2>3
    <3> QED
      BY <1>7, <1>8, <2>3, <3>1
  <2> QED
    BY <2>1, <2>2, <2>3
<1>12. e[1] = InitialSnapshot
  <2>1. 1 \in 1 .. n
    BY <1>5
  <2> QED
    BY <1>10, <2>1 DEF Trail
<1>13. kind' = kind
  BY DEF ETransferReturned, limits
<1>14. Trail(e)'
  BY <1>4, <1>10, <1>11, <1>12, <1>13, DueKept DEF Trail
<1>15. Due(c[n]).run = "waitETransfer"
  BY <1>4, <1>7 DEF Follows
<1> QED
  BY <1>4, <1>5, <1>6, <1>8, <1>10, <1>14, <1>15

-----------------------------------------------------------------------------
(* Where the executor is on the path, step by step.                        *)

LEMMA PathInit == Init => PathInv
<1> SUFFICES ASSUME Init PROVE PathInv
  OBVIOUS
<1>1. PICK c \in Seq(Snapshot) : Len(c) = 1 /\ c[1] = InitialSnapshot
  <2>1. << InitialSnapshot >> \in Seq(Snapshot)
    BY InitialType
  <2>2. Len(<< InitialSnapshot >>) = 1 /\ << InitialSnapshot >>[1] = InitialSnapshot
    OBVIOUS
  <2> QED
    BY <2>1, <2>2
<1>2. /\ stored = << >> /\ Len(stored) = 0 /\ DOMAIN stored = {}
      /\ \A p \in Executors : pc[p] = "idle"
  <2>1. stored = << >> /\ \A p \in Executors : pc[p] = "idle"
    BY DEF Init
  <2>2. Len(stored) = 0 /\ DOMAIN stored = {}
    BY <2>1
  <2> QED
    BY <2>1, <2>2
<1>3. Trail(c)
  BY <1>1, <1>2 DEF Trail
<1>4. \A p \in Executors : Along(p, c)
  BY <1>2 DEF Along, Working
<1> QED
  BY <1>1, <1>3, <1>4 DEF PathInv, Path

LEMMA AlongKept ==
    ASSUME NEW q \in Executors, NEW c, Along(q, c), Same(q), kind' = kind
    PROVE  Along(q, c)'
<1>1. Current(q)' = Current(q)
  BY DEF Current, Same
<1>2. Replaying(q)' <=> Replaying(q)
  BY DEF Replaying, Same
<1>3. Working(q)' <=> Working(q)
  BY DEF Working, Same
<1>4. Follows(Current(q), delta[q])' <=> Follows(Current(q), delta[q])
  BY <1>1, DueKept DEF Same
<1>5. Asking(Current(q))' <=> Asking(Current(q))
  BY <1>1, DueKept
<1> QED
  BY <1>1, <1>2, <1>3, <1>4, <1>5, DueKept DEF Along, Same

\* Where a container that is a beginning of the path ends.
LEMMA AlongEnd ==
    ASSUME TypeInv, NEW c \in Seq(Snapshot), Trail(c),
           NEW p \in Executors, Along(p, c), pc[p] # "idle"
    PROVE  /\ Len(hist[p]) \in Nat /\ Len(hist[p]) \in DOMAIN hist[p]
           /\ Len(hist[p]) \in DOMAIN c
           /\ DOMAIN hist[p] = 1 .. Len(hist[p])
           /\ Current(p) = c[Len(hist[p])]
           /\ loaded[p] \in Nat /\ loaded[p] + 1 <= Len(c)
           /\ loaded[p] + 1 \in DOMAIN c
<1>1. Len(hist[p]) \in DOMAIN hist[p] /\ hist[p] \in Seq(Snapshot)
  BY CurrentType, AtWork DEF TypeInv
<1>2. /\ Len(hist[p]) \in Nat /\ DOMAIN hist[p] = 1 .. Len(hist[p])
      /\ Len(hist[p]) >= 1
  BY <1>1
<1>3. Len(hist[p]) <= Len(c) /\ \A i \in DOMAIN hist[p] : hist[p][i] = c[i]
  BY DEF Along, Working
<1>4. Current(p) = c[Len(hist[p])]
  BY <1>1, <1>3 DEF Current
<1>5. /\ Len(c) \in Nat /\ Len(stored) \in Nat /\ Len(c) = Len(stored) + 1
      /\ DOMAIN c = 1 .. Len(c)
  BY TrailEnd
<1>6. loaded[p] \in Nat /\ loaded[p] <= Len(stored)
  BY DEF TypeInv, TypeOK, LoadedStored, Working
<1> QED
  BY <1>1, <1>2, <1>3, <1>4, <1>5, <1>6

LEMMA PathStart ==
    ASSUME OneExecutor, TypeInv, NEW c \in Seq(Snapshot), Path(c),
           NEW p \in Executors, Start(p)
    PROVE  Path(c)'
<1>1. /\ pc'[p] = "running" /\ loaded'[p] = Len(stored)
      /\ hist'[p] = << InitialSnapshot >> /\ Len(hist'[p]) = 1
      /\ UNCHANGED <<store, limits>>
  BY StartStep
<1>2. stored' = stored /\ kind' = kind
  BY <1>1 DEF store, limits
<1>3. Trail(c)'
  BY <1>2, TrailKept DEF Path
<1>4. /\ Len(stored) \in Nat /\ Len(c) = Len(stored) + 1 /\ c[1] = InitialSnapshot
  BY TrailEnd DEF Path, Trail
<1>5. Along(p, c)'
  <2>1. DOMAIN hist'[p] = {1} /\ hist'[p][1] = InitialSnapshot
    BY <1>1
  <2>2. Replaying(p)' <=> 1 <= Len(stored)
    BY <1>1 DEF Replaying
  <2>3. /\ Len(hist'[p]) <= Len(c)
        /\ \A i \in DOMAIN hist'[p] : hist'[p][i] = c[i]
        /\ loaded'[p] + 1 = Len(c)
        /\ ~ Replaying(p)' => Len(hist'[p]) = Len(c)
    BY <1>1, <1>4, <2>1, <2>2
  <2> QED
    BY <1>1, <2>3 DEF Along
<1> QED
  BY <1>3, <1>5 DEF Path, OneExecutor

LEMMA PathReplay ==
    ASSUME OneExecutor, TypeInv, NEW c \in Seq(Snapshot), Path(c),
           NEW p \in Executors, Replay(p)
    PROVE  Path(c)'
<1>1. PICK i \in DOMAIN stored, name \in States :
              /\ i = Len(hist[p]) /\ i <= loaded[p] /\ stored[i] = Replayed(p)
              /\ name = IF Overrides(p) THEN Replayed(p).meta ELSE Chosen(p).to
              /\ pc[p] = "running" /\ pc' = pc /\ loaded' = loaded
              /\ Current(p)' = Reduced(Current(p), name, stored[i], i)
              /\ hist'[p] = Append(hist[p], Reduced(Current(p), name, stored[i], i))
              /\ Len(hist'[p]) = i + 1
              /\ UNCHANGED <<store, limits>>
  BY ReplayStep
<1>2. stored' = stored /\ kind' = kind
  BY <1>1 DEF store, limits
<1>3. Trail(c) /\ Along(p, c) /\ Trail(c)'
  BY <1>2, TrailKept DEF Path
<1>4. Current(p) = c[i] /\ i \in Nat /\ loaded[p] \in Nat /\ i + 1 \in DOMAIN c
  BY <1>1, <1>3, AlongEnd, TrailEnd
<1>5. Follows(c[i], stored[i]) /\ c[i + 1] = Advanced(c[i], stored[i], i)
  BY <1>3 DEF Trail
<1>6. PICK s \in Snapshot : s = c[i + 1]
  BY <1>3, <1>4, TrailEnd
<1>7. Reduced(Current(p), name, stored[i], i) = s
  <2>1. Chosen(p) = Due(c[i])
    BY <1>4, DueChosen
  <2>2. Overrides(p) <=> stored[i].type = "manualOverride"
    BY <1>1, <1>5, <2>1 DEF Overrides, Follows
  <2>3. name = IF stored[i].type = "manualOverride" THEN stored[i].meta ELSE Due(c[i]).to
    BY <1>1, <2>1, <2>2
  <2> QED
    BY <1>4, <1>5, <1>6, <2>3 DEF Advanced
<1>8. /\ DOMAIN hist'[p] = 1 .. i + 1
      /\ \A j \in 1 .. i + 1 : hist'[p][j] = c[j]
  <2>1. /\ hist[p] \in Seq(Snapshot) /\ hist'[p] = Append(hist[p], s)
        /\ DOMAIN hist[p] = 1 .. i /\ Len(hist[p]) = i
        /\ \A j \in DOMAIN hist[p] : hist[p][j] = c[j]
    BY <1>1, <1>3, <1>7, AtWork, AlongEnd DEF Along, Working
  <2>2. /\ DOMAIN hist'[p] = 1 .. i + 1
        /\ \A j \in 1 .. i : hist'[p][j] = hist[p][j]
        /\ hist'[p][i + 1] = s
    BY <2>1, Appended
  <2>3. \A j \in 1 .. i + 1 : j \in 1 .. i \/ j = i + 1
    BY <1>4
  <2> QED
    BY <1>6, <2>1, <2>2, <2>3
<1>9. Along(p, c)'
  <2>1. Replaying(p) /\ (loaded[p] + 1 = Len(c) \/ Asking(c[loaded[p] + 1]))
    BY <1>1, <1>3 DEF Replaying, Along, Working
  <2>2. Replaying(p)' <=> i + 1 <= loaded[p]
    BY <1>1 DEF Replaying
  <2>3. i + 1 <= Len(c)
    BY <1>3, <1>4, TrailEnd
  <2>4. ASSUME ~ Replaying(p)'
        PROVE  Len(hist'[p]) = Len(c) \/ Asking(Current(p))'
    <3>1. i = loaded[p]
      BY <1>1, <1>4, <2>2, <2>4
    <3>2. Current(p)' = c[loaded[p] + 1]
      BY <1>1, <1>6, <1>7, <3>1
    <3> QED
      BY <1>1, <1>2, <2>1, <3>1, <3>2, DueKept
  <2> QED
    BY <1>1, <1>2, <1>8, <2>1, <2>3, <2>4, DueKept DEF Along
<1> QED
  BY <1>3, <1>9 DEF Path, OneExecutor

\* What the next path takes over from this one, and what it adds: a snapshot
\* of a delta that was on its way, or of one without amounts.
Unpaid(d) == d.coin = Absent /\ d.fiat = Absent /\ d.hash = 0
Stored(s, d) == \E p \in Executors :
                   pc[p] = "storing" /\ d = delta[p] /\ s = Current(p)
Returning(s, d) == Due(s).run = "waitETransfer" /\ d.error = "returned"
Extends(c, e, n, d) ==
    /\ DOMAIN e = 1 .. n + 1
    /\ \A i \in 1 .. n : i \in DOMAIN c /\ e[i] = c[i]
    /\ e[n + 1] = Advanced(c[n], d, n)
Grown(c, e) ==
    \/ e = c
    \/ \E n \in DOMAIN c, d \in Delta :
          /\ Extends(c, e, n, d)
          /\ \/ n = Len(c) /\ Stored(c[n], d)
             \/ n = Len(c) /\ Unpaid(d) /\ d.type = "manualOverride"
             \/ Unpaid(d) /\ Returning(c[n], d)

\* Snapshot by snapshot.
LEMMA GrownEach ==
    ASSUME TypeInv, NEW c \in Seq(Snapshot), NEW e, Grown(c, e)
    PROVE  \A i \in DOMAIN e :
              \/ i \in DOMAIN c /\ e[i] = c[i]
              \/ \E j \in DOMAIN c, d \in Delta :
                    e[i] = Advanced(c[j], d, j) /\ (Unpaid(d) \/ Stored(c[j], d))
<1>1. CASE e = c
  BY <1>1
<1>2. ASSUME NEW n \in DOMAIN c, NEW d \in Delta, Extends(c, e, n, d),
             Unpaid(d) \/ Stored(c[n], d), NEW i \in DOMAIN e
      PROVE  \/ i \in DOMAIN c /\ e[i] = c[i]
             \/ \E j \in DOMAIN c : e[i] = Advanced(c[j], d, j) /\ (Unpaid(d) \/ Stored(c[j], d))
  <2>1. n \in Nat
    OBVIOUS
  <2>2. i \in 1 .. n \/ i = n + 1
    BY <1>2, <2>1 DEF Extends
  <2> QED
    BY <1>2, <2>2 DEF Extends
<1> QED
  BY <1>1, <1>2 DEF Grown

LEMMA PathStore ==
    ASSUME OneExecutor, TypeInv, NEW c \in Seq(Snapshot), Path(c),
           NEW p \in Executors, Store(p)
    PROVE  \E e \in Seq(Snapshot) : Path(e)' /\ Grown(c, e)
<1>1. PICK n \in Nat, d \in Delta, name \in States :
              /\ pc[p] = "storing" /\ pc'[p] = "running" /\ loaded' = loaded
              /\ name = Chosen(p).to /\ n = Len(stored) + 1
              /\ d = delta[p] /\ delta'[p] = NoDelta
              /\ stored' = Append(stored, d)
              /\ hist'[p] = Append(hist[p], Reduced(Current(p), name, d, n))
              /\ UNCHANGED <<world, listed, limits>>
  BY StoreStep
<1>2. Trail(c) /\ Along(p, c) /\ kind' = kind
  BY <1>1 DEF Path, limits
<1>3. /\ Len(hist[p]) = n /\ ~ Replaying(p) /\ Follows(Current(p), d)
      /\ d.type # "manualOverride" /\ Len(c) = n
  BY <1>1, <1>2 DEF Along, Trail
<1>4. /\ Current(p) = c[n] /\ n \in DOMAIN c /\ DOMAIN hist[p] = 1 .. n
      /\ loaded[p] \in Nat
  BY <1>1, <1>2, <1>3, AlongEnd
<1>5. PICK t \in Snapshot : t = Advanced(c[n], d, n)
  BY <1>2, <1>4, AdvancedType, TrailEnd
<1>6. Reduced(Current(p), name, d, n) = t
  BY <1>1, <1>3, <1>4, <1>5, DueChosen DEF Advanced
<1>7. Follows(c[n], d) /\ stored' = Append(stored, d) /\ n = Len(c)
  BY <1>1, <1>3, <1>4
<1>8. PICK e \in Seq(Snapshot) :
         /\ Trail(e)' /\ Len(e) = n + 1 /\ DOMAIN e = 1 .. n + 1
         /\ \A i \in 1 .. n : e[i] = c[i]
         /\ e[n + 1] = t
  BY <1>2, <1>5, <1>7, TrailGrows
<1>9. Along(p, e)'
  <2>1. /\ hist[p] \in Seq(Snapshot) /\ hist'[p] = Append(hist[p], t)
        /\ \A j \in DOMAIN hist[p] : hist[p][j] = c[j]
    BY <1>1, <1>2, <1>6, AtWork DEF Along, Working
  <2>2. /\ DOMAIN hist'[p] = 1 .. n + 1 /\ Len(hist'[p]) = n + 1
        /\ \A j \in 1 .. n : hist'[p][j] = hist[p][j]
        /\ hist'[p][n + 1] = t
    BY <1>3, <1>4, <2>1, Appended
  <2>3. \A j \in 1 .. n + 1 : j \in 1 .. n \/ j = n + 1
    BY <1>1
  <2>4. \A j \in DOMAIN hist'[p] : hist'[p][j] = e[j]
    BY <1>4, <1>8, <2>1, <2>2, <2>3
  <2>5. ~ Replaying(p)'
    BY <1>1, <1>3, <1>4, <2>2 DEF Replaying
  <2> QED
    BY <1>1, <1>8, <2>2, <2>4, <2>5 DEF Along
<1>10. Path(e)'
  BY <1>8, <1>9 DEF Path, OneExecutor
<1>11. Grown(c, e)
  <2>1. Extends(c, e, n, d)
    <3>1. \A i \in 1 .. n : i \in DOMAIN c
      BY <1>2, <1>3, TrailEnd
    <3> QED
      BY <1>5, <1>8, <3>1 DEF Extends
  <2>2. n = Len(c) /\ Stored(c[n], d)
    BY <1>1, <1>3, <1>4 DEF Stored
  <2> QED
    BY <1>4, <2>1, <2>2 DEF Grown
<1> QED
  BY <1>8, <1>10, <1>11

LEMMA PathEnds ==
    ASSUME OneExecutor, TypeInv, NEW c \in Seq(Snapshot), Path(c),
           NEW p \in Executors, Ends(p)
    PROVE  Path(c)'
<1>1. pc'[p] = "idle" /\ stored' = stored /\ kind' = kind
  BY IdleStep DEF Ends, store
<1>2. Along(p, c)'
  BY <1>1 DEF Along, Working
<1> QED
  BY <1>1, <1>2, TrailKept DEF Path, OneExecutor

\* What is run for the first time is run at the end of the path.
LEMMA CalledAtEnd ==
    ASSUME OneExecutor, TypeInv, NEW c \in Seq(Snapshot), Path(c),
           NEW p \in Executors, NEW t, t # "manualOverride", Calls(p, t)
    PROVE  /\ pc[p] = "running" /\ ~ Replaying(p)
           /\ Len(hist[p]) = Len(c) /\ Current(p) = c[Len(c)]
           /\ Due(Current(p)).run = t /\ ~ Stops(Current(p))
<1>1. /\ pc[p] = "running" /\ ~ Replaying(p)
      /\ Due(Current(p)).run = t /\ ~ Stops(Current(p))
  BY DueChosen DEF Calls
<1>2. Len(hist[p]) = Len(c)
  BY <1>1 DEF Path, Along, Working, Asking
<1>3. Current(p) = c[Len(hist[p])]
  BY <1>1, AlongEnd DEF Path
<1> QED
  BY <1>1, <1>2, <1>3

LEMMA PathAnswered ==
    ASSUME OneExecutor, TypeInv, NEW c \in Seq(Snapshot), Path(c),
           NEW p \in Executors, NEW d \in Delta, Answered(p, d)
    PROVE  Path(c)'
<1>1. /\ pc'[p] = "storing" /\ delta'[p] = d /\ hist' = hist /\ loaded' = loaded
      /\ stored' = stored /\ kind' = kind
  BY ReturnStep DEF Answered
<1>2. /\ Calls(p, d.type) /\ d.type # "manualOverride"
      /\ d.type = "requestManual" => Ok(d)
  BY DEF Answered, Answer, Unfailing
<1>3. /\ pc[p] = "running" /\ ~ Replaying(p)
      /\ Len(hist[p]) = Len(c) /\ Follows(Current(p), d)
  BY <1>2, CalledAtEnd DEF Follows
<1>4. /\ Current(p)' = Current(p) /\ (Replaying(p)' <=> Replaying(p))
  BY <1>1 DEF Current, Replaying
<1>5. Along(p, c)'
  <2>1. Len(hist[p]) <= Len(c) /\ \A i \in DOMAIN hist[p] : hist[p][i] = c[i]
    BY <1>3 DEF Path, Along, Working
  <2>2. Follows(Current(p), delta[p])'
    BY <1>1, <1>3, <1>4, DueKept
  <2> QED
    BY <1>1, <1>2, <1>3, <1>4, <2>1, <2>2 DEF Along
<1> QED
  BY <1>1, <1>5, TrailKept DEF Path, OneExecutor

\* An admin writes: whoever was at the end of the path waits there.
LEMMA PathOverride ==
    ASSUME OneExecutor, AdminsAsked, AskingWaits, TypeInv, NEW c \in Seq(Snapshot), Path(c),
           \A q \in Executors : Same(q), kind' = kind, AwaitingAdmin,
           NEW d \in Delta, d.type = "manualOverride", Unpaid(d),
           stored' = Append(stored, d)
    PROVE  \E e \in Seq(Snapshot) : Path(e)' /\ Grown(c, e)
<1>1. PICK n : n = Len(c)
  OBVIOUS
<1>2. PICK m : m = Len(stored)
  OBVIOUS
<1>3. /\ n \in Nat /\ m \in Nat /\ n = m + 1 /\ DOMAIN c = 1 .. n /\ n \in DOMAIN c
      /\ DOMAIN stored = 1 .. m /\ Trail(c)
  BY <1>1, <1>2, TrailEnd DEF Path
<1>4. m \in DOMAIN stored /\ stored[m].type = "requestManual"
  <2>1. stored # << >> /\ stored \in Seq(Delta)
    BY DEF AwaitingAdmin, TypeInv, TypeOK
  <2>2. Len(stored) \in DOMAIN stored
    BY <2>1
  <2> QED
    BY <1>2, <2>2 DEF AwaitingAdmin
<1>5. Asking(c[n]) /\ ~ Stops(c[n])
  <2>1. Follows(c[m], stored[m]) /\ c[n] = Advanced(c[m], stored[m], m)
    BY <1>3, <1>4 DEF Trail
  <2> QED
    BY <1>4, <2>1, AskedAsks
<1>6. Follows(c[n], d)
  BY <1>5 DEF Follows
<1>7. PICK e \in Seq(Snapshot) :
         /\ Trail(e)' /\ Len(e) = n + 1 /\ DOMAIN e = 1 .. n + 1
         /\ \A i \in 1 .. n : e[i] = c[i]
         /\ e[n + 1] = Advanced(c[n], d, n)
  BY <1>1, <1>3, <1>6, TrailGrows
<1>8. ASSUME NEW q \in Executors
      PROVE  Along(q, e)'
  <2>1. Along(q, c) /\ Same(q)
    BY DEF Path
  <2>2. ASSUME pc[q] # "idle"
        PROVE  /\ pc[q] # "storing" /\ Len(hist[q]) <= Len(e)
               /\ \A i \in DOMAIN hist[q] : hist[q][i] = e[i]
               /\ IF Replaying(q) THEN Asking(e[loaded[q] + 1])
                                  ELSE Asking(Current(q))
    <3>1. /\ Len(hist[q]) \in Nat /\ DOMAIN hist[q] = 1 .. Len(hist[q])
          /\ Len(hist[q]) \in DOMAIN c /\ Current(q) = c[Len(hist[q])]
          /\ loaded[q] \in Nat /\ loaded[q] + 1 \in DOMAIN c
      BY <1>3, <2>1, <2>2, AlongEnd
    <3>2. Replaying(q) => Asking(c[loaded[q] + 1])
      BY <1>1, <1>5, <2>1, <2>2 DEF Along, Working
    <3>3. ~ Replaying(q) => Asking(Current(q))
      BY <1>1, <1>5, <2>1, <2>2, <3>1 DEF Along, Working
    <3>4. pc[q] # "storing"
      <4> SUFFICES ASSUME pc[q] = "storing" PROVE FALSE
        OBVIOUS
      <4>1. /\ Asking(Current(q)) /\ Follows(Current(q), delta[q])
            /\ delta[q].type # "manualOverride"
        BY <2>1, <3>3 DEF Along
      <4> QED
        BY <4>1 DEF Asking, Follows
    <3>5. \A i \in DOMAIN hist[q] : hist[q][i] = e[i]
      <4>1. \A i \in DOMAIN hist[q] : hist[q][i] = c[i] /\ i \in 1 .. n
        BY <1>3, <2>1, <2>2, <3>1 DEF Along, Working
      <4> QED
        BY <1>7, <4>1
    <3>6. Len(hist[q]) <= Len(e) /\ e[loaded[q] + 1] = c[loaded[q] + 1]
      BY <1>3, <1>7, <3>1
    <3> QED
      BY <3>2, <3>3, <3>4, <3>5, <3>6
  <2>3. Current(q)' = Current(q) /\ (Replaying(q)' <=> Replaying(q))
    BY <2>1 DEF Current, Replaying, Same
  <2> QED
    BY <2>1, <2>2, <2>3, DueKept DEF Along, Working, Same
<1>9. Grown(c, e)
  <2>1. Extends(c, e, n, d)
    BY <1>3, <1>7 DEF Extends
  <2> QED
    BY <1>1, <1>3, <2>1 DEF Grown
<1> QED
  BY <1>7, <1>8, <1>9 DEF Path

LEMMA PathReturned ==
    ASSUME TypeInv, TypeInv', NEW c \in Seq(Snapshot), Path(c),
           \A q \in Executors : Same(q), ETransferReturned
    PROVE  \E e \in Seq(Snapshot) : Path(e)' /\ Grown(c, e)
<1>1. PICK e \in Seq(Snapshot), n \in DOMAIN c, d \in Delta :
              /\ Trail(e)' /\ DOMAIN e = 1 .. n + 1
              /\ \A i \in 1 .. n : i \in DOMAIN c /\ e[i] = c[i]
              /\ e[n + 1] = Advanced(c[n], d, n)
              /\ d.coin = Absent /\ d.fiat = Absent /\ d.hash = 0
              /\ Due(c[n]).run = "waitETransfer" /\ d.error = "returned"
  BY TrailReturned DEF Path
<1>2. \A q \in Executors : pc'[q] = "idle"
  BY DEF ETransferReturned, Same
<1>3. \A q \in Executors : Along(q, e)'
  BY <1>2 DEF Along, Working
<1>4. Grown(c, e)
  BY <1>1 DEF Grown, Extends, Returning, Unpaid
<1> QED
  BY <1>1, <1>3, <1>4 DEF Path

LEMMA GrownSame == \A c : Grown(c, c)
  BY DEF Grown

\* Every step leads to a path, which takes over this one and what was stored.
LEMMA PathStep ==
    ASSUME OneExecutor, AdminsAsked, AskingWaits, TypeInv, TypeInv', [Next]_vars,
           NEW c \in Seq(Snapshot), Path(c)
    PROVE  \E e \in Seq(Snapshot) : Path(e)' /\ Grown(c, e)
<1>1. CASE \E p \in Executors : Start(p) \/ Replay(p) \/ Ends(p)
  BY <1>1, PathStart, PathReplay, PathEnds, GrownSame
<1>2. CASE \E p \in Executors : Store(p)
  BY <1>2, PathStore
<1>3. CASE \E p \in Executors : \E d \in Delta : Answered(p, d)
  BY <1>3, PathAnswered, GrownSame
<1>4. CASE OutsideStep
  <2>1. kind' = kind /\ \A q \in Executors : Same(q)
    BY <1>4, OutsideHistory
  <2>2. CASE stored' = stored
    <3>1. Path(c)'
      BY <2>1, <2>2, TrailKept, AlongKept DEF Path
    <3> QED
      BY <3>1, GrownSame
  <2>3. ASSUME NEW d \in Delta, d.type = "manualOverride", d.hash = 0,
               d.coin = Absent, d.fiat = Absent, AwaitingAdmin,
               stored' = Append(stored, d)
        PROVE  \E e \in Seq(Snapshot) : Path(e)' /\ Grown(c, e)
    BY <2>1, <2>3, PathOverride DEF Unpaid
  <2>4. CASE ETransferReturned
    BY <2>1, <2>4, PathReturned
  <2> QED
    BY <1>4, <2>2, <2>3, <2>4, OutsideHistory
<1> QED
  BY <1>1, <1>2, <1>3, <1>4, StepCases

LEMMA PathKept ==
    OneExecutor /\ AdminsAsked /\ AskingWaits /\ TypeInv /\ TypeInv' /\ PathInv /\ [Next]_vars
       => PathInv'
<1> SUFFICES ASSUME OneExecutor, AdminsAsked, AskingWaits, TypeInv, TypeInv', PathInv, [Next]_vars
             PROVE  PathInv'
  OBVIOUS
<1>1. PICK c \in Seq(Snapshot) : Path(c)
  BY DEF PathInv
<1>2. PICK e \in Seq(Snapshot) : Path(e)'
  BY <1>1, PathStep
<1> QED
  BY <1>2 DEF PathInv

LEMMA PathReplays ==
    ASSUME OneExecutor, TypeInv, PathInv
    PROVE  HistoryReplays
<1> SUFFICES ASSUME NEW p \in Executors, pc[p] = "running", Replaying(p)
             PROVE  ~ Halted(p) /\ Fits(p)
  BY DEF HistoryReplays
<1>1. PICK c \in Seq(Snapshot) : Path(c)
  BY DEF PathInv
<1>2. PICK i : i = Len(hist[p])
  OBVIOUS
<1>3. i \in Nat /\ i >= 1 /\ i <= loaded[p] /\ Current(p) = c[i]
  BY <1>1, <1>2, AlongEnd DEF Path, Replaying
<1>4. i \in DOMAIN stored
  <2>1. /\ loaded[p] \in Nat /\ loaded[p] <= Len(stored) /\ Len(stored) \in Nat
        /\ DOMAIN stored = 1 .. Len(stored)
    BY <1>1, TrailEnd DEF Path, TypeInv, TypeOK, LoadedStored, Working
  <2> QED
    BY <1>3, <2>1
<1>5. Follows(Current(p), stored[i])
  BY <1>1, <1>3, <1>4 DEF Path, Trail
<1>6. /\ ~ Stops(Current(p)) /\ Replayed(p) = stored[i]
      /\ Replayed(p).type \in {"manualOverride", Chosen(p).run}
  BY <1>2, <1>5, DueChosen DEF Follows, Replayed
<1> QED
  BY <1>6, DueChosen DEF Fits, Overrides

\* Whatever one executor has stored it can replay to the end, after any crash
\* and with any override of an admin who is asked for one, in a graph that waits
\* where it asks: no state ends the replay early and no delta meets the wrong
\* transition.  An override during an execution, or after an error that nothing
\* handles, spoils the history; the form takes both.
THEOREM ReplaysToTheEnd ==
    OneExecutor /\ AdminsAsked /\ AskingWaits => (Spec => []HistoryReplays)
<1> SUFFICES ASSUME OneExecutor, AdminsAsked, AskingWaits PROVE Spec => []HistoryReplays
  OBVIOUS
<1>1. Init => TypeInv /\ PathInv
  BY TypeInit, PathInit
<1>2. TypeInv /\ PathInv /\ [Next]_vars => (TypeInv /\ PathInv)'
  BY TypeStep, PathKept
<1>3. TypeInv /\ PathInv => HistoryReplays
  BY PathReplays
<1> QED
  BY <1>1, <1>2, <1>3, PTL DEF Spec

-----------------------------------------------------------------------------
(***************************************************************************)
(* Errors.  While one is open the history ends in an error or in a request *)
(* for an admin; the machine is at the end of the path whenever it runs    *)
(* something, and what is due there then moves nothing.                    *)
(***************************************************************************)
Handles(d) == /\ d.type \in {"manualOverride", "retryRegisterTx", "handleWaitError"}
              /\ Ok(d)

ErrorsLast ==
    OpenErrors # {} => \/ ~ Ok(stored[Len(stored)])
                       \/ stored[Len(stored)].type = "requestManual"

LEMMA OpenOnes ==
    OpenErrors = {i \in DOMAIN stored :
                     /\ ~ Ok(stored[i])
                     /\ ~ \E j \in (i + 1) .. Len(stored) : Handles(stored[j])}
  BY DEF OpenErrors, Ok, Handles

LEMMA OpenNone == ASSUME stored = << >> PROVE OpenErrors = {}
<1>1. DOMAIN stored = {}
  OBVIOUS
<1> QED
  BY <1>1 DEF OpenErrors

LEMMA OpenAppended ==
    ASSUME TypeInv, NEW d \in Delta, stored' = Append(stored, d), Ok(d),
           OpenErrors' # {}
    PROVE  OpenErrors # {} /\ ~ Handles(d)
<1>1. PICK m : m = Len(stored)
  OBVIOUS
<1>2. /\ m \in Nat /\ DOMAIN stored = 1 .. m
      /\ DOMAIN stored' = 1 .. m + 1 /\ Len(stored') = m + 1
      /\ \A i \in 1 .. m : stored'[i] = stored[i]
      /\ stored'[m + 1] = d
  BY <1>1, Appended DEF TypeInv, TypeOK
<1>3. PICK i \in DOMAIN stored' :
         /\ ~ Ok(stored'[i])
         /\ ~ \E j \in (i + 1) .. Len(stored') : Handles(stored'[j])
  <2>1. OpenErrors' = {i \in DOMAIN stored' :
                          /\ ~ Ok(stored'[i])
                          /\ ~ \E j \in (i + 1) .. Len(stored') : Handles(stored'[j])}
    BY DEF OpenErrors, Ok, Handles
  <2> QED
    BY <2>1
<1>4. i # m + 1 /\ i \in 1 .. m
  BY <1>2, <1>3
<1>5. ~ Handles(d)
  BY <1>2, <1>3, <1>4
<1>6. \A j \in (i + 1) .. m : ~ Handles(stored[j])
  <2> SUFFICES ASSUME NEW j \in (i + 1) .. m PROVE ~ Handles(stored[j])
    OBVIOUS
  <2>1. j \in 1 .. m /\ j \in (i + 1) .. Len(stored')
    BY <1>2, <1>4
  <2> QED
    BY <1>2, <1>3, <2>1
<1>7. i \in OpenErrors
  BY <1>1, <1>2, <1>3, <1>4, <1>6, OpenOnes
<1> QED
  BY <1>5, <1>7

\* What the machine runs first while an error is open.
LEMMA RunsAfterError ==
    ASSUME OneExecutor, AdminsAsked, AskingWaits, ErrorsHandled, TypeInv, PathInv, ErrorsLast,
           OpenErrors # {}, NEW p \in Executors, NEW t, t # "manualOverride",
           \/ pc[p] = "storing" /\ t = delta[p].type
           \/ Calls(p, t)
    PROVE  t \in {"requestManual", "retryRegisterTx", "handleWaitError"}
<1>1. PICK c \in Seq(Snapshot) : Path(c)
  BY DEF PathInv
<1>2. PICK m : m = Len(stored)
  OBVIOUS
<1>3. /\ Len(hist[p]) = Len(c) /\ Current(p) = c[Len(c)] /\ pc[p] # "idle"
      /\ Due(Current(p)).run = t /\ ~ Stops(Current(p))
  <2>1. CASE Calls(p, t)
    BY <1>1, <2>1, CalledAtEnd
  <2>2. CASE pc[p] = "storing" /\ t = delta[p].type
    <3>1. Len(hist[p]) = Len(c) /\ Follows(Current(p), delta[p])
      BY <1>1, <2>2 DEF Path, Along
    <3>2. Current(p) = c[Len(hist[p])]
      BY <1>1, <2>2, AlongEnd DEF Path
    <3> QED
      BY <2>2, <3>1, <3>2 DEF Follows
  <2> QED
    BY <2>1, <2>2
<1>4. /\ Len(c) = m + 1 /\ m \in Nat /\ DOMAIN stored = 1 .. m
  BY <1>1, <1>2, TrailEnd DEF Path
<1>5. m \in DOMAIN stored
  <2>1. m # 0
    <3> SUFFICES ASSUME m = 0 PROVE FALSE
      OBVIOUS
    <3>1. stored = << >>
      BY <1>2 DEF TypeInv, TypeOK
    <3> QED
      BY <3>1, OpenNone
  <2> QED
    BY <1>4, <2>1
<1>6. /\ Follows(c[m], stored[m]) /\ c[m + 1] = Advanced(c[m], stored[m], m)
  BY <1>1, <1>5 DEF Path, Trail
<1>7. Current(p).delta = stored[m]
  BY <1>3, <1>4, <1>6 DEF Advanced, Reduced
<1>8. CASE stored[m].type = "requestManual"
  <2>1. Asking(Current(p))
    BY <1>3, <1>4, <1>6, <1>8, AskedAsks
  <2> QED
    BY <1>3, <2>1 DEF Asking
<1>9. CASE ~ Ok(stored[m])
  <2>1. Due(Current(p)).run \in Callbacks
    <3>1. Due(Current(p)) # NoEdge /\ Due(Current(p)) \in Edge
      BY <1>3, DueType DEF Stops
    <3> QED
      BY <3>1 DEF Edge
  <2>2. t # ""
    BY <1>3, <2>1 DEF Callbacks
  <2>3. /\ Current(p).name \in DOMAIN Graph
        /\ Due(Current(p)) = Graph[Current(p).name].onError
    BY <1>3, <1>7, <1>9, <2>2, DueEdge
  <2>4. t \in {"", "requestManual", "retryRegisterTx", "handleWaitError"}
    BY <1>3, <2>3 DEF ErrorsHandled, Graph, TypeInv, TypeOK
  <2> QED
    BY <2>2, <2>4
<1> QED
  BY <1>2, <1>8, <1>9 DEF ErrorsLast

LEMMA ErrorsStep ==
    ASSUME OneExecutor, AdminsAsked, AskingWaits, ErrorsHandled, TypeInv, PathInv, ErrorsLast,
           [Next]_vars
    PROVE  ErrorsLast'
<1>1. CASE stored' = stored
  BY <1>1 DEF ErrorsLast, OpenErrors
<1>2. ASSUME NEW d \in Delta, stored' = Append(stored, d),
             OpenErrors # {} /\ Ok(d) => Handles(d) \/ d.type = "requestManual"
      PROVE  ErrorsLast'
  <2>1. stored'[Len(stored')] = d
    BY <1>2, Appended DEF TypeInv, TypeOK
  <2>2. OpenErrors' # {} /\ Ok(d) => d.type = "requestManual"
    BY <1>2, OpenAppended
  <2> QED
    BY <2>1, <2>2 DEF ErrorsLast
<1>3. ASSUME NEW p \in Executors, Store(p)
      PROVE  ErrorsLast'
  <2>1. PICK d \in Delta : d = delta[p] /\ pc[p] = "storing" /\ stored' = Append(stored, d)
    BY <1>3, StoreStep
  <2>2. d.type # "manualOverride"
    BY <2>1 DEF PathInv, Path, Along
  <2>3. OpenErrors # {} =>
           d.type \in {"requestManual", "retryRegisterTx", "handleWaitError"}
    BY <2>1, <2>2, RunsAfterError
  <2> QED
    BY <1>2, <2>1, <2>3 DEF Handles
<1>4. CASE \E p \in Executors : Start(p) \/ Replay(p) \/ Ends(p)
  BY <1>1, <1>4 DEF Start, Replay, Ends, store
<1>5. CASE \E p \in Executors : \E d \in Delta : Answered(p, d)
  BY <1>1, <1>5, ReturnStep DEF Answered
<1>6. CASE OutsideStep
  <2>1. ASSUME NEW d \in Delta, d.type = "manualOverride", d.error = "",
               stored' = Append(stored, d)
        PROVE  ErrorsLast'
    BY <1>2, <2>1 DEF Handles, Ok
  <2>2. CASE ETransferReturned
    <3>1. Len(stored') = Len(stored) - 1 /\ stored'[Len(stored) - 1].error = "returned"
      BY <2>2, ReturnedTail
    <3> QED
      BY <3>1 DEF ErrorsLast, Ok
  <2> QED
    BY <1>1, <1>6, <2>1, <2>2, OutsideHistory
<1> QED
  BY <1>3, <1>4, <1>5, <1>6, StepCases

\* A block leaves all of a transaction but its status and what it moved.
LEMMA Included ==
    ASSUME TypeInv, NEW h \in DOMAIN txs, Mine(h) \/ Revert(h)
    PROVE  /\ DOMAIN txs' = DOMAIN txs
           /\ \A g \in DOMAIN txs :
                 /\ txs'[g].kind = txs[g].kind /\ txs'[g].amount = txs[g].amount
                 /\ txs'[g].lock = txs[g].lock
                 /\ txs'[g].moved \in {txs[g].moved, Moves(txs[g])}
<1>1. txs \in Seq(TxRecord) /\ txs[h] \in TxRecord
  BY DEF TypeInv, TypeOK
<1>2. /\ DOMAIN txs' = DOMAIN txs
      /\ \A g \in DOMAIN txs \ {h} : txs'[g] = txs[g]
      /\ txs'[h].kind = txs[h].kind /\ txs'[h].amount = txs[h].amount
      /\ txs'[h].lock = txs[h].lock
      /\ txs'[h].moved \in {txs[h].moved, Moves(txs[h])}
  <2>1. CASE Mine(h)
    BY <1>1, <2>1 DEF Mine, TxRecord
  <2>2. CASE Revert(h)
    BY <1>1, <2>2 DEF Revert, TxRecord
  <2> QED
    BY <2>1, <2>2
<1> QED
  BY <1>2

LEMMA OursKept ==
    ASSUME TypeInv, OutsideStep
    PROVE  OurTxs' = OurTxs
<1>1. CASE txs' = txs
  BY <1>1 DEF OurTxs
<1>2. txs \in Seq(TxRecord) /\ DOMAIN txs = 1 .. Len(txs) /\ Len(txs) \in Nat
  BY DEF TypeInv, TypeOK
<1>3. ASSUME NEW h \in DOMAIN txs, Mine(h) \/ Revert(h)
      PROVE  OurTxs' = OurTxs
  BY <1>3, Included DEF OurTxs
<1>4. CASE StrangerProcesses
  <2>1. PICK tx \in TxRecord : txs' = Append(txs, tx) /\ tx.lock = 0
    <3>1. Value \in Nat
      BY WorldAssumption DEF WorldAssumption
    <3> QED
      BY <1>4, <3>1 DEF StrangerProcesses, TxRecord, TxKinds
  <2>2. /\ DOMAIN txs' = 1 .. Len(txs) + 1 /\ txs'[Len(txs) + 1].lock = 0
        /\ \A g \in 1 .. Len(txs) : txs'[g] = txs[g]
    BY <1>2, <2>1, Appended
  <2>3. \A g \in 1 .. Len(txs) + 1 : g \in 1 .. Len(txs) \/ g = Len(txs) + 1
    BY <1>2
  <2> QED
    BY <1>2, <2>2, <2>3 DEF OurTxs
<1>5. \/ txs' = txs \/ StrangerProcesses
      \/ \E h \in DOMAIN txs : Mine(h) \/ Revert(h)
  BY DEF OutsideStep, Environment, WorldNext, Settle, LockExpires,
     AdminOverride, ETransferReturned, vars, world
<1> QED
  BY <1>1, <1>3, <1>4, <1>5

LEMMA ErrorsStop ==
    ASSUME OneExecutor, AdminsAsked, AskingWaits, ErrorsHandled, TypeInv, PathInv, ErrorsLast,
           OpenErrors # {}, [Next]_vars
    PROVE  bank' = bank /\ OurTxs' = OurTxs
<1>1. CASE \E p \in Executors : Start(p) \/ Replay(p) \/ Store(p) \/ Ends(p)
  BY <1>1 DEF Start, Replay, Store, Ends, world, OurTxs
<1>2. ASSUME NEW p \in Executors, NEW d \in Delta, Answered(p, d)
      PROVE  bank' = bank /\ OurTxs' = OurTxs
  <2>1. d.type \in {"requestManual", "retryRegisterTx", "handleWaitError"}
    BY <1>2, RunsAfterError DEF Answered, Answer
  <2>2. ~ SendsFor(p, d) /\ ~ PaysFor(p, d)
    BY <2>1 DEF SendsFor, PaysFor, Caller, TxRecord, TxKinds
  <2> QED
    BY <1>2, <2>2 DEF Answered, Answer, MovesNone, OurTxs
<1>3. CASE OutsideStep
  BY <1>3, OutsideHistory, OursKept
<1> QED
  BY <1>1, <1>2, <1>3, StepCases

\* While an error of the history is open no money moves, on the chain or at
\* the bank: an admin, who is asked, or a handler must deal with it first, and
\* neither a crash nor an override makes the machine forget it.
THEOREM ErrorsStopMoney ==
    OneExecutor /\ AdminsAsked /\ AskingWaits /\ ErrorsHandled => (Spec => NoEffectAfterError)
<1> SUFFICES ASSUME OneExecutor, AdminsAsked, AskingWaits, ErrorsHandled
             PROVE  Spec => NoEffectAfterError
  OBVIOUS
<1> DEFINE Inv == TypeInv /\ PathInv /\ ErrorsLast
<1>1. Init => Inv
  <2>1. Init => ErrorsLast
    BY OpenNone DEF Init, ErrorsLast
  <2> QED
    BY <2>1, TypeInit, PathInit
<1>2. Inv /\ [Next]_vars => Inv'
  BY TypeStep, PathKept, ErrorsStep
<1>3. Inv /\ [Next]_vars
         => [OpenErrors # {} => bank' = bank /\ OurTxs' = OurTxs]_vars
  BY ErrorsStop
<1> QED
  BY <1>1, <1>2, <1>3, PTL DEF Spec, NoEffectAfterError

-----------------------------------------------------------------------------
(***************************************************************************)
(* Balances.  Coin is subtracted when a transaction to the client has been *)
(* mined: that was sent from the snapshot just before, with all its coin,  *)
(* which nothing has touched since.                                        *)
(***************************************************************************)
Sent(h) == h # 0 /\ txs[h].kind = "exactTransfer"

Solvent(s) == /\ s.coin >= Absent /\ s.fiat >= Absent
              /\ s.delta.hash \in 0 .. Len(txs)
              /\ Sent(s.delta.hash) => s.coin = txs[s.delta.hash].amount

\* The same of a delta on its way.
Bookable(p) ==
    pc[p] = "storing" =>
       /\ delta[p].coin >= Absent /\ delta[p].fiat >= Absent
       /\ Sent(delta[p].hash) => /\ delta[p].coin = Absent
                                 /\ Current(p).coin = txs[delta[p].hash].amount

SentWhole ==
    \A h \in DOMAIN txs :
       txs[h].kind = "exactTransfer" => txs[h].moved \in {0, txs[h].amount}

Rested(p) == Working(p) \/ hist[p] = << >>

SolventPath(c) == Path(c) /\ \A i \in DOMAIN c : Solvent(c[i])

MoneyInv == /\ SentWhole
            /\ \A p \in Executors : Bookable(p) /\ Rested(p)
            /\ \E c \in Seq(Snapshot) : SolventPath(c)

\* What every step leaves of the transactions there are.
TxsKept == \A h \in DOMAIN txs :
              /\ h \in DOMAIN txs'
              /\ txs'[h].kind = txs[h].kind /\ txs'[h].amount = txs[h].amount
              /\ txs'[h].moved \in {txs[h].moved, Moves(txs[h])}

LEMMA MoneyInit == Init => MoneyInv
<1> SUFFICES ASSUME Init PROVE MoneyInv
  OBVIOUS
<1>1. /\ txs = << >> /\ DOMAIN txs = {} /\ Len(txs) = 0
      /\ \A p \in Executors : pc[p] = "idle" /\ hist[p] = << >>
  <2>1. txs = << >> /\ \A p \in Executors : pc[p] = "idle" /\ hist[p] = << >>
    BY DEF Init, WorldInit
  <2>2. DOMAIN txs = {} /\ Len(txs) = 0
    BY <2>1
  <2> QED
    BY <2>1, <2>2
<1>2. PICK c \in Seq(Snapshot) : Path(c)
  BY PathInit DEF PathInv
<1>3. DOMAIN c = {1} /\ c[1] = InitialSnapshot
  <2>1. stored = << >>
    BY DEF Init
  <2>2. Len(stored) = 0
    BY <2>1
  <2> QED
    BY <1>2, <2>2 DEF Path, Trail
<1>4. Solvent(InitialSnapshot)
  <2>1. InitialSnapshot.coin = Absent /\ InitialSnapshot.fiat = Absent
    BY DEF InitialSnapshot
  <2> QED
    BY <1>1, <2>1, InitialType DEF Solvent, Sent, Absent
<1>5. SentWhole /\ \A p \in Executors : Bookable(p) /\ Rested(p)
  BY <1>1 DEF SentWhole, Bookable, Rested
<1> QED
  BY <1>2, <1>3, <1>4, <1>5 DEF MoneyInv, SolventPath

LEMMA TxsStep ==
    ASSUME TypeInv, TypeInv', [Next]_vars
    PROVE  /\ TxsKept /\ Len(txs) \in Nat /\ Len(txs') \in Nat /\ Len(txs) <= Len(txs')
           /\ SentWhole => SentWhole'
<1>1. /\ txs \in Seq(TxRecord) /\ Len(txs) \in Nat /\ DOMAIN txs = 1 .. Len(txs)
      /\ txs' \in Seq(TxRecord) /\ Len(txs') \in Nat /\ DOMAIN txs' = 1 .. Len(txs')
  BY DEF TypeInv, TypeOK
<1>2. ASSUME TxsKept,
             \A h \in DOMAIN txs' \ DOMAIN txs :
                txs'[h].kind = "exactTransfer" => txs'[h].moved = 0
      PROVE  /\ TxsKept /\ Len(txs) <= Len(txs')
             /\ SentWhole => SentWhole'
  <2>1. Len(txs) <= Len(txs')
    <3>1. CASE Len(txs) = 0
      BY <1>1, <3>1
    <3>2. CASE Len(txs) # 0
      <4>1. Len(txs) \in DOMAIN txs
        BY <1>1, <3>2
      <4> QED
        BY <1>1, <1>2, <4>1 DEF TxsKept
    <3> QED
      BY <3>1, <3>2
  <2>2. \A h \in DOMAIN txs : txs[h].kind = "exactTransfer" => Moves(txs[h]) = txs[h].amount
    BY DEF Moves
  <2>3. SentWhole => SentWhole'
    BY <1>2, <2>2 DEF SentWhole, TxsKept
  <2> QED
    BY <1>2, <2>1, <2>3
<1>3. CASE txs' = txs
  BY <1>1, <1>2, <1>3 DEF TxsKept
<1>4. ASSUME NEW tx \in TxRecord, txs' = Append(txs, tx),
             tx.kind = "exactTransfer" => tx.moved = 0
      PROVE  /\ TxsKept /\ Len(txs) <= Len(txs')
             /\ SentWhole => SentWhole'
  <2>1. /\ DOMAIN txs' = 1 .. Len(txs) + 1
        /\ \A h \in 1 .. Len(txs) : txs'[h] = txs[h]
        /\ txs'[Len(txs) + 1] = tx
    BY <1>1, <1>4, Appended
  <2>2. \A h \in DOMAIN txs' \ DOMAIN txs : h = Len(txs) + 1
    BY <1>1, <2>1
  <2>3. TxsKept
    BY <1>1, <2>1 DEF TxsKept
  <2> QED
    BY <1>2, <1>4, <2>1, <2>2, <2>3
<1>5. CASE StrangerProcesses
  <2>1. PICK tx \in TxRecord : txs' = Append(txs, tx) /\ tx.kind = "processPending"
    <3>1. Value \in Nat
      BY WorldAssumption DEF WorldAssumption
    <3> QED
      BY <1>5, <3>1 DEF StrangerProcesses, TxRecord, TxKinds
  <2> QED
    BY <1>4, <2>1
<1>6. ASSUME NEW h \in DOMAIN txs, Mine(h) \/ Revert(h)
      PROVE  /\ TxsKept /\ Len(txs) <= Len(txs')
             /\ SentWhole => SentWhole'
  BY <1>2, <1>6, Included DEF TxsKept
<1> QED
  BY <1>1, <1>3, <1>4, <1>5, <1>6, StepTxs DEF SendsOne

\* What is solvent stays so.
LEMMA SolventKept ==
    ASSUME TxsKept, Len(txs) \in Nat, Len(txs') \in Nat, Len(txs) <= Len(txs'),
           DOMAIN txs = 1 .. Len(txs), NEW s, Solvent(s)
    PROVE  Solvent(s)'
<1>1. PICK h : h = s.delta.hash
  OBVIOUS
<1>2. h \in 0 .. Len(txs) /\ (Sent(h) => s.coin = txs[h].amount)
  BY <1>1 DEF Solvent
<1>3. h \in 0 .. Len(txs')
  BY <1>2
<1>4. h # 0 => txs'[h].kind = txs[h].kind /\ txs'[h].amount = txs[h].amount
  BY <1>2 DEF TxsKept
<1>5. Sent(h)' => s.coin = txs'[h].amount
  BY <1>2, <1>4 DEF Sent
<1> QED
  BY <1>1, <1>3, <1>5 DEF Solvent, Sent

LEMMA SolventEnd ==
    ASSUME TypeInv, NEW c \in Seq(Snapshot), SolventPath(c),
           NEW p \in Executors, pc[p] # "idle"
    PROVE  Solvent(Current(p))
<1>1. Len(hist[p]) \in DOMAIN c /\ Current(p) = c[Len(hist[p])]
  BY AlongEnd DEF SolventPath, Path
<1> QED
  BY <1>1 DEF SolventPath

\* The next path is solvent as well.
LEMMA SolventGrown ==
    ASSUME TypeInv, NEW c \in Seq(Snapshot), SolventPath(c),
           \A p \in Executors : Bookable(p),
           NEW e, Grown(c, e)
    PROVE  \A i \in DOMAIN e : Solvent(e[i])
<1> SUFFICES ASSUME NEW i \in DOMAIN e PROVE Solvent(e[i])
  OBVIOUS
<1>1. CASE i \in DOMAIN c /\ e[i] = c[i]
  BY <1>1 DEF SolventPath
<1>2. ASSUME NEW j \in DOMAIN c, NEW d \in Delta, e[i] = Advanced(c[j], d, j),
             Unpaid(d) \/ Stored(c[j], d)
      PROVE  Solvent(e[i])
  <2>1. PICK s \in Snapshot : s = c[j] /\ Solvent(s)
    <3>1. c[j] \in Snapshot
      BY TrailEnd DEF SolventPath, Path
    <3> QED
      BY <3>1 DEF SolventPath
  <2>2. /\ e[i].coin = Merged(d.coin, s.coin) /\ e[i].fiat = Merged(d.fiat, s.fiat)
        /\ e[i].delta = d
    BY <1>2, <2>1 DEF Advanced, Reduced
  <2>3. CASE Unpaid(d)
    <3>1. e[i].coin = s.coin /\ e[i].fiat = s.fiat /\ e[i].delta.hash = 0
      BY <2>2, <2>3 DEF Unpaid, Merged
    <3>2. Len(txs) \in Nat
      BY DEF TypeInv, TypeOK
    <3> QED
      BY <2>1, <3>1, <3>2 DEF Solvent, Sent
  <2>4. CASE Stored(c[j], d)
    <3>1. PICK p \in Executors : pc[p] = "storing" /\ d = delta[p] /\ s = Current(p)
      BY <2>1, <2>4 DEF Stored
    <3>2. /\ d.coin >= Absent /\ d.fiat >= Absent
          /\ Sent(d.hash) => d.coin = Absent /\ s.coin = txs[d.hash].amount
      BY <3>1 DEF Bookable
    <3>3. d.hash \in 0 .. Len(txs)
      BY <3>1 DEF TypeInv, HashesKnown
    <3> QED
      BY <2>1, <2>2, <3>2, <3>3 DEF Solvent, Merged
  <2> QED
    BY <1>2, <2>3, <2>4
<1> QED
  BY <1>1, <1>2, GrownEach

LEMMA Products == /\ \A a, b \in Nat : a * b \in Nat
                  /\ \A a \in Nat : \A b \in Nat \ {0} : a \div b \in Nat
  OBVIOUS

\* Coin received or sent leaves a balance; all that was sent leaves none.
LEMMA CoinLeft ==
    ASSUME TypeInv, SentWhole, NEW s \in Snapshot, Solvent(s), s.delta.hash # 0
    PROVE  /\ CoinAfter(s, txs[s.delta.hash]) >= Absent
           /\ txs[s.delta.hash].kind = "exactTransfer" =>
                 CoinAfter(s, txs[s.delta.hash]) \in {0, Absent}
<1>1. PICK h : h = s.delta.hash
  OBVIOUS
<1>2. /\ h \in DOMAIN txs /\ txs[h] \in TxRecord
      /\ s.coin >= Absent /\ s.coin \in Int
      /\ Sent(h) => s.coin = txs[h].amount
  BY <1>1 DEF Solvent, TypeInv, TypeOK, Snapshot, Amount
<1>3. PICK tx \in TxRecord : tx = txs[h]
  BY <1>2
<1>4. tx.amount \in Nat /\ tx.moved \in Nat /\ Absent = -1
  BY DEF TxRecord, Absent
<1>5. Balance(s.coin) \in Nat
  BY <1>2, <1>4 DEF Balance
<1>6. CASE tx.moved = 0
  BY <1>1, <1>3, <1>4, <1>6 DEF CoinAfter
<1>7. CASE tx.moved # 0 /\ tx.kind # "exactTransfer"
  BY <1>1, <1>3, <1>4, <1>5, <1>7 DEF CoinAfter
<1>8. CASE tx.moved # 0 /\ tx.kind = "exactTransfer"
  <2>1. tx.moved = tx.amount
    BY <1>2, <1>3, <1>8 DEF SentWhole
  <2>2. s.coin = tx.amount
    BY <1>1, <1>2, <1>3, <1>8 DEF Sent
  <2>3. Balance(s.coin) = tx.amount
    BY <1>4, <2>2 DEF Balance
  <2> QED
    BY <1>1, <1>3, <1>4, <1>8, <2>1, <2>3 DEF CoinAfter
<1> QED
  BY <1>6, <1>7, <1>8

LEMMA ComputesSolvent ==
    ASSUME TypeInv, SentWhole, NEW p \in Executors, pc[p] # "idle",
           Solvent(Current(p)), NEW d \in Delta, Books(p, d)
    PROVE  d.coin >= Absent /\ d.fiat >= Absent
<1>1. PICK s \in Snapshot : s = Current(p) /\ Solvent(s)
  BY AtWork
<1>2. /\ s.coin >= Absent /\ s.fiat >= Absent /\ Absent = -1
      /\ s.coin \in Int /\ s.fiat \in Int
  BY <1>1 DEF Solvent, Snapshot, Amount, Absent
<1>3. Value \in Nat
  BY WorldAssumption DEF WorldAssumption
<1>4. CASE Sets(d, Absent, Absent) \/ Sets(d, Absent, 0) \/ Sets(d, Absent, Value)
  BY <1>2, <1>3, <1>4 DEF Sets
<1>5. CASE s.delta.hash # 0 /\ Sets(d, CoinAfter(s, txs[s.delta.hash]), Absent)
  <2>1. CoinAfter(s, txs[s.delta.hash]) >= Absent
    BY <1>1, <1>5, CoinLeft
  <2> QED
    BY <1>2, <1>5, <2>1 DEF Sets
<1>6. ASSUME NEW r \in Rates,
             \/ Outstanding(s.coin) /\ Sets(d, 0, s.coin * r)
             \/ Outstanding(s.fiat) /\ Sets(d, s.fiat \div r, 0)
      PROVE  d.coin >= Absent /\ d.fiat >= Absent
  <2>1. r \in Nat \ {0} /\ r \in Nat
    BY WorldAssumption DEF WorldAssumption
  <2>2. CASE Outstanding(s.coin) /\ Sets(d, 0, s.coin * r)
    <3>1. s.coin \in Nat
      BY <1>2, <2>2 DEF Outstanding
    <3>2. s.coin * r \in Nat
      BY <2>1, <3>1, Products
    <3> QED
      BY <1>2, <2>2, <3>2 DEF Sets
  <2>3. CASE Outstanding(s.fiat) /\ Sets(d, s.fiat \div r, 0)
    <3>1. s.fiat \in Nat
      BY <1>2, <2>3 DEF Outstanding
    <3>2. s.fiat \div r \in Nat
      BY <2>1, <3>1, Products
    <3> QED
      BY <1>2, <2>3, <3>2 DEF Sets
  <2> QED
    BY <1>6, <2>2, <2>3
<1>7. ASSUME NEW i \in DOMAIN hist[p], Positive(hist[p][i].delta.fiat),
             Sets(d, Absent, hist[p][i].delta.fiat)
      PROVE  d.coin >= Absent /\ d.fiat >= Absent
  BY <1>2, <1>7 DEF Sets, Positive, Delta, Amount
<1> QED
  BY <1>1, <1>4, <1>5, <1>6, <1>7 DEF Books

LEMMA BookableAnswered ==
    ASSUME TypeInv, TypeInv', SentWhole, NEW p \in Executors, Solvent(Current(p)),
           NEW d \in Delta, Answered(p, d)
    PROVE  Bookable(p)'
<1>1. /\ pc[p] = "running" /\ delta'[p] = d /\ Current(p)' = Current(p)
      /\ Books(p, d)
      /\ MovesNone(d) \/ SendsFor(p, d) \/ PaysFor(p, d)
  BY ReturnStep DEF Answered, Answer, Current
<1>2. d.coin >= Absent /\ d.fiat >= Absent
  BY <1>1, ComputesSolvent
<1>3. ASSUME Sent(d.hash)'
      PROVE  d.coin = Absent /\ Current(p).coin = txs'[d.hash].amount
  <2>1. d.hash # 0 /\ txs'[d.hash].kind = "exactTransfer"
    BY <1>3 DEF Sent
  <2>2. PICK tx \in TxRecord :
           /\ txs' = Append(txs, tx) /\ d.type = Caller[tx.kind]
           /\ d.hash = Len(txs) + 1
           /\ tx.kind = "exactTransfer" => tx.amount = Current(p).coin
    BY <1>1, <2>1 DEF MovesNone, SendsFor, PaysFor
  <2>3. txs'[d.hash] = tx
    BY <2>2, Appended DEF TypeInv, TypeOK
  <2>4. d.type = "sendCoin"
    BY <2>1, <2>2, <2>3 DEF Caller
  <2>5. d.coin = Absent
    BY <1>1, <2>4 DEF Books, Sets
  <2> QED
    BY <2>1, <2>2, <2>3, <2>5
<1> QED
  BY <1>1, <1>2, <1>3 DEF Bookable, Sent

LEMMA BookableKept ==
    ASSUME TypeInv, TxsKept, NEW q \in Executors, Bookable(q), Same(q)
    PROVE  Bookable(q)'
<1>1. pc'[q] = pc[q] /\ delta'[q] = delta[q] /\ Current(q)' = Current(q)
  BY DEF Same, Current
<1>2. PICK d \in Delta : d = delta[q]
  BY DEF TypeInv, TypeOK
<1>3. d.hash # 0 => d.hash \in DOMAIN txs
  BY <1>2 DEF TypeInv, TypeOK, HashesKnown
<1>4. /\ Sent(d.hash)' => Sent(d.hash)
      /\ Sent(d.hash) => txs'[d.hash].amount = txs[d.hash].amount
  BY <1>3 DEF Sent, TxsKept
<1> QED
  BY <1>1, <1>2, <1>4 DEF Bookable, Sent

LEMMA SolventStep ==
    ASSUME OneExecutor, AdminsAsked, AskingWaits, TypeInv, TypeInv', MoneyInv, [Next]_vars,
           NEW c \in Seq(Snapshot), SolventPath(c)
    PROVE  \E e \in Seq(Snapshot) : SolventPath(e)' /\ Grown(c, e)
<1>1. PICK e \in Seq(Snapshot) : Path(e)' /\ Grown(c, e)
  BY PathStep DEF SolventPath
<1>2. /\ TxsKept /\ Len(txs) \in Nat /\ Len(txs') \in Nat /\ Len(txs) <= Len(txs')
      /\ DOMAIN txs = 1 .. Len(txs)
  <2>1. DOMAIN txs = 1 .. Len(txs)
    BY DEF TypeInv, TypeOK
  <2> QED
    BY <2>1, TxsStep
<1>3. \A i \in DOMAIN e : Solvent(e[i])
  BY <1>1, SolventGrown DEF MoneyInv
<1>4. \A i \in DOMAIN e : Solvent(e[i])'
  BY <1>2, <1>3, SolventKept
<1> QED
  BY <1>1, <1>4 DEF SolventPath

LEMMA MoneyStep ==
    ASSUME OneExecutor, AdminsAsked, AskingWaits, TypeInv, TypeInv', MoneyInv, [Next]_vars
    PROVE  MoneyInv'
<1>1. PICK c \in Seq(Snapshot) : SolventPath(c)
  BY DEF MoneyInv
<1>2. PICK e \in Seq(Snapshot) : SolventPath(e)'
  BY <1>1, SolventStep
<1>3. TxsKept /\ SentWhole'
  BY TxsStep DEF MoneyInv
<1>4. \A p \in Executors : Bookable(p)' /\ Rested(p)'
  <2>1. ASSUME NEW p \in Executors, Start(p) \/ Replay(p) \/ Store(p)
        PROVE  Bookable(p)' /\ Rested(p)'
    <3>1. pc'[p] = "running"
      BY <2>1, StartStep, ReplayStep, StoreStep
    <3> QED
      BY <3>1 DEF Bookable, Rested, Working
  <2>2. ASSUME NEW p \in Executors, Ends(p)
        PROVE  Bookable(p)' /\ Rested(p)'
    BY <2>2, IdleStep DEF Ends, Bookable, Rested
  <2>3. ASSUME NEW p \in Executors, NEW d \in Delta, Answered(p, d)
        PROVE  Bookable(p)' /\ Rested(p)'
    <3>1. pc[p] = "running" /\ pc'[p] = "storing"
      BY <2>3, ReturnStep DEF Answered
    <3>2. Solvent(Current(p))
      BY <1>1, <3>1, SolventEnd
    <3> QED
      BY <2>3, <3>1, <3>2, BookableAnswered DEF MoneyInv, Rested, Working
  <2>4. ASSUME OutsideStep, NEW q \in Executors
        PROVE  Bookable(q)' /\ Rested(q)'
    <3>1. Same(q)
      BY <2>4, OutsideHistory
    <3> QED
      BY <1>3, <3>1, BookableKept DEF MoneyInv, Rested, Working, Same
  <2> QED
    BY <2>1, <2>2, <2>3, <2>4, StepCases DEF OneExecutor
<1> QED
  BY <1>2, <1>3, <1>4 DEF MoneyInv

LEMMA MoneySolvent ==
    ASSUME TypeInv, MoneyInv
    PROVE  NoOverdraft
<1> SUFFICES ASSUME NEW p \in Executors, NEW i \in DOMAIN hist[p]
             PROVE  hist[p][i].coin >= Absent /\ hist[p][i].fiat >= Absent
  BY DEF NoOverdraft
<1>1. PICK c \in Seq(Snapshot) : SolventPath(c)
  BY DEF MoneyInv
<1>2. Working(p)
  <2>1. hist[p] # << >>
    OBVIOUS
  <2> QED
    BY <2>1 DEF MoneyInv, Rested
<1>3. i \in DOMAIN c /\ hist[p][i] = c[i]
  <2>1. hist[p][i] = c[i]
    BY <1>1, <1>2 DEF SolventPath, Path, Along
  <2>2. /\ Len(hist[p]) \in Nat /\ DOMAIN hist[p] = 1 .. Len(hist[p])
        /\ Len(hist[p]) \in DOMAIN c /\ DOMAIN c = 1 .. Len(c) /\ Len(c) \in Nat
    BY <1>1, <1>2, AlongEnd, TrailEnd DEF SolventPath, Path, Working
  <2> QED
    BY <2>1, <2>2
<1> QED
  BY <1>1, <1>3 DEF SolventPath, Solvent

\* No balance one executor computes is ever below zero: what is sent to the
\* client is subtracted once, from the balance it was, with whatever crashes,
\* reverted transactions and overrides of admins who are asked in between.
THEOREM BalancesHold ==
    OneExecutor /\ AdminsAsked /\ AskingWaits => (Spec => []NoOverdraft)
<1> SUFFICES ASSUME OneExecutor, AdminsAsked, AskingWaits PROVE Spec => []NoOverdraft
  OBVIOUS
<1>1. Init => TypeInv /\ MoneyInv
  BY TypeInit, MoneyInit
<1>2. TypeInv /\ MoneyInv /\ [Next]_vars => (TypeInv /\ MoneyInv)'
  BY TypeStep, MoneyStep
<1>3. TypeInv /\ MoneyInv => NoOverdraft
  BY MoneySolvent
<1> QED
  BY <1>1, <1>2, <1>3, PTL DEF Spec

-----------------------------------------------------------------------------
(***************************************************************************)
(* Coin for fiat.  In a graph funded by deposits alone every balance of    *)
(* fiat is that of a deposit at the bank, and every balance of coin is     *)
(* what one has bought: coin received is excluded by the graph, and coin   *)
(* sent leaves nothing (CoinLeft).                                         *)
(***************************************************************************)
Banked(a) == Positive(a) => \E i \in Deposits : a = bank[i].amount
Priced(a) == Positive(a) => \E i \in Deposits, r \in Rates : a = bank[i].amount \div r
Bought(s) == Priced(s.coin) /\ Banked(s.fiat)

\* No transaction of such a graph brings coin, and those that take it along
\* take what was bought.
OnlySends ==
    \A h \in DOMAIN txs :
       /\ txs[h].kind \in {"exactTransfer", "pluginRequest"}
       /\ txs[h].kind = "exactTransfer" =>
             Positive(txs[h].amount) /\ Priced(txs[h].amount)

BoughtPath(c) == SolventPath(c) /\ \A i \in DOMAIN c : Bought(c[i])

BuyInv == /\ OnlySends
          /\ \A p \in Executors : Bought(delta[p])
          /\ \E c \in Seq(Snapshot) : BoughtPath(c)

\* The bank forgets no deposit.
DepositsKept ==
    \A i \in Deposits : i \in Deposits' /\ bank'[i].amount = bank[i].amount

LEMMA BoughtNothing == \A s : s.coin = Absent /\ s.fiat = Absent => Bought(s)
<1>1. ~ Positive(Absent)
  BY DEF Positive, Absent
<1> QED
  BY <1>1 DEF Bought, Priced, Banked

LEMMA BuyInit == Init => BuyInv
<1> SUFFICES ASSUME Init PROVE BuyInv
  OBVIOUS
<1>1. PICK c \in Seq(Snapshot) : SolventPath(c)
  BY MoneyInit DEF MoneyInv
<1>2. DOMAIN c = {1} /\ c[1] = InitialSnapshot
  <2>1. stored = << >>
    BY DEF Init
  <2>2. Len(stored) = 0
    BY <2>1
  <2> QED
    BY <1>1, <2>2 DEF SolventPath, Path, Trail
<1>3. Bought(InitialSnapshot)
  <2>1. InitialSnapshot.coin = Absent /\ InitialSnapshot.fiat = Absent
    BY DEF InitialSnapshot
  <2> QED
    BY <2>1, BoughtNothing
<1>4. \A p \in Executors : Bought(delta[p])
  <2>1. \A p \in Executors : delta[p] = NoDelta
    BY DEF Init, NoDelta
  <2>2. NoDelta.coin = Absent /\ NoDelta.fiat = Absent
    BY DEF NoDelta, Plain
  <2> QED
    BY <2>1, <2>2, BoughtNothing
<1>5. OnlySends
  <2>1. txs = << >>
    BY DEF Init, WorldInit
  <2>2. DOMAIN txs = {}
    BY <2>1
  <2> QED
    BY <2>2 DEF OnlySends
<1> QED
  BY <1>1, <1>2, <1>3, <1>4, <1>5 DEF BuyInv, BoughtPath

LEMMA DepositsStep ==
    ASSUME TypeInv, [Next]_vars
    PROVE  DepositsKept
<1>1. CASE bank' = bank
  BY <1>1 DEF DepositsKept, Deposits
<1>2. ASSUME NEW b \in BankRecord, bank' = Append(bank, b)
      PROVE  DepositsKept
  <2>1. /\ DOMAIN bank = 1 .. Len(bank) /\ DOMAIN bank' = 1 .. Len(bank) + 1
        /\ \A i \in 1 .. Len(bank) : bank'[i] = bank[i] /\ i \in DOMAIN bank'
    BY <1>2, Appended DEF TypeInv, TypeOK
  <2> QED
    BY <2>1 DEF DepositsKept, Deposits
<1>3. CASE \E p \in Executors : Start(p) \/ Replay(p) \/ Store(p) \/ Ends(p)
  BY <1>1, <1>3 DEF Start, Replay, Store, Ends, world
<1>4. CASE \E p \in Executors : \E d \in Delta : Answered(p, d)
  BY <1>1, <1>2, <1>4 DEF Answered, Answer, MovesNone, SendsFor, PaysFor
<1>5. CASE OutsideStep
  BY <1>1, <1>5, OutsideHistory
<1> QED
  BY <1>3, <1>4, <1>5, StepCases

LEMMA BoughtKept ==
    ASSUME DepositsKept
    PROVE  /\ \A a : Priced(a) => Priced(a)'
           /\ \A s : Bought(s) => Bought(s)'
<1>1. \A a : Priced(a) => Priced(a)'
  BY DEF DepositsKept, Priced
<1>2. \A a : Banked(a) => Banked(a)'
  BY DEF DepositsKept, Banked
<1> QED
  BY <1>1, <1>2 DEF Bought

\* What such a graph computes is bought, or the deposit it has just made.
LEMMA ComputesBought ==
    ASSUME TypeInv, CoinInv, MoneyInv, BuyInv, FiatFunded(kind), DepositsKept,
           NEW p \in Executors, NEW d \in Delta, Answered(p, d),
           Solvent(Current(p)), Bought(Current(p))
    PROVE  Bought(d)'
<1>1. PICK s \in Snapshot : s = Current(p) /\ Solvent(s) /\ Bought(s)
  BY AtWork DEF Answered
<1>2. /\ d.type \in Callbacks /\ Books(p, d) /\ Runs(kind, d.type)
      /\ MovesNone(d) \/ SendsFor(p, d) \/ PaysFor(p, d)
  BY CallRuns DEF Answered, Answer, Callbacks
<1>3. d.type \notin {"toFiat", "depositFiatManual", "handleWaitError"}
  BY <1>2 DEF FiatFunded
<1>4. ~ Positive(Absent) /\ ~ Positive(0)
  BY DEF Positive, Absent
<1>5. CASE Sets(d, Absent, Absent) \/ Sets(d, Absent, 0)
  BY <1>4, <1>5 DEF Sets, Bought, Priced, Banked
<1>6. CASE s.delta.hash # 0 /\ Sets(d, CoinAfter(s, txs[s.delta.hash]), Absent)
  <2>1. PICK h : h = s.delta.hash
    OBVIOUS
  <2>2. h \in DOMAIN txs
    BY <1>1, <1>6, <2>1 DEF Solvent, TypeInv, TypeOK
  <2>3. CoinAfter(s, txs[h]) \in {0, Absent}
    <3>1. CASE txs[h].kind = "exactTransfer"
      BY <1>1, <1>6, <2>1, <3>1, CoinLeft DEF MoneyInv
    <3>2. CASE txs[h].kind # "exactTransfer"
      <4>1. txs[h].kind = "pluginRequest" /\ txs[h] \in TxRecord
        BY <2>2, <3>2 DEF BuyInv, OnlySends, TypeInv, TypeOK
      <4>2. txs[h].moved = 0
        BY <2>2, <4>1 DEF CoinInv, MovedMined, TxRecord
      <4> QED
        BY <4>2 DEF CoinAfter
    <3> QED
      BY <3>1, <3>2
  <2> QED
    BY <1>4, <1>6, <2>1, <2>3 DEF Sets, Bought, Priced, Banked
<1>7. ASSUME NEW r \in Rates, Outstanding(s.fiat), Sets(d, s.fiat \div r, 0)
      PROVE  Bought(d)'
  <2>1. Positive(s.fiat)
    BY <1>1, <1>7 DEF Solvent, Outstanding, Positive, Absent, Snapshot, Amount
  <2>2. PICK i \in Deposits : s.fiat = bank[i].amount
    BY <1>1, <2>1 DEF Bought, Banked
  <2>3. i \in Deposits' /\ d.coin = bank'[i].amount \div r /\ d.fiat = 0
    BY <1>7, <2>2 DEF Sets, DepositsKept
  <2> QED
    BY <1>4, <2>3 DEF Bought, Priced, Banked
<1>8. CASE Ok(d) /\ d.type = "depositFiat" /\ Sets(d, Absent, Value)
  <2>1. PICK b \in BankRecord : /\ bank' = Append(bank, b)
                               /\ b.kind = "depositETransfer" /\ b.amount = Value
    <3>1. ~ MovesNone(d)
      BY <1>8 DEF MovesNone, Movers
    <3>2. ~ SendsFor(p, d)
      BY <1>8 DEF SendsFor, Caller, TxRecord, TxKinds
    <3> QED
      BY <1>2, <1>8, <3>1, <3>2 DEF PaysFor
  <2>2. Len(bank) + 1 \in DOMAIN bank' /\ bank'[Len(bank) + 1] = b
    BY <2>1, Appended DEF TypeInv, TypeOK
  <2>3. Len(bank) + 1 \in Deposits'
    BY <2>1, <2>2 DEF Deposits
  <2> QED
    BY <1>4, <1>8, <2>1, <2>2, <2>3 DEF Sets, Bought, Priced, Banked
<1> QED
  BY <1>1, <1>2, <1>3, <1>5, <1>6, <1>7, <1>8 DEF Books

LEMMA SendsStep ==
    ASSUME TypeInv, OnlySends, AskedFor, FiatFunded(kind), DepositsKept, [Next]_vars,
           \A p \in Executors : Working(p) => Bought(Current(p))
    PROVE  OnlySends'
<1>1. /\ txs \in Seq(TxRecord) /\ Len(txs) \in Nat /\ DOMAIN txs = 1 .. Len(txs)
  BY DEF TypeInv, TypeOK
<1>2. CASE txs' = txs
  BY <1>2, BoughtKept DEF OnlySends
<1>3. ASSUME NEW h \in DOMAIN txs, Mine(h) \/ Revert(h)
      PROVE  OnlySends'
  BY <1>3, Included, BoughtKept DEF OnlySends
<1>4. ASSUME StrangerProcesses
      PROVE  FALSE
  <2>1. PICK h \in DOMAIN txs : txs[h].kind = "uberTransfer"
    BY <1>4 DEF StrangerProcesses, Registered, Mined
  <2> QED
    BY <2>1 DEF OnlySends
<1>5. ASSUME NEW p \in Executors, NEW d \in Delta, Answered(p, d), SendsFor(p, d)
      PROVE  OnlySends'
  <2>1. PICK tx \in TxRecord :
           /\ txs' = Append(txs, tx) /\ d.type = Caller[tx.kind]
           /\ tx.kind = "exactTransfer" => /\ Positive(Current(p).coin)
                                          /\ tx.amount = Current(p).coin
    BY <1>5 DEF SendsFor
  <2>2. Runs(kind, d.type) /\ Working(p)
    BY <1>5, CallRuns DEF Answered, Answer, Callbacks, Working
  <2>3. d.type \notin {"depositCoin", "uberDepositCoin", "uberClearPending"}
    BY <2>2 DEF FiatFunded
  <2>4. tx.kind \in {"exactTransfer", "pluginRequest"}
    BY <2>1, <2>3 DEF Caller, TxRecord, TxKinds
  <2>5. tx.kind = "exactTransfer" => Positive(tx.amount) /\ Priced(tx.amount)'
    BY <2>1, <2>2, BoughtKept DEF Bought
  <2>6. /\ DOMAIN txs' = 1 .. Len(txs) + 1 /\ txs'[Len(txs) + 1] = tx
        /\ \A h \in 1 .. Len(txs) : txs'[h] = txs[h]
    BY <1>1, <2>1, Appended
  <2>7. \A h \in DOMAIN txs' : h \in DOMAIN txs \/ h = Len(txs) + 1
    BY <1>1, <2>6
  <2> QED
    BY <1>1, <2>4, <2>5, <2>6, <2>7, BoughtKept DEF OnlySends
<1>6. CASE \E p \in Executors : Start(p) \/ Replay(p) \/ Store(p) \/ Ends(p)
  BY <1>2, <1>6 DEF Start, Replay, Store, Ends, world
<1>7. CASE \E p \in Executors : \E d \in Delta : Answered(p, d)
  BY <1>2, <1>5, <1>7 DEF Answered, Answer, MovesNone, PaysFor
<1>8. CASE OutsideStep
  <2>1. \/ txs' = txs \/ StrangerProcesses
        \/ \E h \in DOMAIN txs : Mine(h) \/ Revert(h)
    BY <1>8 DEF OutsideStep, Environment, WorldNext, Settle, LockExpires,
       AdminOverride, ETransferReturned, vars, world
  <2> QED
    BY <1>2, <1>3, <1>4, <2>1
<1> QED
  BY <1>6, <1>7, <1>8, StepCases

LEMMA BoughtGrown ==
    ASSUME TypeInv, NEW c \in Seq(Snapshot), \A i \in DOMAIN c : Bought(c[i]),
           \A p \in Executors : Bought(delta[p]), NEW e, Grown(c, e)
    PROVE  \A i \in DOMAIN e : Bought(e[i])
<1> SUFFICES ASSUME NEW i \in DOMAIN e PROVE Bought(e[i])
  OBVIOUS
<1>1. ASSUME NEW j \in DOMAIN c, NEW d \in Delta, e[i] = Advanced(c[j], d, j),
             Unpaid(d) \/ Stored(c[j], d)
      PROVE  Bought(e[i])
  <2>1. /\ e[i].coin = Merged(d.coin, c[j].coin)
        /\ e[i].fiat = Merged(d.fiat, c[j].fiat)
    BY <1>1 DEF Advanced, Reduced
  <2>2. Bought(d) /\ Bought(c[j])
    BY <1>1, BoughtNothing DEF Unpaid, Stored
  <2> QED
    BY <2>1, <2>2 DEF Bought, Merged
<1> QED
  BY <1>1, GrownEach

LEMMA BuyStep ==
    ASSUME OneExecutor, AdminsAsked, AskingWaits, TypeInv, TypeInv', CoinInv, MoneyInv, BuyInv,
           FiatFunded(kind), [Next]_vars
    PROVE  BuyInv'
<1>1. PICK c \in Seq(Snapshot) : BoughtPath(c)
  BY DEF BuyInv
<1>2. PICK e \in Seq(Snapshot) : SolventPath(e)' /\ Grown(c, e)
  BY <1>1, SolventStep DEF BoughtPath
<1>3. DepositsKept
  BY DepositsStep
<1>4. \A i \in DOMAIN e : Bought(e[i])'
  <2>1. \A i \in DOMAIN e : Bought(e[i])
    BY <1>1, <1>2, BoughtGrown DEF BuyInv, BoughtPath
  <2> QED
    BY <1>3, <2>1, BoughtKept
<1>5. ASSUME NEW p \in Executors, pc[p] # "idle"
      PROVE  Bought(Current(p)) /\ Solvent(Current(p))
  <2>1. Len(hist[p]) \in DOMAIN c /\ Current(p) = c[Len(hist[p])]
    BY <1>1, <1>5, AlongEnd DEF BoughtPath, SolventPath, Path
  <2> QED
    BY <1>1, <2>1 DEF BoughtPath, SolventPath
<1>6. OnlySends'
  BY <1>3, <1>5, SendsStep DEF BuyInv, CoinInv, Working
<1>7. ASSUME NEW q \in Executors
      PROVE  Bought(delta[q])'
  <2>1. CASE delta'[q] = delta[q]
    BY <1>3, <2>1, BoughtKept DEF BuyInv
  <2>2. CASE delta'[q] = NoDelta
    <3>1. NoDelta.coin = Absent /\ NoDelta.fiat = Absent
      BY DEF NoDelta, Plain
    <3>2. Bought(NoDelta)
      BY <3>1, BoughtNothing
    <3> QED
      BY <1>3, <2>2, <3>2, BoughtKept
  <2>3. ASSUME NEW d \in Delta, Answered(q, d)
        PROVE  Bought(delta[q])'
    <3>1. pc[q] # "idle" /\ delta'[q] = d
      BY <2>3, ReturnStep DEF Answered
    <3>2. Bought(d)'
      BY <1>3, <1>5, <2>3, <3>1, ComputesBought
    <3> QED
      BY <3>1, <3>2
  <2>4. CASE Start(q) \/ Replay(q) \/ Store(q) \/ Ends(q)
    BY <2>1, <2>2, <2>4, StartStep, ReplayStep, StoreStep, IdleStep DEF Ends
  <2>5. CASE OutsideStep
    BY <2>1, <2>5, OutsideHistory DEF Same
  <2> QED
    BY <2>3, <2>4, <2>5, StepCases DEF OneExecutor
<1> QED
  BY <1>2, <1>4, <1>6, <1>7 DEF BuyInv, BoughtPath

\* One executor sends coin to a client only for fiat that is in the bank, and
\* never more than a deposit buys, in every graph whose fiat is deposits': no
\* transfer is submitted before, by any replay, crash or override on request.
THEOREM CoinForDeposits ==
    OneExecutor /\ AdminsAsked /\ AskingWaits /\ (\A k \in DOMAIN Graphs : SendsForFiat(k))
       => (Spec => []CoinOnlyAfterFiat)
<1> SUFFICES ASSUME OneExecutor, AdminsAsked, AskingWaits, \A k \in DOMAIN Graphs : SendsForFiat(k)
             PROVE  Spec => []CoinOnlyAfterFiat
  OBVIOUS
<1> DEFINE Inv == /\ TypeInv /\ CoinInv /\ MoneyInv
                  /\ FiatFunded(kind) => BuyInv
<1>1. Init => Inv
  BY TypeInit, CoinInit, MoneyInit, BuyInit
<1>2. Inv /\ [Next]_vars => Inv'
  <2> SUFFICES ASSUME Inv, [Next]_vars PROVE Inv'
    OBVIOUS
  <2>1. TypeInv' /\ CoinInv'
    BY TypeStep, CoinStep
  <2>2. MoneyInv'
    BY <2>1, MoneyStep
  <2>3. FiatFunded(kind)' => BuyInv'
    <3>1. FiatFunded(kind)' <=> FiatFunded(kind)
      BY StepTxs DEF FiatFunded, Runs
    <3> QED
      BY <2>1, <3>1, BuyStep
  <2> QED
    BY <2>1, <2>2, <2>3
<1>3. Inv => CoinOnlyAfterFiat
  <2> SUFFICES ASSUME Inv, NEW h \in DOMAIN txs, txs[h].kind = "exactTransfer"
               PROVE  \E i \in Deposits, r \in Rates : txs[h].amount = bank[i].amount \div r
    BY DEF CoinOnlyAfterFiat
  <2>1. Runs(kind, "sendCoin")
    BY DEF CoinInv, AskedFor, Caller
  <2>2. FiatFunded(kind)
    BY <2>1 DEF SendsForFiat, TypeInv, TypeOK
  <2> QED
    BY <2>2 DEF BuyInv, OnlySends, Priced
<1> QED
  BY <1>1, <1>2, <1>3, PTL DEF Spec

-----------------------------------------------------------------------------
(***************************************************************************)
(* Refunds.  From the error of a returned e-transfer on, the path stays    *)
(* among the states that take a sale back, which end in `complete' by one  *)
(* way: the coin has been sent, and the transaction found in a block.  An  *)
(* admin could lead it out of there, so this is about actions without an   *)
(* override.                                                               *)
(***************************************************************************)
Sale == Graph = SellGraph
Reverting == {"revertBegin", "revertConverted", "revertReady", "revertWaiting",
              "revertComplete", "complete", "error"}

Unaided == \A i \in DOMAIN stored : stored[i].type # "manualOverride"

BackMoves == \A h \in DOMAIN txs :
                txs[h].kind = "exactTransfer" /\ txs[h].status = "mined"
                   => txs[h].moved = txs[h].amount

SentBack(h) == /\ h \in DOMAIN txs
               /\ txs[h].kind = "exactTransfer" /\ Positive(txs[h].amount)

\* A delta on its way is no return, and says what has been sent or mined.
Answering(p) ==
    pc[p] = "storing" =>
       /\ delta[p].error # "returned"
       /\ Ok(delta[p]) /\ delta[p].type = "sendCoin" => SentBack(delta[p].hash)
       /\ /\ Ok(delta[p]) /\ delta[p].type = "waitCoin"
          /\ Sale /\ Current(p).name = "revertWaiting"
          => Moved("exactTransfer")

Backed(s) == Ok(s.delta) =>
                /\ s.name = "revertWaiting" => SentBack(s.delta.hash)
                /\ s.name = "revertComplete" => Moved("exactTransfer")

Refunding(c) ==
    /\ Sale => \A i \in DOMAIN c : Backed(c[i])
    /\ \A i \in DOMAIN c : c[i].delta.error = "returned" =>
          /\ Sale /\ c[i].name = "eTransferComplete"
          /\ \A j \in DOMAIN c : i < j => c[j].name \in Reverting

RefundPath(c) == Path(c) /\ Refunding(c)

RefundInv == /\ Unaided /\ BackMoves /\ RefundCompleted
             /\ \A p \in Executors : Answering(p)
             /\ \E c \in Seq(Snapshot) : RefundPath(c)

\* What the sale's graph has that keeps the path there.
LEMMA SaleEdges ==
    ASSUME Sale, NEW s
    PROVE  /\ Due(s).run = "waitETransfer" => Due(s).to = "eTransferComplete"
           /\ Due(s).to = "revertWaiting" => Due(s).run = "sendCoin"
           /\ Due(s).to = "revertComplete" =>
                 Due(s).run = "waitCoin" /\ s.name = "revertWaiting"
           /\ s.name = "eTransferComplete" /\ ~ Ok(s.delta) =>
                 Due(s).run = "handleWaitError" /\ Due(s).to = "revertBegin"
           /\ s.name \in Reverting /\ Due(s).run \notin {"", "manualOverride"} =>
                 /\ Due(s).to \in Reverting
                 /\ Due(s).run = "markComplete" => s.name = "revertComplete" /\ Ok(s.delta)
<1>1. Graph = SellGraph
  BY DEF Sale
<1>2. DOMAIN SellGraph =
         {"initial", "tcReady", "tcWaiting", "tcResult", "converted", "eTransferReady",
          "eTransferSent", "eTransferComplete", "revertBegin", "revertConverted",
          "revertReady", "revertWaiting", "revertComplete", "error", "cancelled",
          "complete"}
  BY DEF SellGraph
<1>3. CASE s.name \notin DOMAIN SellGraph
  <2>1. Due(s) = NoEdge
    BY <1>1, <1>3 DEF Due
  <2>2. NoEdge.run = "" /\ NoEdge.to = ""
    BY DEF NoEdge
  <2>3. s.name # "eTransferComplete"
    BY <1>2, <1>3
  <2> QED
    BY <2>1, <2>2, <2>3
<1>4. PICK name : name = s.name
  OBVIOUS
<1>5. PICK ok \in BOOLEAN : ok <=> Ok(s.delta)
  BY DEF Ok
<1>6. PICK e : e = Due(s)
  OBVIOUS
<1>7. CASE name \in DOMAIN SellGraph
  <2>1. e = IF ~ ok THEN SellGraph[name].onError ELSE SellGraph[name].next
    BY <1>1, <1>4, <1>5, <1>6, <1>7 DEF Due, Ok
  <2> SUFFICES
         /\ e.run = "waitETransfer" => e.to = "eTransferComplete"
         /\ e.to = "revertWaiting" => e.run = "sendCoin"
         /\ e.to = "revertComplete" => e.run = "waitCoin" /\ name = "revertWaiting"
         /\ name = "eTransferComplete" /\ ~ ok =>
               e.run = "handleWaitError" /\ e.to = "revertBegin"
         /\ name \in Reverting /\ e.run \notin {"", "manualOverride"} =>
               /\ e.to \in Reverting
               /\ e.run = "markComplete" => name = "revertComplete" /\ ok
    BY <1>4, <1>5, <1>6
  <2> DEFINE Goes(call, to, handler, toError) ==
               /\ e.run = IF ok THEN call ELSE handler
               /\ e.to = IF ok THEN to ELSE toError
  <2>2. CASE name = "initial"
    <3>1. Goes("preTransfer", "tcReady", "", "")
      BY <2>1, <2>2 DEF SellGraph, Plainly, Leads, NoEdge
    <3> QED
      BY <2>2, <3>1 DEF Reverting
  <2>3. CASE name = "tcReady"
    <3>1. Goes("depositCoin", "tcWaiting", "requestManual", "error")
      BY <2>1, <2>3 DEF SellGraph, Watched, Leads
    <3> QED
      BY <2>3, <3>1 DEF Reverting
  <2>4. CASE name = "tcWaiting"
    <3>1. Goes("waitCoin", "tcResult", "requestManual", "error")
      BY <2>1, <2>4 DEF SellGraph, Watched, Leads
    <3> QED
      BY <2>4, <3>1 DEF Reverting
  <2>5. CASE name = "tcResult"
    <3>1. Goes("toFiat", "converted", "requestManual", "error")
      BY <2>1, <2>5 DEF SellGraph, Watched, Leads
    <3> QED
      BY <2>5, <3>1 DEF Reverting
  <2>6. CASE name = "converted"
    <3>1. Goes("preTransfer", "eTransferReady", "requestManual", "error")
      BY <2>1, <2>6 DEF SellGraph, Watched, Leads
    <3> QED
      BY <2>6, <3>1 DEF Reverting
  <2>7. CASE name = "eTransferReady"
    <3>1. Goes("sendETransfer", "eTransferSent", "", "")
      BY <2>1, <2>7 DEF SellGraph, Plainly, Leads, NoEdge
    <3> QED
      BY <2>7, <3>1 DEF Reverting
  <2>8. CASE name = "eTransferSent"
    <3>1. Goes("waitETransfer", "eTransferComplete", "requestManual", "error")
      BY <2>1, <2>8 DEF SellGraph, Watched, Leads
    <3> QED
      BY <2>8, <3>1 DEF Reverting
  <2>9. CASE name = "eTransferComplete"
    <3>1. Goes("markComplete", "complete", "handleWaitError", "revertBegin")
      BY <2>1, <2>9 DEF SellGraph, Leads
    <3> QED
      BY <2>9, <3>1 DEF Reverting
  <2>10. CASE name = "revertBegin"
    <3>1. Goes("toCoin", "revertConverted", "requestManual", "error")
      BY <2>1, <2>10 DEF SellGraph, Watched, Leads
    <3> QED
      BY <2>10, <3>1 DEF Reverting
  <2>11. CASE name = "revertConverted"
    <3>1. Goes("preTransfer", "revertReady", "requestManual", "error")
      BY <2>1, <2>11 DEF SellGraph, Watched, Leads
    <3> QED
      BY <2>11, <3>1 DEF Reverting
  <2>12. CASE name = "revertReady"
    <3>1. Goes("sendCoin", "revertWaiting", "requestManual", "error")
      BY <2>1, <2>12 DEF SellGraph, Watched, Leads
    <3> QED
      BY <2>12, <3>1 DEF Reverting
  <2>13. CASE name = "revertWaiting"
    <3>1. Goes("waitCoin", "revertComplete", "requestManual", "error")
      BY <2>1, <2>13 DEF SellGraph, Watched, Leads
    <3> QED
      BY <2>13, <3>1 DEF Reverting
  <2>14. CASE name = "revertComplete"
    <3>1. Goes("markComplete", "complete", "requestManual", "error")
      BY <2>1, <2>14 DEF SellGraph, Watched, Leads
    <3> QED
      BY <2>14, <3>1 DEF Reverting
  <2>15. CASE name = "error"
    <3>1. Goes("manualOverride", "", "", "")
      BY <2>1, <2>15 DEF SellGraph, Override, Plainly, Leads, NoEdge
    <3> QED
      BY <2>15, <3>1 DEF Reverting
  <2>16. CASE name = "cancelled"
    <3>1. Goes("markComplete", "complete", "", "")
      BY <2>1, <2>16 DEF SellGraph, Plainly, Leads, NoEdge
    <3> QED
      BY <2>16, <3>1 DEF Reverting
  <2>17. CASE name = "complete"
    <3>1. Goes("", "", "", "")
      BY <2>1, <2>17 DEF SellGraph, Final, NoEdge
    <3> QED
      BY <2>17, <3>1 DEF Reverting
  <2> QED
    BY <1>2, <1>7, <2>2, <2>3, <2>4, <2>5, <2>6, <2>7, <2>8, <2>9, <2>10, <2>11, <2>12, <2>13, <2>14, <2>15, <2>16, <2>17
<1> QED
  BY <1>3, <1>4, <1>5, <1>6, <1>7
\* What is mined stays as it is, and a mined transfer to the client has moved
\* all of its amount.
LEMMA MinedStep ==
    ASSUME TypeInv, [Next]_vars
    PROVE  /\ \A h \in DOMAIN txs :
                 txs[h].status = "mined" => h \in DOMAIN txs' /\ txs'[h] = txs[h]
           /\ BackMoves => BackMoves'
<1>1. txs \in Seq(TxRecord)
  BY DEF TypeInv, TypeOK
<1>2. CASE txs' = txs
  BY <1>2 DEF BackMoves
<1>3. ASSUME NEW tx \in TxRecord, txs' = Append(txs, tx),
             ~ (tx.kind = "exactTransfer" /\ tx.status = "mined")
      PROVE  /\ \A h \in DOMAIN txs : h \in DOMAIN txs' /\ txs'[h] = txs[h]
             /\ BackMoves => BackMoves'
  <2>1. PICK n \in Nat :
           /\ n \notin DOMAIN txs /\ DOMAIN txs' = DOMAIN txs \cup {n}
           /\ \A h \in DOMAIN txs : txs'[h] = txs[h]
           /\ txs'[n] = tx
    BY <1>3, Extended
  <2> QED
    BY <1>3, <2>1 DEF BackMoves
<1>4. CASE SendsOne
  BY <1>3, <1>4 DEF SendsOne
<1>5. CASE StrangerProcesses
  <2> DEFINE tx == [kind |-> "processPending", amount |-> Value,
                    moved |-> Value, status |-> "mined", lock |-> 0]
  <2>1. tx \in TxRecord /\ txs' = Append(txs, tx) /\ tx.kind = "processPending"
    BY <1>5, WorldAssumption DEF WorldAssumption, TxRecord, TxKinds, StrangerProcesses
  <2> HIDE DEF tx
  <2> QED
    BY <1>3, <2>1
<1>6. ASSUME NEW h \in DOMAIN txs, Mine(h) \/ Revert(h)
      PROVE  /\ \A g \in DOMAIN txs :
                   txs[g].status = "mined" => g \in DOMAIN txs' /\ txs'[g] = txs[g]
             /\ BackMoves => BackMoves'
  <2>1. /\ txs[h].status = "pending" /\ DOMAIN txs' = DOMAIN txs
        /\ \A g \in DOMAIN txs \ {h} : txs'[g] = txs[g]
    BY <1>1, <1>6 DEF Mine, Revert
  <2>2. /\ txs'[h].kind = txs[h].kind /\ txs'[h].amount = txs[h].amount
        /\ txs'[h].status = "mined" => txs'[h].moved = Moves(txs[h])
    <3>1. txs[h] \in TxRecord
      BY <1>1
    <3>2. CASE Mine(h)
      <4>1. txs'[h] = [txs[h] EXCEPT !.status = "mined", !.moved = Moves(txs[h])]
        BY <1>1, <3>2 DEF Mine
      <4> QED
        BY <3>1, <4>1 DEF TxRecord
    <3>3. CASE Revert(h)
      <4>1. txs'[h] = [txs[h] EXCEPT !.status = "failed"]
        BY <1>1, <3>3 DEF Revert
      <4> QED
        BY <3>1, <4>1 DEF TxRecord
    <3> QED
      BY <1>6, <3>2, <3>3
  <2>3. txs[h].kind = "exactTransfer" => Moves(txs[h]) = txs[h].amount
    BY DEF Moves
  <2> QED
    BY <2>1, <2>2, <2>3 DEF BackMoves
<1> QED
  BY <1>2, <1>3, <1>4, <1>5, <1>6, StepTxs

\* What was sent or has moved to the client stays so.
BackKept == /\ Moved("exactTransfer") => Moved("exactTransfer")'
            /\ \A h : SentBack(h) => SentBack(h)'

LEMMA BackStep ==
    ASSUME TypeInv, TypeInv', [Next]_vars
    PROVE  BackKept
<1>1. Moved("exactTransfer") => Moved("exactTransfer")'
  <2> SUFFICES ASSUME Moved("exactTransfer") PROVE Moved("exactTransfer")'
    OBVIOUS
  <2>1. PICK h \in DOMAIN txs : /\ txs[h].kind = "exactTransfer" /\ txs[h].status = "mined"
                               /\ txs[h].moved > 0
    BY DEF Moved, Mined
  <2>2. h \in DOMAIN txs' /\ txs'[h] = txs[h]
    BY <2>1, MinedStep
  <2> QED
    BY <2>1, <2>2 DEF Moved, Mined
<1>2. \A h : SentBack(h) => SentBack(h)'
  BY TxsStep DEF TxsKept, SentBack
<1> QED
  BY <1>1, <1>2 DEF BackKept

LEMMA RefundInit == Init => RefundInv
<1> SUFFICES ASSUME Init PROVE RefundInv
  OBVIOUS
<1>1. /\ DOMAIN txs = {} /\ DOMAIN stored = {} /\ Len(stored) = 0 /\ listed
      /\ \A p \in Executors : pc[p] = "idle"
  <2>1. txs = << >> /\ stored = << >> /\ listed /\ \A p \in Executors : pc[p] = "idle"
    BY DEF Init, WorldInit
  <2>2. DOMAIN txs = {} /\ DOMAIN stored = {} /\ Len(stored) = 0
    BY <2>1
  <2> QED
    BY <2>1, <2>2
<1>2. Unaided /\ BackMoves /\ RefundCompleted /\ \A p \in Executors : Answering(p)
  BY <1>1 DEF Unaided, BackMoves, RefundCompleted, Answering
<1>3. PICK c \in Seq(Snapshot) : Path(c)
  BY PathInit DEF PathInv
<1>4. DOMAIN c = {1} /\ c[1] = InitialSnapshot
  BY <1>1, <1>3 DEF Path, Trail
<1>5. InitialSnapshot.name = "initial" /\ InitialSnapshot.delta.error = ""
  BY DEF InitialSnapshot, Plain
<1>6. Refunding(c)
  BY <1>4, <1>5 DEF Refunding, Backed
<1> QED
  BY <1>2, <1>3, <1>6 DEF RefundInv, RefundPath

-----------------------------------------------------------------------------
(* What a step does to a sale that is taken back.                          *)

\* No admin writes, so what the history holds the graph has run.
LEMMA UnaidedStep ==
    ASSUME MaxOverrides = 0, OneExecutor, TypeInv, TypeInv', Unaided, [Next]_vars,
           NEW c \in Seq(Snapshot), Path(c)
    PROVE  Unaided'
<1>1. stored \in Seq(Delta) /\ stored' \in Seq(Delta)
  BY DEF TypeInv, TypeOK
<1>2. CASE stored' = stored
  BY <1>2 DEF Unaided
<1>3. ASSUME NEW p \in Executors, Store(p)
      PROVE  Unaided'
  <2>1. stored' = Append(stored, delta[p]) /\ delta[p] \in Delta
    BY <1>3 DEF Store, TypeInv, TypeOK
  <2>2. delta[p].type # "manualOverride"
    BY <1>3 DEF Path, Along, Store
  <2>3. /\ DOMAIN stored = 1 .. Len(stored) /\ DOMAIN stored' = 1 .. Len(stored) + 1
        /\ Len(stored) \in Nat
        /\ \A i \in 1 .. Len(stored) : stored'[i] = stored[i]
        /\ stored'[Len(stored) + 1] = delta[p]
    BY <1>1, <2>1, Appended
  <2>4. \A i \in DOMAIN stored' : i \in DOMAIN stored \/ i = Len(stored) + 1
    BY <2>3
  <2> QED
    BY <2>2, <2>3, <2>4 DEF Unaided
<1>4. CASE ETransferReturned
  <2>1. /\ DOMAIN stored' = 1 .. Len(stored) - 1 /\ Len(stored) > 2
        /\ \A i \in 1 .. Len(stored) - 2 : i \in DOMAIN stored /\ stored'[i] = stored[i]
        /\ stored'[Len(stored) - 1].type = "waitETransfer"
    BY <1>4, ReturnedTail
  <2>2. Len(stored) \in Nat
    BY <1>1
  <2>3. \A i \in DOMAIN stored' : i \in 1 .. Len(stored) - 2 \/ i = Len(stored) - 1
    BY <2>1, <2>2
  <2> QED
    BY <2>1, <2>3 DEF Unaided
<1>5. CASE OutsideStep
  <2>1. \A s : ~ AdminOverride(s)
    BY DEF AdminOverride, TypeInv, TypeOK
  <2>2. stored' = stored \/ ETransferReturned
    BY <1>5, <2>1 DEF OutsideStep, Environment, WorldNext, LockExpires, vars, store
  <2> QED
    BY <1>2, <1>4, <2>2
<1>6. CASE \E p \in Executors : Start(p) \/ Replay(p) \/ Ends(p)
  BY <1>2, <1>6 DEF Start, Replay, Ends, store
<1>7. CASE \E p \in Executors : \E d \in Delta : Answered(p, d)
  BY <1>2, <1>7, ReturnStep DEF Answered
<1> QED
  BY <1>3, <1>5, <1>6, <1>7, StepCases

LEMMA RefundingKept ==
    ASSUME BackKept, kind' = kind, NEW c, Refunding(c)
    PROVE  Refunding(c)'
<1>1. Sale' <=> Sale
  BY DEF Sale, Graph
<1>2. \A s : Backed(s) => Backed(s)'
  BY DEF Backed, BackKept
<1> QED
  BY <1>1, <1>2 DEF Refunding

\* The snapshot a delta leads to, when it is stored or the return of a sale.
LEMMA RefundingEnd ==
    ASSUME OnlySalesReturn, TypeInv, \A p \in Executors : Answering(p),
           NEW s \in Snapshot, NEW d \in Delta, NEW n,
           Follows(s, d), d.type # "manualOverride",
           Stored(s, d) \/ Returning(s, d)
    PROVE  LET t == Advanced(s, d, n)
           IN  /\ Sale => Backed(t)
               /\ t.delta.error = "returned" => Sale /\ t.name = "eTransferComplete"
               /\ Sale /\ s.delta.error = "returned" /\ s.name = "eTransferComplete"
                     => t.name \in Reverting
               /\ Sale /\ s.name \in Reverting => t.name \in Reverting
<1> DEFINE t == Advanced(s, d, n)
<1>1. t.delta = d /\ t.name = Due(s).to /\ d.type = Due(s).run
  BY DEF Advanced, Reduced, Follows
<1> HIDE DEF t
<1>2. Sale => Backed(t)
  <2> SUFFICES ASSUME Sale, Ok(d)
               PROVE  /\ t.name = "revertWaiting" => SentBack(d.hash)
                      /\ t.name = "revertComplete" => Moved("exactTransfer")
    BY <1>1 DEF Backed
  <2>1. PICK p \in Executors : pc[p] = "storing" /\ d = delta[p] /\ s = Current(p)
    BY DEF Stored, Returning, Ok
  <2>2. t.name = "revertWaiting" => d.type = "sendCoin"
    BY <1>1, SaleEdges
  <2>3. t.name = "revertComplete" => d.type = "waitCoin" /\ s.name = "revertWaiting"
    BY <1>1, SaleEdges
  <2> QED
    BY <2>1, <2>2, <2>3 DEF Answering
<1>3. ASSUME d.error = "returned"
      PROVE  Sale /\ t.name = "eTransferComplete"
  <2>1. Returning(s, d)
    BY <1>3 DEF Stored, Answering
  <2>2. Due(s).run = "waitETransfer"
    BY <2>1 DEF Returning
  <2>3. /\ s.name \in DOMAIN Graphs[kind] /\ kind \in DOMAIN Graphs
        /\ Due(s) \in {Graphs[kind][s.name].next, Graphs[kind][s.name].onError}
    BY <2>2, DueEdge DEF Graph, TypeInv, TypeOK
  <2>4. Runs(kind, "waitETransfer")
    BY <2>2, <2>3 DEF Runs
  <2>5. Sale
    BY <2>3, <2>4 DEF OnlySalesReturn, Sale, Graph
  <2> QED
    BY <1>1, <2>2, <2>5, SaleEdges
<1>4. Sale /\ s.delta.error = "returned" /\ s.name = "eTransferComplete"
         => t.name \in Reverting
  <2>1. s.delta.error = "returned" => ~ Ok(s.delta)
    BY DEF Ok
  <2> QED
    BY <1>1, <2>1, SaleEdges DEF Reverting
<1>5. Sale /\ s.name \in Reverting => t.name \in Reverting
  <2>1. Due(s).run # ""
    <3>1. Due(s) # NoEdge /\ Due(s) \in Edge
      BY DueType DEF Follows, Stops
    <3> QED
      BY <3>1 DEF Edge, Callbacks
  <2> QED
    BY <1>1, <2>1, SaleEdges
<1> QED
  BY <1>1, <1>2, <1>3, <1>4, <1>5 DEF t

LEMMA RefundingGrown ==
    ASSUME OnlySalesReturn, TypeInv, TypeInv', \A p \in Executors : Answering(p),
           Unaided', NEW c \in Seq(Snapshot), RefundPath(c),
           NEW e \in Seq(Snapshot), Path(e)', Grown(c, e), kind' = kind
    PROVE  Refunding(e)
<1>1. CASE e = c
  BY <1>1 DEF RefundPath
<1>2. ASSUME NEW n \in DOMAIN c, NEW d \in Delta, Extends(c, e, n, d),
             Stored(c[n], d) \/ Returning(c[n], d) \/ d.type = "manualOverride"
      PROVE  Refunding(e)
  <2>1. /\ n \in Nat /\ n >= 1 /\ DOMAIN e = 1 .. n + 1 /\ Len(e) = n + 1
        /\ c[n] \in Snapshot
    BY <1>2 DEF Extends
  <2>2. n \in DOMAIN stored' /\ DOMAIN stored' = 1 .. n
    <3>1. Len(e) = Len(stored') + 1
      BY DEF Path, Trail
    <3>2. Len(stored') \in Nat /\ DOMAIN stored' = 1 .. Len(stored')
      BY DEF TypeInv, TypeOK
    <3> QED
      BY <2>1, <3>1, <3>2
  <2>3. PICK s, t : s \in Snapshot /\ s = c[n] /\ t = Advanced(c[n], d, n)
    BY <2>1
  <2>4. e[n] = s /\ e[n + 1] = t
    BY <1>2, <2>1, <2>3 DEF Extends
  <2>5. Follows(s, stored'[n]) /\ e[n + 1].delta = stored'[n]
    <3>1. Follows(e[n], stored[n])' /\ (e[n + 1] = Advanced(e[n], stored[n], n))'
      BY <2>2 DEF Path, Trail
    <3>2. Follows(s, stored'[n]) /\ t = Advanced(s, stored'[n], n)
      BY <2>4, <3>1, DueKept
    <3> QED
      BY <2>4, <3>2 DEF Advanced, Reduced
  <2>6. stored'[n] = d /\ d.type # "manualOverride"
    BY <2>2, <2>3, <2>4, <2>5 DEF Advanced, Reduced, Unaided
  <2>7. /\ Sale => Backed(t)
        /\ t.delta.error = "returned" => Sale /\ t.name = "eTransferComplete"
        /\ Sale /\ s.delta.error = "returned" /\ s.name = "eTransferComplete"
              => t.name \in Reverting
        /\ Sale /\ s.name \in Reverting => t.name \in Reverting
    BY <1>2, <2>3, <2>5, <2>6, RefundingEnd
  <2>8. \A i \in DOMAIN e : (i \in 1 .. n /\ i \in DOMAIN c /\ e[i] = c[i]) \/ i = n + 1
    BY <1>2, <2>1 DEF Extends
  <2>9. Sale => \A i \in DOMAIN e : Backed(e[i])
    BY <2>4, <2>7, <2>8 DEF RefundPath, Refunding
  <2>10. ASSUME NEW i \in DOMAIN e, e[i].delta.error = "returned"
         PROVE  /\ Sale /\ e[i].name = "eTransferComplete"
                /\ \A j \in DOMAIN e : i < j => e[j].name \in Reverting
    <3>1. CASE i = n + 1
      BY <2>1, <2>4, <2>7, <2>10, <3>1
    <3>2. CASE i \in 1 .. n /\ i \in DOMAIN c /\ e[i] = c[i]
      <4>1. /\ Sale /\ c[i].name = "eTransferComplete"
            /\ \A j \in DOMAIN c : i < j => c[j].name \in Reverting
        BY <2>10, <3>2 DEF RefundPath, Refunding
      <4>2. t.name \in Reverting
        <5>1. i = n \/ i < n
          BY <2>1, <3>2
        <5> QED
          BY <2>3, <2>7, <2>10, <3>2, <4>1, <5>1
      <4> QED
        BY <2>4, <2>8, <3>2, <4>1, <4>2
    <3> QED
      BY <2>8, <3>1, <3>2
  <2> QED
    BY <2>9, <2>10 DEF Refunding
<1> QED
  BY <1>1, <1>2 DEF Grown

\* What a callback returns.
LEMMA AnsweredBack ==
    ASSUME OneExecutor, TypeInv, TypeInv', BackMoves, NEW c \in Seq(Snapshot),
           RefundPath(c), NEW p \in Executors, NEW d \in Delta, Answered(p, d)
    PROVE  Answering(p)'
<1>1. /\ delta'[p] = d /\ Current(p)' = Current(p) /\ kind' = kind
      /\ d.error # "returned" /\ Calls(p, d.type) /\ d.type # "manualOverride"
      /\ MovesNone(d) \/ SendsFor(p, d) \/ PaysFor(p, d)
      /\ d.type = "waitCoin" /\ Ok(d) => Awaited(p)
  BY ReturnStep DEF Answered, Answer, Current
<1>2. ASSUME Ok(d), d.type = "sendCoin"
      PROVE  SentBack(d.hash)'
  <2>1. PICK tx \in TxRecord :
           /\ txs' = Append(txs, tx) /\ d.type = Caller[tx.kind] /\ d.hash = Len(txs) + 1
           /\ tx.kind = "exactTransfer" => /\ Positive(Current(p).coin)
                                          /\ tx.amount = Current(p).coin
    BY <1>1, <1>2 DEF MovesNone, Movers, PaysFor, SendsFor
  <2>2. tx.kind = "exactTransfer"
    BY <1>2, <2>1 DEF Caller, TxRecord, TxKinds
  <2>3. d.hash \in DOMAIN txs' /\ txs'[d.hash] = tx
    BY <2>1, Appended DEF TypeInv, TypeOK
  <2> QED
    BY <2>1, <2>2, <2>3 DEF SentBack
<1>3. ASSUME Ok(d), d.type = "waitCoin", Sale, Current(p).name = "revertWaiting"
      PROVE  Moved("exactTransfer")'
  <2>1. /\ Current(p) = c[Len(c)] /\ Len(c) \in DOMAIN c
        /\ Due(Current(p)).run = "waitCoin"
    BY <1>1, <1>3, CalledAtEnd, TrailEnd DEF RefundPath, Path
  <2>2. Ok(Current(p).delta)
    <3>1. Graph["revertWaiting"].onError.run = "requestManual"
      BY <1>3 DEF Sale, SellGraph, Watched, Leads
    <3> QED
      BY <1>3, <2>1, <3>1, DueEdge
  <2>3. PICK h : h = Current(p).delta.hash /\ SentBack(h)
    BY <1>3, <2>1, <2>2 DEF RefundPath, Refunding, Backed
  <2>4. h \in DOMAIN txs /\ txs[h].kind = "exactTransfer" /\ txs[h].status = "mined"
    <3>1. h # 0
      <4>1. DOMAIN txs = 1 .. Len(txs)
        BY DEF TypeInv, TypeOK
      <4> QED
        BY <2>3, <4>1 DEF SentBack
    <3> QED
      BY <1>1, <1>3, <2>3, <3>1 DEF Awaited, SentBack
  <2>5. txs[h].moved > 0
    BY <2>3, <2>4 DEF BackMoves, SentBack, Positive
  <2>6. txs' = txs
    <3>1. d.type # "sendCoin" /\ d.type \notin {Caller[k] : k \in TxKinds}
      BY <1>3 DEF Caller, TxKinds
    <3> QED
      BY <1>1, <3>1 DEF MovesNone, PaysFor, SendsFor, TxRecord
  <2> QED
    BY <2>4, <2>5, <2>6 DEF Moved, Mined
<1>4. Sale' <=> Sale
  BY <1>1 DEF Sale, Graph
<1> QED
  BY <1>1, <1>2, <1>3, <1>4 DEF Answering, Ok, SentBack

LEMMA AnsweringStep ==
    ASSUME OneExecutor, TypeInv, TypeInv', BackKept, RefundInv, [Next]_vars,
           NEW q \in Executors
    PROVE  Answering(q)'
<1>1. CASE Start(q) \/ Replay(q) \/ Store(q) \/ Ends(q)
  <2>1. pc'[q] # "storing"
    BY <1>1, StartStep, ReplayStep, StoreStep, IdleStep DEF Ends
  <2> QED
    BY <2>1 DEF Answering
<1>2. ASSUME NEW d \in Delta, Answered(q, d)
      PROVE  Answering(q)'
  <2>1. PICK c \in Seq(Snapshot) : RefundPath(c)
    BY DEF RefundInv
  <2> QED
    BY <1>2, <2>1, AnsweredBack DEF RefundInv
<1>3. CASE OutsideStep
  <2>1. Same(q) /\ kind' = kind
    BY <1>3, OutsideHistory
  <2>2. /\ pc'[q] = pc[q] /\ delta'[q] = delta[q] /\ Current(q)' = Current(q)
        /\ (Sale' <=> Sale)
    BY <2>1 DEF Same, Current, Sale, Graph
  <2> QED
    BY <2>2 DEF RefundInv, Answering, BackKept, Ok
<1> QED
  BY <1>1, <1>2, <1>3, StepCases DEF OneExecutor

\* The action is closed where the coin is back.
LEMMA CompletedStep ==
    ASSUME MaxOverrides = 0, OneExecutor, TypeInv, TypeInv', BackKept, RefundInv, [Next]_vars
    PROVE  RefundCompleted'
<1> SUFFICES ASSUME Returned', ~ listed' PROVE Moved("exactTransfer")'
  BY DEF RefundCompleted
<1>1. CASE Returned /\ ~ listed
  BY <1>1 DEF RefundInv, RefundCompleted, BackKept
<1>2. CASE stored' = stored /\ listed' = listed
  BY <1>1, <1>2 DEF Returned
<1>3. ASSUME NEW p \in Executors, Store(p)
      PROVE  Returned /\ ~ listed
  <2>1. /\ stored' = Append(stored, delta[p]) /\ delta[p] \in Delta
        /\ stored \in Seq(Delta) /\ listed' = listed
    BY <1>3 DEF Store, TypeInv, TypeOK
  <2>2. delta[p].error # "returned"
    BY <1>3 DEF RefundInv, Answering, Store
  <2>3. /\ DOMAIN stored = 1 .. Len(stored) /\ DOMAIN stored' = 1 .. Len(stored) + 1
        /\ Len(stored) \in Nat
        /\ \A i \in 1 .. Len(stored) : stored'[i] = stored[i]
        /\ stored'[Len(stored) + 1] = delta[p]
    BY <2>1, Appended
  <2>4. \A i \in DOMAIN stored' : i \in DOMAIN stored \/ i = Len(stored) + 1
    BY <2>3
  <2> QED
    BY <2>1, <2>2, <2>3, <2>4 DEF Returned
<1>4. ASSUME NEW p \in Executors, NEW d \in Delta, Answered(p, d), listed
      PROVE  Moved("exactTransfer")'
  <2>1. stored' = stored /\ Calls(p, "markComplete")
    BY <1>4, ReturnStep DEF Answered, Answer, Closes
  <2>2. PICK c \in Seq(Snapshot) : RefundPath(c)
    BY DEF RefundInv
  <2>3. PICK s : s = Current(p) /\ s = c[Len(c)] /\ Due(s).run = "markComplete"
    BY <2>1, <2>2, CalledAtEnd DEF RefundPath
  <2>4. /\ Len(c) \in Nat /\ Len(c) \in DOMAIN c /\ Len(c) = Len(stored) + 1
        /\ DOMAIN stored = 1 .. Len(stored) /\ Len(stored) \in Nat
        /\ DOMAIN c = 1 .. Len(c)
    BY <2>2, TrailEnd DEF RefundPath, Path
  <2>5. PICK i \in DOMAIN stored : stored[i].error = "returned"
    BY <2>1 DEF Returned
  <2>6. i + 1 \in DOMAIN c /\ c[i + 1].delta.error = "returned" /\ i + 1 <= Len(c)
    <3>1. c[i + 1] = Advanced(c[i], stored[i], i)
      BY <2>2 DEF RefundPath, Path, Trail
    <3>2. c[i + 1].delta = stored[i]
      BY <3>1 DEF Advanced, Reduced
    <3> QED
      BY <2>4, <2>5, <3>2
  <2>7. /\ Sale /\ c[i + 1].name = "eTransferComplete"
        /\ i + 1 < Len(c) => s.name \in Reverting
    BY <2>2, <2>3, <2>4, <2>6 DEF RefundPath, Refunding
  <2>8. i + 1 # Len(c)
    <3> SUFFICES ASSUME i + 1 = Len(c) PROVE FALSE
      OBVIOUS
    <3>1. s.name = "eTransferComplete" /\ ~ Ok(s.delta)
      BY <2>3, <2>6, <2>7 DEF Ok
    <3> QED
      BY <2>3, <2>7, <3>1, SaleEdges
  <2>9. s.name = "revertComplete" /\ Ok(s.delta)
    <3>1. s.name \in Reverting
      BY <2>4, <2>6, <2>7, <2>8
    <3> QED
      BY <2>3, <2>7, <3>1, SaleEdges
  <2>10. Moved("exactTransfer")
    BY <2>2, <2>3, <2>4, <2>7, <2>9 DEF RefundPath, Refunding, Backed
  <2> QED
    BY <2>10 DEF BackKept
<1>5. CASE \E p \in Executors : Start(p) \/ Replay(p) \/ Ends(p)
  BY <1>1, <1>2, <1>5 DEF Start, Replay, Ends, store
<1>6. CASE \E p \in Executors : \E d \in Delta : Answered(p, d)
  <2>1. CASE ~ listed
    BY <1>1, <1>6, <2>1, ReturnStep DEF Answered, Returned
  <2> QED
    BY <1>4, <1>6, <2>1
<1>7. CASE OutsideStep
  <2>1. \A s : ~ AdminOverride(s)
    BY DEF AdminOverride, TypeInv, TypeOK
  <2>2. (stored' = stored /\ listed' = listed) \/ listed'
    BY <1>7, <2>1 DEF OutsideStep, Environment, LockExpires, ETransferReturned, vars, store
  <2> QED
    BY <1>2, <2>2
<1> QED
  BY <1>1, <1>3, <1>5, <1>6, <1>7, StepCases

\* A sale whose e-transfer was returned is closed only when the coin is back
\* at the client, on the chain and not merely sent, with whatever crashes,
\* failures of the node or the mails: as long as no admin leads the action to
\* another state.
THEOREM RefundsReachClient ==
    OneExecutor /\ MaxOverrides = 0 /\ AskingWaits /\ OnlySalesReturn
       => (Spec => []RefundCompleted)
<1> SUFFICES ASSUME OneExecutor, MaxOverrides = 0, AskingWaits, OnlySalesReturn
             PROVE  Spec => []RefundCompleted
  OBVIOUS
<1>1. Init => TypeInv /\ RefundInv
  BY TypeInit, RefundInit
<1>2. TypeInv /\ RefundInv /\ [Next]_vars => (TypeInv /\ RefundInv)'
  <2> SUFFICES ASSUME TypeInv, RefundInv, [Next]_vars PROVE TypeInv' /\ RefundInv'
    OBVIOUS
  <2>1. TypeInv'
    BY TypeStep
  <2>2. BackKept /\ kind' = kind
    BY <2>1, BackStep, StepTxs
  <2>3. BackMoves'
    BY MinedStep DEF RefundInv
  <2>4. PICK c \in Seq(Snapshot) : RefundPath(c)
    BY DEF RefundInv
  <2>5. Unaided'
    BY <2>1, <2>4, UnaidedStep DEF RefundInv, RefundPath
  <2>6. PICK e \in Seq(Snapshot) : Path(e)' /\ Grown(c, e)
    BY <2>1, <2>4, PathStep DEF RefundPath, AdminsAsked
  <2>7. Refunding(e)
    BY <2>1, <2>2, <2>4, <2>5, <2>6, RefundingGrown DEF RefundInv
  <2>8. RefundPath(e)'
    BY <2>2, <2>6, <2>7, RefundingKept DEF RefundPath
  <2>9. RefundCompleted'
    BY <2>1, <2>2, CompletedStep
  <2>10. \A p \in Executors : Answering(p)'
    BY <2>1, <2>2, AnsweringStep
  <2> QED
    BY <2>1, <2>3, <2>5, <2>8, <2>9, <2>10 DEF RefundInv
<1>3. RefundInv => RefundCompleted
  BY DEF RefundInv
<1> QED
  BY <1>1, <1>2, <1>3, PTL DEF Spec
=============================================================================
