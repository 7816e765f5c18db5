--------------------------- MODULE TxStateMachine ---------------------------
(***************************************************************************)
(* The executor of transaction graphs (libs/tx-statemachine).  An action   *)
(* is an append-only history of deltas in the database.  Every execution   *)
(* loads the history, replays it from the initial state, and then runs the *)
(* transition of each state it enters: the transition's side effect comes  *)
(* first, then its delta is stored, and only then the next state is        *)
(* entered.  An executor may stop between any two of these.                *)
(*                                                                         *)
(* This module holds the control; TxTransitions adds the transitions.      *)
(***************************************************************************)
EXTENDS TxWorld, FiniteSets

CONSTANTS Graphs,        \* kind of action -> its graph: state -> transitions
          Executors,     \* processes that may execute this action
          BreakOn,       \* executor -> state at which it stops, or ""
          QuickRestart,  \* may an execution begin while a lock is fresh?
          Offered,       \* kind of action -> states that an admin may name
          AdminUnasked,  \* does an admin write at any time, or when asked to?
          MaxCrashes,    \* bound: executions cut short
          MaxOverrides   \* bound: manual overrides

\* The callbacks of the graphs' transitions.
Callbacks == {"preTransfer", "depositCoin", "uberDepositCoin", "uberWaitPending",
              "uberClearPending", "sendCoin", "handleRequest", "waitCoin",
              "toFiat", "toCoin", "markComplete", "requestManual",
              "manualOverride", "payBill", "retryRegisterTx", "sendETransfer",
              "waitETransfer", "handleWaitError", "labelEmailETransfer",
              "labelEmailDeposited", "depositFiat", "depositFiatManual"}

\* "" is the undefined state.
Named == UNION {DOMAIN Graphs[k] \cup Offered[k] : k \in DOMAIN Graphs}
States == Named \cup {"initial", ""}

\* A transition: the callback it runs and the state it leads to.
NoEdge == [run |-> "", to |-> ""]
Edge == [run : Callbacks, to : States] \cup {NoEdge}

ASSUME MachineAssumption ==
    /\ \A k \in DOMAIN Graphs : \A s \in DOMAIN Graphs[k] :
          Graphs[k][s].next \in Edge /\ Graphs[k][s].onError \in Edge
    /\ BreakOn \in [Executors -> States]
    /\ QuickRestart \in BOOLEAN
    /\ AdminUnasked \in BOOLEAN
    /\ MaxCrashes \in Nat
    /\ MaxOverrides \in Nat

VARIABLES stored,    \* the History collection of the action
          listed,    \* is the action in the collection of incomplete actions?
          fresh,     \* places in `stored' of the locks younger than 2 minutes
          pc,        \* executor -> "idle", "running" or "storing"
          loaded,    \* executor -> how many deltas it loaded to replay
          hist,      \* executor -> the history of its container: snapshots
          delta,     \* executor -> the delta it is about to store
          kind,      \* the kind of the action, which selects its graph
          crashes, overrides

store == <<stored, listed, fresh>>
run == <<pc, loaded, hist, delta>>
limits == <<kind, crashes, overrides>>
vars == <<world, store, run, limits>>

Graph == Graphs[kind]

-----------------------------------------------------------------------------
(* Deltas and snapshots.                                                   *)

Absent == -1                   \* an amount no delta has set yet
Amount == Int
Errors == {"", "reverted", "returned", "database", "other"}   \* "" is no error

Types == Callbacks \cup {"", "no prior state"}

Delta == [type : Types, error : Errors, coin : Amount, fiat : Amount,
          hash : Nat, meta : States]

\* What a transition returns when it sets nothing.
Plain(t) == [type |-> t, error |-> "", coin |-> Absent, fiat |-> Absent,
             hash |-> 0, meta |-> ""]
Failed(t, e) == [Plain(t) EXCEPT !.error = e]

Snapshot == [name : States, coin : Amount, fiat : Amount, delta : Delta, at : Nat]

InitialSnapshot == [name |-> "initial", coin |-> Absent, fiat |-> Absent,
                    delta |-> Plain("no prior state"), at |-> 0]

Merged(new, old) == IF new = Absent THEN old ELSE new

\* The snapshot after applying delta d, stored at place i, to snapshot s.
Reduced(s, name, d, i) ==
    [name |-> name, coin |-> Merged(d.coin, s.coin),
     fiat |-> Merged(d.fiat, s.fiat), delta |-> d, at |-> i]

-----------------------------------------------------------------------------
Current(p) == hist[p][Len(hist[p])]

\* Mutant: the error of the last delta is not looked at.
ChosenDespiteErrors(p) == IF Current(p).name \notin DOMAIN Graph
                          THEN NoEdge ELSE Graph[Current(p).name].next

\* The transition the current state calls for: its error handler after an
\* error, else the ordinary one; none in a state the graph does not have.
Chosen(p) == LET s == Current(p)
             IN  IF s.name \notin DOMAIN Graph THEN NoEdge
                 ELSE IF s.delta.error # "" THEN Graph[s.name].onError
                                            ELSE Graph[s.name].next

\* The loop ends here: complete, told to stop, or no transition to run.
Halted(p) == \/ Current(p).name \in {"complete", BreakOn[p]}
             \/ Chosen(p) = NoEdge

Replaying(p) == Len(hist[p]) <= loaded[p]
Replayed(p) == stored[Len(hist[p])]

\* Executor p runs the callback t, for the first time in this history.
Calls(p, t) == /\ pc[p] = "running"
               /\ ~ Replaying(p)
               /\ Chosen(p).run = t
               /\ ~ Halted(p)

-----------------------------------------------------------------------------
Idle(p) == /\ pc' = [pc EXCEPT ![p] = "idle"]
           /\ loaded' = [loaded EXCEPT ![p] = 0]
           /\ hist' = [hist EXCEPT ![p] = << >>]
           /\ delta' = [delta EXCEPT ![p] = Plain("")]

Init == /\ WorldInit
        /\ stored = << >>
        /\ listed = TRUE
        /\ fresh = {}
        /\ pc = [p \in Executors |-> "idle"]
        /\ loaded = [p \in Executors |-> 0]
        /\ hist = [p \in Executors |-> << >>]
        /\ delta = [p \in Executors |-> Plain("")]
        /\ kind \in DOMAIN Graphs
        /\ crashes = 0
        /\ overrides = 0

\* Does p execute the action now?  The tx-processor takes what is listed as
\* incomplete; the broker service (it stops early) executes on request.
Scheduled(p) == listed \/ BreakOn[p] # ""

\* Mutant: the container begins with an empty history.
StartNowhere(p) ==
    /\ pc[p] = "idle"
    /\ Scheduled(p)
    /\ QuickRestart \/ fresh = {}
    /\ pc' = [pc EXCEPT ![p] = "running"]
    /\ loaded' = [loaded EXCEPT ![p] = Len(stored)]
    /\ hist' = [hist EXCEPT ![p] = << >>]
    /\ UNCHANGED <<world, store, delta, limits>>

\* Load the history and begin in the initial state.
Start(p) ==
    /\ pc[p] = "idle"
    /\ Scheduled(p)
    /\ QuickRestart \/ fresh = {}
    /\ pc' = [pc EXCEPT ![p] = "running"]
    /\ loaded' = [loaded EXCEPT ![p] = Len(stored)]
    /\ hist' = [hist EXCEPT ![p] = << InitialSnapshot >>]
    /\ UNCHANGED <<world, store, delta, limits>>

\* Does the loaded delta belong to the transition that is due?
Overrides(p) == \/ Chosen(p).run = "manualOverride"
                \/ Replayed(p).type = "manualOverride"
Fits(p) == Overrides(p) \/ Replayed(p).type = Chosen(p).run

Enter(p, name, d, i) ==
    hist' = [hist EXCEPT ![p] = Append(@, Reduced(Current(p), name, d, i))]

\* Apply the next loaded delta without running anything.
Replay(p) ==
    /\ pc[p] = "running"
    /\ ~ Halted(p)
    /\ Replaying(p)
    /\ Fits(p)
    /\ Enter(p, IF Overrides(p) THEN Replayed(p).meta ELSE Chosen(p).to,
             Replayed(p), Len(hist[p]))
    /\ UNCHANGED <<world, store, pc, loaded, delta, limits>>

\* The execution ends: nothing more to do, or the history does not fit.
Leave(p) ==
    /\ pc[p] = "running"
    /\ Halted(p) \/ (Replaying(p) /\ ~ Fits(p))
    /\ Idle(p)
    /\ UNCHANGED <<world, store, limits>>

\* The callback has returned d, not yet stored.
Returns(p, d) ==
    /\ pc' = [pc EXCEPT ![p] = "storing"]
    /\ delta' = [delta EXCEPT ![p] = d]
    /\ UNCHANGED <<loaded, hist, stored, fresh, limits>>

\* The callback has returned null: the transition did not complete.
ReturnsNull(p) ==
    /\ Idle(p)
    /\ UNCHANGED <<stored, fresh, limits>>

\* Mutant: an error is not worth storing.
StoreSuccess(p) ==
    /\ pc[p] = "storing"
    /\ stored' = IF delta[p].error = "" THEN Append(stored, delta[p]) ELSE stored
    /\ fresh' = IF delta[p].type = "preTransfer" THEN fresh \cup {Len(stored) + 1}
                                                 ELSE fresh
    /\ Enter(p, Chosen(p).to, delta[p], Len(stored) + 1)
    /\ pc' = [pc EXCEPT ![p] = "running"]
    /\ delta' = [delta EXCEPT ![p] = Plain("")]
    /\ UNCHANGED <<world, listed, loaded, limits>>

\* Append the delta to the history, then enter the next state.
Store(p) ==
    /\ pc[p] = "storing"
    /\ stored' = Append(stored, delta[p])
    /\ fresh' = IF delta[p].type = "preTransfer" THEN fresh \cup {Len(stored) + 1}
                                                 ELSE fresh
    /\ Enter(p, Chosen(p).to, delta[p], Len(stored) + 1)
    /\ pc' = [pc EXCEPT ![p] = "running"]
    /\ delta' = [delta EXCEPT ![p] = Plain("")]
    /\ UNCHANGED <<world, listed, loaded, limits>>

\* The process dies, or storing throws: what was not stored is lost.
Crash(p) ==
    /\ crashes < MaxCrashes
    /\ pc[p] # "idle"
    /\ crashes' = crashes + 1
    /\ Idle(p)
    /\ UNCHANGED <<world, store, kind, overrides>>

-----------------------------------------------------------------------------
\* The action waits for a human: the last delta is the request for one.
AwaitingAdmin == stored # << >> /\ stored[Len(stored)].type = "requestManual"

\* The admin application appends an override, during an execution or not.
AdminOverride(s) ==
    /\ overrides < MaxOverrides
    /\ AdminUnasked \/ AwaitingAdmin
    /\ stored' = Append(stored, [Plain("manualOverride") EXCEPT !.meta = s])
    /\ overrides' = overrides + 1
    /\ UNCHANGED <<world, listed, fresh, run, kind, crashes>>

\* A lock, and every older one, passes the age of two minutes.
LockExpires(i) ==
    /\ fresh' = {j \in fresh : j > i}
    /\ UNCHANGED <<world, stored, listed, run, limits>>
=============================================================================
