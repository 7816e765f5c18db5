------------------------------ MODULE Promises ------------------------------
(***************************************************************************)
(* What the converter promises the payee of a delayed transfer: an         *)
(* allowance that cannot be revoked.  It can be raised until its time, and *)
(* goes away only as a whole, by paying the coin that it is worth at that  *)
(* time.  Whatever else happens to balances does not touch it.             *)
(***************************************************************************)
EXTENDS OracleClient

CONSTANTS Clients,   \* accounts that promise
          Accounts   \* accounts that hold coin

VARIABLES pending,   \* client -> payee -> moment -> fiat promised
          balances,  \* account -> coin
          now

vars == <<pending, balances, now>>

Init == /\ pending = [c \in Clients |-> [a \in Accounts |-> [t \in Times |-> 0]]]
        /\ now \in Nat

Promise(from, to, t) ==
    /\ t > now
    /\ pending'[from][to][t] >= pending[from][to][t]
    /\ pending' = [pending EXCEPT ![from][to][t] = pending'[from][to][t]]
    /\ UNCHANGED <<balances, now>>

Pay(from, to, t) ==
    LET coin == ToCoin(pending[from][to][t], t) IN
    /\ t <= now
    /\ pending' = [pending EXCEPT ![from][to][t] = 0]
    /\ balances' = [balances EXCEPT ![from] = @ - coin, ![to] = @ + coin]
    /\ UNCHANGED now

Elsewhere == UNCHANGED <<pending, now>>

Tick == /\ now' > now
        /\ UNCHANGED <<pending, balances>>

Next == \/ \E from \in Clients, to \in Accounts, t \in Times :
              Promise(from, to, t) \/ Pay(from, to, t)
        \/ Elsewhere
        \/ Tick

Spec == Init /\ [][Next]_vars
=============================================================================
