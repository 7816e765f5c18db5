---------------------------- MODULE UberConverter ----------------------------
(***************************************************************************)
(* The plugin that lets clients transfer fiat, now or later                *)
(* (UberConverter.sol).  A transfer of the future is registered here, and  *)
(* whoever wants to may have it processed once its time has come.  Its     *)
(* functions are what the coin's contract calls; they run inside the       *)
(* transaction of the caller, and one that reverts is an action that is    *)
(* not enabled.  seedPending and cancelPending, which run on test chains   *)
(* only, are left out.                                                     *)
(***************************************************************************)
EXTENDS OracleClient

CONSTANTS Clients,   \* accounts whose holders sign requests
          Accounts,  \* all accounts
          MaxFiat    \* bound: fiat a client has pending

ASSUME AccountAssumption == /\ Clients \subseteq Accounts
                            /\ MaxFiat \in Nat

VARIABLES now,        \* the time of the block
          horizon,    \* the oracle has prices for the moments before this one
          transfers,  \* client -> payee -> moment -> fiat registered
          total       \* client -> all the fiat registered

CAD == 124
Coin == 0      \* the currency code of the coin itself

\* The oracle has published the price of moment t (it throws if not).
Priced(t) == t < horizon

\* What becomes of a transfer: its amount and currency, and what is registered.
Outcome(amount, currency, registered) ==
    [amount |-> amount, currency |-> currency, registered |-> registered]

\* A transfer of fiat is registered if it is for later, or else becomes coin.
ModifyTransfer(amount, currency, at) ==
    IF currency # CAD THEN Outcome(amount, currency, 0)
    ELSE IF at > now THEN Outcome(0, currency, amount)
    ELSE Outcome(ToCoin(amount, at), Coin, 0)

\* It needs a price to do so.
CanModify(currency, at) == currency = CAD /\ at <= now => Priced(at)

\* Mutant: only the transfer is registered, not the total.
RegisterOnly(from, to, at, fiat) ==
    /\ transfers' = [transfers EXCEPT ![from][to][at] = @ + fiat]
    /\ UNCHANGED total

Register(from, to, at, fiat) ==
    /\ transfers' = [transfers EXCEPT ![from][to][at] = @ + fiat]
    /\ total' = [total EXCEPT ![from] = @ + fiat]

\* Before coin leaves a client with n of these plugins, each of them sets
\* aside what is pending, at the price of the moment the request names.
PreWithdraw(client, n, balance, coin, at) ==
    n > 0 /\ total[client] # 0 =>
        /\ Priced(at)
        /\ n * ToCoin(total[client], at) + coin <= balance

\* Mutant: pending transfers do not keep the plugin.
DetachedAnyway(client) == total' = [total EXCEPT ![client] = 0]

\* A client leaves.  Deleting the record clears the total; the mapping in it
\* stays as it is.
UserDetached(client) ==
    /\ total[client] = 0
    /\ total' = [total EXCEPT ![client] = 0]

\* The record of a transfer that has been paid; the total cannot underflow.
Settled(from, to, at) ==
    /\ total[from] >= transfers[from][to][at]
    /\ transfers' = [transfers EXCEPT ![from][to][at] = 0]
    /\ total' = [total EXCEPT ![from] = @ - transfers[from][to][at]]
=============================================================================
