---------------------------- MODULE OracleClient ----------------------------
(***************************************************************************)
(* Prices of the coin in fiat, as the plugins read them from the oracle    *)
(* (OracleClient.sol).  The price of a moment does not change once it can  *)
(* be read; that the oracle works like this is what SpxCadOracle is about. *)
(***************************************************************************)
EXTENDS Integers

CONSTANTS MaxTime,   \* bound: the last moment
          Price,     \* moment -> the price of a coin
          Scale,     \* 1e12 in the code: a cent in the units of a price
          Rounding   \* 5e5 in the code

Times == 1 .. MaxTime

ASSUME PriceAssumption == /\ MaxTime \in Nat
                          /\ Price \in [Times -> Nat \ {0}]
                          /\ Scale \in Nat \ {0}
                          /\ Rounding \in Nat

\* The coin that fiat is worth at moment t, rounded down.
ToCoin(fiat, t) == (fiat * Scale + Rounding) \div Price[t]
=============================================================================
