--------------------------- MODULE MCProcessing ---------------------------
(***************************************************************************)
(* Instances of Processing for TLC.                                        *)
(***************************************************************************)
EXTENDS Processing

CONSTANTS u, v

By(user, k, t) == [user |-> user, kind |-> k, at |-> t]

\* Two requests of one user, of kinds that matter to each other, or one that
\* is sent twice; and a user's that must not wait for another's.
MCMailings ==
    {<<By(u, k, 1), By(u, "Uber", 2)>> : k \in {"Uber", "Sell", "Plugin", "Buy"}}
       \cup {<<By(u, "Uber", 1), By(u, "Bill", 2)>>, <<By(u, "Bill", 1), By(u, "Uber", 2)>>}
       \cup {<<By(u, k, 1), By(u, k, 1)>> : k \in {"Uber", "Sell"}}
       \cup {<<By(u, "Sell", 1), By(v, "Uber", 2)>>}
===========================================================================
