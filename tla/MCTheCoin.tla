----------------------------- MODULE MCTheCoin -----------------------------
(***************************************************************************)
(* Prices for the run: the coin rises, then falls.                         *)
(***************************************************************************)
EXTENDS TheCoin

MCPrice == <<2, 1, 4, 1, 2>>
=============================================================================
