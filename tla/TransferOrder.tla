--------------------------- MODULE TransferOrder ----------------------------
(***************************************************************************)
(* What a transaction graph promises: the broker first receives what the   *)
(* client sends, then delivers what the client is owed, at most once, and  *)
(* only then is the order closed.  An order in trouble simply stays open.  *)
(***************************************************************************)
EXTENDS Naturals

VARIABLES received,    \* has the client's side of the order arrived?
          delivered,   \* deliveries to the client (or the client's payee)
          closed       \* is the order done with?

Init == /\ received = FALSE
        /\ delivered = 0
        /\ closed = FALSE

Receive == /\ ~ received
           /\ received' = TRUE
           /\ UNCHANGED <<delivered, closed>>

Deliver == /\ received
           /\ ~ closed
           /\ delivered = 0
           /\ delivered' = 1
           /\ UNCHANGED <<received, closed>>

Close == /\ delivered = 1
         /\ ~ closed
         /\ closed' = TRUE
         /\ UNCHANGED <<received, delivered>>

Next == Receive \/ Deliver \/ Close

Spec == Init /\ [][Next]_<<received, delivered, closed>>
=============================================================================
