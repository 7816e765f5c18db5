------------------------------ MODULE MCOracle ------------------------------
(***************************************************************************)
(* Rates for the run: an hour is missing from the second one; the third is *)
(* for two blocks, since the service was late, and has an hour more.       *)
(***************************************************************************)
EXTENDS OracleUpdater

MCStarts == <<0, 3, 5, 12, 15>>

\* A calendar of the kind the theorem about the published rates is for: the
\* second rate lacks an hour, the fourth has one more, each is for one block.
OnTime == INSTANCE OracleUpdater WITH Starts <- <<0, 3, 5, 8, 12, 15>>

ASSUME CalendarAssumption == OnTime!Seasonal
=============================================================================
