---------------------------- MODULE MCHarvester ----------------------------
(***************************************************************************)
(* A calendar and three beginnings for the run: the default steps          *)
(* (types-steps.ts), which have run before; others, which have not; and    *)
(* payments only, which have missed a statement.                           *)
(***************************************************************************)
EXTENDS Harvester

MCStarts ==
    {[stages |-> <<"ClearPendingVisa", "EnsureHarvesterBalance", "TransferVisaOwing", "RoundUp",
                   "ChequeMinimum", "TransferLimit", "SendETransfer", "PayVisa">>,
      lastDue |-> 0, lastAmount |-> 4],
     [stages |-> <<"ClearPendingVisa", "EnsureHarvesterBalance", "ProcessPercent",
                   "TransferEverything", "TopUp", "SendETransfer", "PayVisa">>,
      lastDue |-> None, lastAmount |-> None],
     [stages |-> <<"ClearPendingVisa", "EnsureHarvesterBalance", "PayVisa">>,
      lastDue |-> 0, lastAmount |-> 0]}

MCShownFrom == <<0,2>>
MCCloses == <<1,3>>
MCDue == <<3,5>>
MCSpending == <<2,0,1,0,0>>
MCIncome == <<0,0,0,0,0>>
=============================================================================
