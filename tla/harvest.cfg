SPECIFICATION FairSpec
INVARIANTS
  TypeOK
  PaidOnce
  AmountKnown
PROPERTIES
  EventuallyCovered
  DueHandled
CONSTANTS
  None = None
  Runners = {scheduled, manual}
  Starts <- MCStarts
  Earlier = 4
  ShownFrom <- MCShownFrom
  Closes <- MCCloses
  Due <- MCDue
  Spending <- MCSpending
  Opening = 4
  Income <- MCIncome
  Cutoff = 2
  Overrides = {3}
  MaxFaults = 1
  RoundPoint = 2
  Percent = 50
  ChequeLimit = 1
  TransferMax = 3
  MinTransfer = 1
  KeepBack = 1
  TopUpAmount = 1
  TopUpEvery = 3
  Window = 2
  Patience = 2
