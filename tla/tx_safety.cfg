SPECIFICATION Spec
INVARIANTS
  TypeOK
  OneTxPerLock
  OnePaymentPerLock
  PaidOnlyAfterCoin
  CoinTakenOnce
  CoinOnlyAfterFiat
PROPERTIES
  NoEffectAfterError
CONSTANTS
  processor = processor
  service = service
  Value = 2
  Rates = {2}
  TxMayFail = TRUE
  Graphs <- LockingGraphs
  Executors = {processor}
  BreakOn <- Alone
  QuickRestart = FALSE
  Offered <- Offers
  AdminUnasked = TRUE
  MaxCrashes = 1
  MaxOverrides = 1
