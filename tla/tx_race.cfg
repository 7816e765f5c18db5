SPECIFICATION Spec
INVARIANTS
  PaidOnlyAfterCoin
  CoinTakenOnce
CONSTANTS
  processor = processor
  service = service
  Value = 1
  Rates = {1}
  TxMayFail = FALSE
  Graphs <- Bills
  Executors = {processor, service}
  BreakOn <- WithService
  QuickRestart = TRUE
  Offered <- Form
  AdminUnasked = TRUE
  MaxCrashes = 0
  MaxOverrides = 0
