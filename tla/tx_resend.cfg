SPECIFICATION Spec
INVARIANTS
  OnePaymentPerLock
CONSTANTS
  processor = processor
  service = service
  Value = 2
  Rates = {1, 2}
  TxMayFail = TRUE
  Graphs <- Sales
  Executors = {processor}
  BreakOn <- Alone
  QuickRestart = FALSE
  Offered <- Form
  AdminUnasked = TRUE
  MaxCrashes = 1
  MaxOverrides = 0
