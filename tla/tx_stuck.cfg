SPECIFICATION FairSpec
PROPERTIES
  EventuallyHandled
CONSTANTS
  processor = processor
  service = service
  Value = 2
  Rates = {1, 2}
  TxMayFail = FALSE
  Graphs <- Unhandled
  Executors = {processor}
  BreakOn <- Alone
  QuickRestart = FALSE
  Offered <- Form
  AdminUnasked = TRUE
  MaxCrashes = 0
  MaxOverrides = 0
