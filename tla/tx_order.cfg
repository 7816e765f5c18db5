SPECIFICATION FairSpec
INVARIANTS
  HistoryReplays
  RefundCompleted
  NoOverdraft
PROPERTIES
  ImplementsOrder
  BillsAndSalesHandled
CONSTANTS
  processor = processor
  service = service
  Value = 2
  Rates = {1, 2}
  TxMayFail = TRUE
  Graphs <- AllGraphs
  Executors = {processor}
  BreakOn <- Alone
  QuickRestart = FALSE
  Offered <- Form
  AdminUnasked = TRUE
  MaxCrashes = 2
  MaxOverrides = 0
