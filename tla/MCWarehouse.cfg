SPECIFICATION FairSpec
CONSTANTS
  Items <- MCItems
  Pickers <- MCPickers
  Initial = 10
  Books <- MCBooks
  Builds = {"shipped", "solution"}
INVARIANTS TypeOK BooksBalance Reconciles
PROPERTIES DriftExplained Finishes
CHECK_DEADLOCK FALSE
