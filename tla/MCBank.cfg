SPECIFICATION FairSpec
CONSTANTS
  Tellers <- MCTellers
  NumAccounts = 2
  InitialBalance = 3
  Amounts <- MCAmounts
  MaxTransfers = 2
  Builds = {"solution"}
INVARIANTS TypeOK BooksBalance NoOverdraft NoDataRace
PROPERTIES AuditHappens Linearizable
CHECK_DEADLOCK FALSE
