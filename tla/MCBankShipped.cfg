SPECIFICATION Spec
CONSTANTS
  Tellers <- MCTellers
  NumAccounts = 2
  InitialBalance = 3
  Amounts <- MCAmounts
  MaxTransfers = 2
  Builds = {"shipped"}
INVARIANT AuditPasses
CHECK_DEADLOCK FALSE
