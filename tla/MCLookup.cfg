SPECIFICATION FairSpec
CONSTANTS
  Workers <- MCWorkers
  Entries <- MCEntries
  Cap = 1
  Rounds = 5
INVARIANTS ServedWell
PROPERTIES Settles
CHECK_DEADLOCK FALSE
