SPECIFICATION FairSpec
CONSTANTS
  Workers <- MCWorkers
  Entries <- MCEntries
  Cap = 1
  Rounds = 5
PROPERTIES WorkersStop
CHECK_DEADLOCK FALSE
