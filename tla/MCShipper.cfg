SPECIFICATION FairSpec
CONSTANTS
  Workers <- MCWorkers
  NumRecords = 4
INVARIANTS ArchiveSound
PROPERTIES Delivers Finishes
CHECK_DEADLOCK FALSE
