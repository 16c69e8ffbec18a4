SPECIFICATION FairSpec
CONSTANTS
  Processors <- MCProcessors
  MaxShipped = 10
  Batches <- MCBatches
INVARIANTS TypeOK Accounted FrozenPosition SuccessMeansAll
PROPERTIES Settles
CHECK_DEADLOCK FALSE
