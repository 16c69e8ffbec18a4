SPECIFICATION FairSpec
CONSTANTS
  Workers <- MCWorkers
  JobsCap = 4
  ReportsCap = 2
  BatchSizes <- MCBatchSizes
  Builds = {"shipped", "solution"}
INVARIANTS TypeOK NoJobLost WedgeNeedsOversizedBatch WedgeShape SleepsOnlyWedged
PROPERTIES Settles Delivers
CHECK_DEADLOCK FALSE
