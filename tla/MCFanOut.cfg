SPECIFICATION FairSpec
CONSTANTS
  Workers <- MCWorkers
  ResultsCap = 3
  Streams <- MCStreams
  Builds = {"shipped", "solution"}
INVARIANTS TypeOK CountsMatch QuietOnceClosed
PROPERTIES Settles Delivers
CHECK_DEADLOCK FALSE
