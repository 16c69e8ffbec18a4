SPECIFICATION CacheFairSpec
CONSTANTS
  Keys <- MCKeys
  Values <- MCValues
  Clients <- MCClients
  Miss = Miss
  TTL = 1
  SweepEvery = 2
  MaxTime = 4
  MaxGets = 2
INVARIANTS CountsAddUp
PROPERTIES Transparent Sweeps
CHECK_DEADLOCK FALSE
