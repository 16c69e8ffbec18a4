SPECIFICATION ServiceSpec
CONSTANTS
  Workers <- MCWorkers
  PerWorker = 1
  Requests <- MCRequests
  Verifier <- MCVerifier
  VerifyKeys = 2
  Rounds = 0
  More = 0
  Collectors <- MCCollectors
  Records = 1
INVARIANTS CountsAgree MonitorSkew
CHECK_DEADLOCK FALSE
