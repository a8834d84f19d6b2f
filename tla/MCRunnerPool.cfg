SPECIFICATION FairSpec
CONSTANTS
  Pdfs = {"hangs", "large"}
  TestCount = 2
  Workers = {1, 2}
  MaxSpawned = 2
  MaxInFlight = 2
  PreChecks <- MCPreChecks
  Hanging <- MCHanging
  MaxKills = 1
  MaxFaults = 1
  Incremental = TRUE
  PassedBefore <- MCPassedBefore
  NoJob = NoJob
INVARIANTS TypeOK AliveBounded
PROPERTIES VerdictsStand EveryTestReported
