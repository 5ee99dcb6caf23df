CONSTANTS
  Recipients = {r1, r2}
  Workers = {w1, w2}
  Clients = {c1}
  MaxRetries = 1
  BatchSize = 2
  MaxJobs = 2
  Scenarios <- AllScenarios
SPECIFICATION FairSpec
CHECK_DEADLOCK FALSE
INVARIANTS TypeOK NobodyTwice FinishedMeansServed
PROPERTY KeepsPromise NoneTakenUpAfterCancel BlastEnds
