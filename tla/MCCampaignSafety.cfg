CONSTANTS
  Recipients = {r1, r2}
  Workers = {w1, w2}
  Clients = {c1}
  MaxRetries = 1
  BatchSize = 2
  MaxJobs = 1
  Scenarios <- SafetyScenarios
SPECIFICATION Spec
CHECK_DEADLOCK FALSE
SYMMETRY Symmetry
INVARIANTS TypeOK EngineInv AtMostOncePerClaim SentMeansAccepted CompletedMeansAllSent
PROPERTIES SuccessNotReopened CancelStopsNewSends
