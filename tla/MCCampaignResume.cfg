CONSTANTS
  Recipients = {r1}
  Workers = {w1}
  Clients = {c1}
  MaxRetries = 1
  BatchSize = 1
  MaxJobs = 1
  Scenarios <- ResumeScenarios
SPECIFICATION FairSpec
CHECK_DEADLOCK FALSE
PROPERTY QueuedIsServed
