CONSTANTS
  Recipients = {r1}
  Workers = {w1, w2}
  Clients = {c1}
  MaxRetries = 1
  BatchSize = 1
  MaxJobs = 1
  Scenarios <- OverwriteScenarios
SPECIFICATION Spec
CHECK_DEADLOCK FALSE
PROPERTY CancelledIsTerminal
