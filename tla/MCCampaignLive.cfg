CONSTANTS
  Recipients = {r1, r2}
  Workers = {w1, w2}
  Clients = {c1}
  MaxRetries = 1
  BatchSize = 1
  MaxJobs = 1
  Scenarios <- LiveScenarios
SPECIFICATION FairSpec
CHECK_DEADLOCK FALSE
PROPERTIES CampaignSettles QueuedGoesOn
