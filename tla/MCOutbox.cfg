CONSTANTS
  Clients = {c1, c2}
  Schedulers = {s1, s2}
  Reconcilers = {s1, s2}
  Workers = {w1}
  MaxMessages = 2
  MaxRetries = 1
  Scenarios <- AllScenarios
SPECIFICATION FairSpec
INVARIANTS TypeOK OneMessagePerKey SingleActive
PROPERTY KeepsPromise NotTakenBack NoMessageHangs TicksGoOn
