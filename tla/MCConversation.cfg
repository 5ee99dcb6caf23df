SPECIFICATION FairSpec
CONSTANTS
  Handlers = {h1, rp}
  Replayer = rp
  Workers = {w1, w2}
  Scanners = {s1, s2}
  MaxInbound = 2
  Scenarios <- AllScenarios
INVARIANTS TypeOK OnceOnly
PROPERTIES NobodyTalkedOver NoneLeftWaiting NoInboundLost
CHECK_DEADLOCK FALSE
