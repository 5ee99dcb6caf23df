CONSTANTS
  Workers = {w1, w2, w3}
  Tenants = {u1, u2}
  PerSecond = 2
  PerMinute = 2
  PerTenant = 1
  MaxConcurrent = 1
  SecondsPerMinute = 2
  SecondTTL = 2
  MinuteTTL = 2
  LastSecond = 2
  CrashSteps = {"send", "expire"}
  MaxCrashes = 1
  MaxExpiries = 1
  MaxAttempts = 3
SPECIFICATION Spec
SYMMETRY Symmetry
CHECK_DEADLOCK FALSE
INVARIANTS TypeOK ConcurrencyLimit RateLimits CountedSlotExpires
