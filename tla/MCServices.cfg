CONSTANTS
  Hooks = {k1, k2}
  Buyers = {b1, b2}
  MaxEvents = 5
  BillingCases <- BillingSome
  Contacts = {1, 2}
  Gens = {g1, g2}
  BatchSize = 2
  AiCases <- AiSome
  Tenants = {ta, tb}
  Numbers = {n1, n2}
  Sessions = {s1, s2}
  Requests = {q1, q2}
  MetaCases <- MetaSome
  KbSources = {r1, r2}
  Pages = {1, 2}
  Readers = {w1, w2}
  Clerks = {c1, c2}
  KbCases <- KbSome
  LeadCalls = {x1, x2}
  LeadCases <- LeadSome
  AiWorkers = {u1, u2}
  Chats = {l1, l2, l3}
  UsageCases <- UsageSome
  l1 = l1
  k1 = k1
  b1 = b1
  ta = ta
  tb = tb
  n1 = n1
  n2 = n2
  s1 = s1
  q1 = q1
  r1 = r1
SPECIFICATION Spec
INVARIANTS TypeOK ServicesInv
PROPERTIES DecisionsStay AllEnds
CHECK_DEADLOCK FALSE
