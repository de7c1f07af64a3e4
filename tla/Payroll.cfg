SPECIFICATION PayrollSpec
CHECK_DEADLOCK FALSE
SYMMETRY Symmetry
CONSTANTS
  d1 = d1  d2 = d2
  p1 = p1  p2 = p2
  m1 = m1  m2 = m2
  Requests = {r1, r2}
  Drafts = {d1, d2}
  Schedules = {s1, s2}
  NoTerms = NoTerms
  NoSchedule = NoSchedule
  NoEvidence = NoEvidence
  MaxVersion = 4
  Calculators = {c1, c2}
  Periods = {p1, p2}
  Minutes = {m1, m2}
  NoSnapshot = NoSnapshot
  InForce <- MCInForce
  Payable <- MCPayable
INVARIANTS
  VersionsMatchThePeriod
  CalculatedFromConsent
