SPECIFICATION PagesSpec
CHECK_DEADLOCK FALSE
SYMMETRY Symmetry
CONSTANTS
  Requests = {f1, f2, w1}
  WorkerPages = {w1}
  Drafts = {d1, d2}
  Schedules = {s1, s2}
  NoTerms = NoTerms
  NoSchedule = NoSchedule
  NoEvidence = NoEvidence
  NoCopy = NoCopy
  MaxVersion = 4
INVARIANTS
  ConsentCoversTerms
  ScheduleIsConsented
  RefusedIsStale
  SameVersionSameOffer
