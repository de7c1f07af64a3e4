SPECIFICATION PagesSpec
CHECK_DEADLOCK FALSE
CONSTANTS
  Requests = {f1, w1}
  WorkerPages = {w1}
  Drafts = {d1, d2}
  Schedules = {s1}
  NoTerms = NoTerms
  NoSchedule = NoSchedule
  NoEvidence = NoEvidence
  NoCopy = NoCopy
  MaxVersion = 5
INVARIANT
  AcceptedAsShown
