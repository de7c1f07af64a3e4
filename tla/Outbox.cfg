SPECIFICATION FairSpec
CHECK_DEADLOCK FALSE
CONSTANTS
  Messages = {1, 2}
  Otp = {1}
  Workers = {w1, w2}
  MAX_ATTEMPTS = 2
  BATCH_SIZE = 2
  MaxFaults = 1
INVARIANTS
  OutcomesAreEarned
  OnceUnlessDisturbed
  CodeGoesWithTheRetries
PROPERTIES
  SettledIsFinal
  EventuallySettled
