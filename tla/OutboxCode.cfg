SPECIFICATION Spec
CHECK_DEADLOCK FALSE
CONSTANTS
  Messages = {1}
  Otp = {1}
  Workers = {w1, w2}
  MAX_ATTEMPTS = 2
  BATCH_SIZE = 2
  MaxFaults = 0
INVARIANT
  RetryKeepsItsCode
