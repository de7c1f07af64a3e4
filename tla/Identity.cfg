SPECIFICATION Spec
CHECK_DEADLOCK FALSE
SYMMETRY Symmetry
CONSTANTS
  Requests = {r1, r2}
  MaxAttempts = 1
  PerWindow = 1
  MaxCodes = 2
  MaxSessions = 3
INVARIANTS
  IdentityInv
  AttemptsAreBounded
PROPERTY
  FamiliesStayClosed
