SPECIFICATION HouseholdSpec
SYMMETRY Symmetry
CONSTANTS
  Invitations = {i1, i2}
  Requests = {r1, r2}
  Validity = 1
  LastDay = 3
INVARIANTS
  OneRelationshipEach
  OnePending
  ArchivedIsEmpty
PROPERTIES
  AnswersAreFinal
CHECK_DEADLOCK FALSE
