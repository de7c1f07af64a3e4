SPECIFICATION Spec
SYMMETRY Symmetry
CONSTANTS
  Requests = {r1, r2}
  NoRequest = none
  Days = {0, 1}
  Months = {0, 1}
  MaxInstant = 2
  DateOf <- DayDateOf
  MonthOf <- DayMonthOf
  ClockInKeys = {i1}
  ClockOutKeys = {o1, o2}
  Proposals <- DayProposals
  MaxVersion = 5
INVARIANTS
  DisputeHasItsCorrection
  EntriesMatchStatus
  ApprovedMinutesAgree
  AckedIsRecorded
PROPERTIES
  EntriesAreKept
  VersionWitnessesChange
  ImplementsLedger
