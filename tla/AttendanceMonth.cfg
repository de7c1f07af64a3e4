SPECIFICATION Spec
SYMMETRY Symmetry
CONSTANTS
  Requests = {r1, r2}
  NoRequest = none
  Days = {0, 1, 2}
  Months = {0, 1}
  MaxInstant = 2
  DateOf <- MonthDateOf
  MonthOf <- MonthMonthOf
  ClockInKeys = {i1, i2}
  ClockOutKeys = {o1}
  Proposals <- MonthProposals
  MaxVersion = 2
INVARIANTS
  OneOpenDay
  SnapshotIsTheMonth
PROPERTY
  ClosedMonthIsFrozen
