SPECIFICATION FairScreens
CONSTANTS
  Days = {0, 1, 2}
  Months = {0, 1}
  MonthOf <- TwoMonths
  Instants = {0, 1}
  Entries = {0}
  Exits = {1}
  MaxChanges <- ThreeForTheWorker
  MaxLoads = 2
  Roles = {family, worker}
  Tabs = {t1, t2}
  None = none
  WorkerLimit = 1
  FamilyLimit = 2
  Skew = 1
  Nobody = nobody
INVARIANTS
  ActsOnWhatItShows
  FreshButtonsWork
  ShownRolesWork
CHECK_DEADLOCK FALSE
PROPERTY
  DetailBecomesCurrent
