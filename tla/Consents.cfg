SPECIFICATION ConsentSpec
CONSTANTS
  Kinds = {terms}
  Production = TRUE
  MaxTexts = 2
  LastDate = 1
  Roles = {worker}
  Tabs = {t1}
  Nobody = nobody
INVARIANT
  ConsentNamesWhatWasSeen
