SPECIFICATION FairSpec
CONSTANTS
  t1 = t1
  t2 = t2
  Tabs <- MCTabs
  Ready = {t1}
  MaxEdits = 1
  MaxInFlight = 1
PROPERTIES
  Autosaves
CHECK_DEADLOCK FALSE
