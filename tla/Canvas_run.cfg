SPECIFICATION FairSpec
CONSTANTS
  t1 = t1
  t2 = t2
  Tabs <- MCTabs
  Ready = {t1}
  MaxEdits = 2
  MaxInFlight = 1
INVARIANTS
  FollowersInSync
PROPERTIES
  SavesWhatIsShown
  QuietsDown
CHECK_DEADLOCK FALSE
