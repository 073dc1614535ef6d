SPECIFICATION FairSpec
CONSTANTS
  t1 = t1
  t2 = t2
  a1 = a1
  a2 = a2
  k1 = k1
  s1 = s1
  g1 = g1
  o1 = o1
  r1 = r1
  r2 = r2
  p1 = p1
  p2 = p2
  Runs = {r1}
  Projects = {p1, p2}
  Nodes = {t1, t2, a1, a2, k1, s1, g1, o1}
  Tech <- MCTech
  Place <- MCPlace
  Canvases <- FullCanvases
  Bundles <- AllBundles
  ProjectOf <- MCProjectOf
  LeftBehind <- AllBundles
  Actions = {"deploy", "plan", "destroy"}
  MaxActive = 1
  MaxReports = 3
  RelayCap = 2
INVARIANTS
  SuccessIsComplete
  NoNodeLeftRunning
  OneTaskAtATime
PROPERTIES
  PhasesInOrder
  RunEnds
CHECK_DEADLOCK FALSE
