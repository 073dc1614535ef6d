SPECIFICATION ServerSpec
CONSTANTS
  Owner = owner
  Users = {owner, u1, u2}
  Veterans = {}
  Addresses = {owner, u1, u2, a3}
  Invites = {i1, i2}
  Requests = {r1}
  Movers = {u1}
  Assignable = {"ADMIN", "MEMBER"}
  FreeMaxMembers = 2
  Misread = {0}
  SeatUsers = {owner, v1, n1, n2}
  SeatVeterans = {v1}
  Callers = {c1, c2}
  Paired = {i1, i2}
  Deploys = {d1}
  MaxStamp = 1
  MaxReports = 1
  BilledTeams = {i1, i2}
  Deliveries = {c1, c2}
  Subscriptions = {"s1", "s2"}
  MaxEvents = 1
  Providers = {"google", "github"}
  Resets = {1, 2, 3}
  Keys = {k1}
  Rate = 2
  Window = 3
  Capacity = 2
  Interval = 4
  MaxTime = 12
SYMMETRY Symmetry
CHECK_DEADLOCK FALSE
INVARIANTS
  VerifiedIsProven
  OverrunIsSmall
  AWayInRemains
  LinksAreSuperseded
  NoSilentFallThrough
  BurstsAreBounded
PROPERTIES
  MembersWereInvited
  NeverRebound
