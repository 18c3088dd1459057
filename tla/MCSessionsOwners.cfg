\* Two users and two addresses, no passage of time.
SPECIFICATION Spec
CONSTANTS
  u1 = u1
  u2 = u2
  p1 = p1
  p2 = p2
  a1 = a1
  r1 = r1
  r2 = r2
  Users = {u1, u2}
  Apps = {a1}
  Ips = {p1, p2}
  Requests = {r1, r2}
  AccessTtl <- MCAccessTtl
  RefreshTtl <- MCRefreshTtl
  MaxSessions = 2
  MaxTime = 1
  MaxMoves = 1
SYMMETRY Symmetry
INVARIANTS
  TypeOK
  NobodyElseLoggedOut
  OlderSessionsSuperseded
  LineageIntact
PROPERTIES
  ClosedForGood
  ImplementsBook
