\* A late goroutine against a newer session.
SPECIFICATION Spec
CONSTANTS
  u1 = u1
  p1 = p1
  a1 = a1
  r1 = r1
  r2 = r2
  Users = {u1}
  Apps = {a1}
  Ips = {p1}
  Requests = {r1, r2}
  AccessTtl <- MCAccessTtl
  RefreshTtl <- MCRefreshTtl
  MaxSessions = 2
  MaxTime = 1
  MaxMoves = 1
SYMMETRY Symmetry
INVARIANTS
  SupersededOnlyByNewer
