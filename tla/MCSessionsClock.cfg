\* One user, a clock that outruns the access tokens and reaches the end of a
\* refresh window, and fair goroutines.
SPECIFICATION FairSpec
CONSTANTS
  u1 = u1
  p1 = p1
  a1 = a1
  r1 = r1
  r2 = r2
  Users = {u1}
  Apps = {a1}
  Ips = {p1}
  Requests = {r1, r2}
  AccessTtl <- MCAccessTtl
  RefreshTtl <- MCRefreshTtl
  MaxSessions = 2
  MaxTime = 3
  MaxMoves = 0
INVARIANTS
  LogoutKillsBothTokens
  SupersededCanRefresh
PROPERTIES
  SupersededInTheEnd
