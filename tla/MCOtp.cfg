\* Two handlers, two addresses, a ceiling of two attempts, one code.
SPECIFICATION Spec
CONSTANTS
  u1 = u1
  u2 = u2
  NoUser = NoUser
  m1 = m1
  m2 = m2
  NoAddress = NoAddress
  a1 = a1
  r1 = r1
  r2 = r2
  Users = {u1, u2}
  Addresses = {m1, m2}
  Apps = {a1}
  Requests = {r1, r2}
  Lifetime = 1
  RateLimit = 1
  MaxAttempts = 2
  MaxOtps = 1
  MaxTime = 1
SYMMETRY Symmetry
INVARIANTS
  TypeOK
  VerifiedMeansProven
  CodesDieForAReason
  UsedCodesAreDoomed
PROPERTIES
  RefusalsAreFinal
  ImplementsBook
