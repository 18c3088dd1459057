\* Two signups behind two addresses, one month kept of two, two logins kept of three.
SPECIFICATION FairSpec
CONSTANTS
  r1 = r1
  r2 = r2
  Requests = {r1, r2}
  e1 = e1
  e2 = e2
  Emails = {e1, e2}
  Asked <- AskedDef
  PeriodsKept = 1
  LoginsKept = 2
  MaxPeriod = 2
  MaxLogins = 3
CHECK_DEADLOCK FALSE
INVARIANTS
  TypeOK
  BornWhole
  NoCircleOfWaits
  PeriodsAreExact
  QueuesLoseNothing
PROPERTIES
  TransactionsEnd
  ImplementsBook
