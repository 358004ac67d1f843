\* Pages of one job, two changes of the table, a digest of at most one job per company.
SPECIFICATION Spec
CONSTANTS
  r1 = r1
  r2 = r2
  r3 = r3
  u1 = u1
  u2 = u2
  p1 = p1
  p2 = p2
  IL = IL
  NY = NY
  Rows = {r1, r2, r3}
  Owner <- TheOwner
  Key <- TheKey
  Seen <- TheSeen
  Company <- OneFirm
  Place <- ThePlace
  Region <- OneState
  Users = {u1, u2}
  All = All
  Queries <- TheQueries
  Excluded = {r3}
  PageSize = 1
  LookupLimit = 1
  MaxPerCompany = 1
  MaxEdits = 2
  MaxClock = 1
CONSTRAINT
  OneAtATime
INVARIANTS
  PagesListOnce
  EveryPlaceOffered
PROPERTIES
  NothingDropped
