\* A bookmark of two states, read to its last page; nobody changes the table.
SPECIFICATION Spec
CONSTANTS
  r1 = r1
  r2 = r2
  r3 = r3
  u1 = u1
  u2 = u2
  p1 = p1
  p2 = p2
  IL = IL
  NY = NY
  Rows = {r1, r2, r3}
  Owner <- TheOwner
  Key <- TheKey
  Seen <- TheSeen
  Company <- OneFirm
  Place <- ThePlace
  Region <- TwoStates
  Users = {u1, u2}
  All = All
  Queries <- BothStates
  Excluded = {}
  PageSize = 1
  LookupLimit = 1
  MaxPerCompany = 1
  MaxEdits = 0
  MaxClock = 1
INVARIANT
  CorrectAcrossPages
