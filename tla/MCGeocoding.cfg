\* Two scans and one override request, over two locations, with a restart or an exception.
SPECIFICATION FairSpec
CONSTANTS
  Locations = {l1, l2}
  NoLocation = NoLocation
  Jobs = {j1}
  Scans = {s1, s2}
  NoScan = NoScan
  Requests = {h1}
  MaxFaults = 1
INVARIANTS
  TypeOK
  FailedMeansDenied
PROPERTIES
  ResolvedKept
  OverrideKept
  PendingSettles
