\* Violated: a job whose source was deleted and which another source lists is reset at every run.
SPECIFICATION Spec
CONSTANTS
  a = a
  b = b
  k1 = k1
  k2 = k2
  NoSource = NoSource
  NoProc = NoProc
  Sources = {a, b}
  Keys = {k1}
  Scans = {cron}
  Daily = {cron}
  Checkers = {}
  Lists <- SharedLists
  Screened <- SharedLists
  Seeded = {a, b}
  Edits = {"delete"}
  MaxEdits = 1
  MaxFaults = 0
PROPERTY EmailedStaysEmailed
