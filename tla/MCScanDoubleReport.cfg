\* Violated: the digest of a scan overlaps the next scan, and both mail the job.
SPECIFICATION Spec
CONSTANTS
  a = a
  b = b
  k1 = k1
  k2 = k2
  NoSource = NoSource
  NoProc = NoProc
  Sources = {a, b}
  Keys = {k1}
  Scans = {cron, runnow}
  Daily = {}
  Checkers = {}
  Lists <- ApartLists
  Screened <- ApartLists
  Seeded = {a}
  Edits = {}
  MaxEdits = 0
  MaxFaults = 0
INVARIANT MailedOnce
CHECK_DEADLOCK FALSE
