\* The cron trigger and a URL check against SMTP failures, an exception or a crash, and the user's edits.
SPECIFICATION FairSpec
CONSTANTS
  a = a
  b = b
  k1 = k1
  k2 = k2
  NoSource = NoSource
  NoProc = NoProc
  Sources = {a, b}
  Keys = {k1}
  Scans = {cron}
  Daily = {cron}
  Checkers = {check}
  Lists <- SharedLists
  Screened <- HalfScreened
  Seeded = {a}
  Edits = {"delete", "hide", "resend", "import", "clear"}
  MaxEdits = 1
  MaxFaults = 1
INVARIANTS
  MailedOnce
  EmailedMeansMailed
PROPERTIES
  EventuallyMailed
  LockReturned
