\* Two overlapping invocations, exceptions and crashes; the user adds, deletes, disables, removes, clears.
SPECIFICATION Spec
CONSTANTS
  a = a
  b = b
  k1 = k1
  k2 = k2
  NoSource = NoSource
  NoProc = NoProc
  Sources = {a, b}
  Keys = {k1}
  Scans = {cron, runnow}
  Daily = {cron}
  Checkers = {}
  Lists <- OneLists
  Screened <- OneLists
  Seeded = {a}
  Edits = {"add", "delete", "toggle", "remove", "clear"}
  MaxEdits = 2
  MaxFaults = 1
INVARIANTS
  TypeOK
  NewOnce
  ProgressTellsTheTruth
  UnfinishedRunMeansFault
PROPERTIES
  SweepJustified
  RemovalJustified
  ImplementsLifecycle
