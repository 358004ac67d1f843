\* Three server threads, one URL check and the trigger on a pool of four; two runs per window of three ticks.
SPECIFICATION RunSpec
CONSTANTS
  Threads = {t1, t2, t3}
  MaxAttempts = 2
  Window = 3
  MaxLag = 1
  Horizon = 6
  NoReading = NoReading
  Checkers = {check}
  Trigger = trigger
  NoProc = NoProc
  MaxConns = 4
INVARIANTS
  ConnectionsAccounted
  NeverOverLimit
  HolderCanGoOn
PROPERTIES
  RefusalJustified
  SchedulerServed
SYMMETRY Alike
