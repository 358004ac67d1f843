\* Two users, the first one's run always raises; stops, aborted transactions, an hour-sharp RUN_CRON, restarts before, in and after its hour.
SPECIFICATION FairSpec
CONSTANTS
  Users = {1, 2}
  Raising = {1}
  LastPhase = 2
  CronPhase = 1
  HourPhase = 1
  MaxFaults = 1
  MaxEdits = 2
  MaxLoops = 1
INVARIANT TypeOK
PROPERTIES
  DayCovered
  EveryoneScanned
  LeftoversSwept
