SPECIFICATION FairSpec
CONSTANTS
  Raisers <- MCRaisers
  QueueSize = 1
  MaxAlarms = 2
  MaxAcks = 1
INVARIANTS AlarmsAccounted NothingStuck UploadKeepsAwake  SyncArmed
PROPERTY PeriodReleased
