CONSTANT Stroke <- MCStroke
SPECIFICATION FairSpec
INVARIANTS
  
  SleepReleased
  DeadlinePending
  FinishFlushed
PROPERTIES
  CycleReportsOutcome
  
