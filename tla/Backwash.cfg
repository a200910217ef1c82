SPECIFICATION FairSpec
CONSTANTS
  Requesters <- SchedulerAndLink
  Shown <- Windows
  GUIWINMANAGE_NUM = 4
  Refreshes = 1
CONSTRAINT FewEvents
CONSTRAINT Focus
INVARIANT Rooted
INVARIANT UpdateIsGuarded
INVARIANT OutcomeUnlocks
PROPERTY FinishDisappears
