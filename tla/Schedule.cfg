SPECIFICATION FairSpec
CONSTANTS
  DayHours = 1
  WeekDays = 2
  LongWeek = 0
  ShortWeek = 0
  ShortDay = 1
  Weeks <- MCWeeks
  Changed <- MCChanged
CONSTRAINT HourlyReminder
CONSTRAINT Bounded
CONSTRAINT OneEditor
INVARIANTS NotAhead LossBounded RemainingFits
PROPERTIES FiresOnTime  CheckEnds
