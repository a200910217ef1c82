SPECIFICATION FairSpec
CONSTANTS
  Volts <- MCVolts
  MaxClicks = 2
INVARIANTS DarkWhenAsleep LitHasTimer LongPressSeen SupplyAgrees
PROPERTY WakeShows
