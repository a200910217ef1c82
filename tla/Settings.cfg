SPECIFICATION Spec
CONSTANTS
  Threads <- MCThreads
  Clearers <- MCClearers
  Tested <- MCSettingsTested
  Values <- MCValues
CONSTRAINT CountBound
CONSTRAINT WholeBoot
INVARIANT SavedUnlessRaced
 
INVARIANT ClearRestores
