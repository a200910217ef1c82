SPECIFICATION Spec
CONSTANTS
  Opened <- SettingsWindows
  Popups <- PopupWindows
  MaxStack = 4
  ShortWeeks = 1
  LongWeeks = 3
  LastDay = 1
  RemotePeriods <- TenWeeks
INVARIANTS
  SelectionShown
  
PROPERTY EraseConfirmed
