SPECIFICATION Spec
CONSTANTS
  Threads = {"uart"}
  Clearers = {}
  Tested = {"TDS_CND"}
  Values = {20}
INVARIANTS
  SettingsSurviveRestart
