CONSTANTS
  Exchanges = {x1, x2}
  Scrapes = {c1}
  Http1Only = TRUE
  Garbage = Garbage
  Absent = Absent
  Settings <- MCSettings
SPECIFICATION FairStartSpec
INVARIANTS StartTypeOK ExitTellsTheDrain ShutInOrder SettingsHold ExitTellsWhoseFault
PROPERTIES RunEnds
CHECK_DEADLOCK FALSE
