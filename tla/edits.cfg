SPECIFICATION EditsSpec
CONSTANTS
  DayMinutes = 8
  AuxMin = 2
  ChannelMin = 2
  OtMin = 2
  ShiftMin = 4
  Grid = 1
  Interval = 2
  DefaultChannel = "phone"
  Off = "off"
  Teams <- MCTeams
  Drags <- MCDrags
  Deltas <- MCDeltas
  Staggers = {1}
  Rules <- MCRules
  Compliance <- MCCompliance
  Needs <- MCNeeds
  ChatMin = 1
INVARIANTS EditsTypeOK MinutesAddUp OvertimeAddsUp PhonesFirst RulesKeepTheirWord
PROPERTIES EditsLandValid NoFurtherIn
CHECK_DEADLOCK FALSE
