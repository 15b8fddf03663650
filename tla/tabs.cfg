SPECIFICATION FairTabsSpec
CONSTANTS
  a = a
  b = b
  early = early
  Tabs = {t1, t2}
  Agents = {a, b, c}
  Patterns = {early}
  NoPattern = NoPattern
  WeekOff = WeekOff
  ShiftOf <- MCShiftOf
  KeepPast = 0
  Dates <- MCDates
  FirstDay = 1
  LongShift = "06-18"
  OpenSwap <- MCSwap
  Roster <- MCBoth
  MaxChanges = 1
  MaxViews = 2
  MaxPending = 4
INVARIANTS TabsTypeOK QuietTabsAgree
PROPERTIES OneDayAtATime TurnsSettle
CHECK_DEADLOCK FALSE
