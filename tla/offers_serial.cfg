SPECIFICATION Spec
CONSTANTS
  DayMinutes = 7
  AuxMin = 1
  ChannelMin = 1
  OtMin = 1
  ShiftMin = 1
  Clients = {c1}
  Agents = {"a1", "a2"}
  Offers = {"vto", "late", "later"}
  Window <- MCWindow
  FirstDays <- MCDays
  Eligibles <- MCAnyone
  Capacities <- MCCapacities
  Segs = {1, 2}
  RowIds = {1}
  MaxCuts = 1
  Overlap = FALSE
  None = None
INVARIANTS TypeOK CapacityRespected DaysAreTheirClaims
