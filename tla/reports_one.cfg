SPECIFICATION ReportsFairSpec
CONSTANTS
  Servers = {w1}
  Subs = {s1, s2}
  Null = Null
  MaxTime = 2
  MaxCrashes = 1
  Schedules <- MCNarrow
INVARIANTS ReportsTypeOK OncePerMoment
PROPERTY DueIsTakenUp
