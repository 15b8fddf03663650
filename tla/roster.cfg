SPECIFICATION FairSpec
CONSTANTS
  People = {p1, p2, p3}
  Rules = {r1, r2}
  NoRule = NoRule
  Never = Never
  Staff = {p1, p2}
  LastDay = 2
  MaxOps = 4
INVARIANTS TypeOK BoardIsRoster PatternsFollowRules
PROPERTY LeaversLeave
CHECK_DEADLOCK FALSE
