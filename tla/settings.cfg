SPECIFICATION FairSpec
CONSTANTS
  Keys = {1, 2}
  AgentRules = 2
  Entries = {a1}
  Whole = a1
  Nothing = Nothing
  SavedBefore = TRUE
  MaxCalls = 2
  MaxEdits = 2
  MaxTroubles = 1
INVARIANTS TypeOK SnapshotIsTrue
PROPERTY EditsSettle
