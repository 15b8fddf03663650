SPECIFICATION FairSpec
CONSTANTS
  Dates = {d1}
  Today = d1
  Agents = {a1, a2}
  Nothing = Nothing
  SavedBefore = TRUE
  Overlap = TRUE
  MaxCalls = 3
  MaxEdits = 2
  MaxTroubles = 1
INVARIANTS TypeOK SnapshotsAreTrue
PROPERTIES ImplementsCopies EditsAreSaved
CHECK_DEADLOCK FALSE
