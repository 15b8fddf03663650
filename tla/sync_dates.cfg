SPECIFICATION SpecDates
CONSTANTS
  Dates = {d1, d2}
  Today = d1
  Agents = {a1}
  Nothing = Nothing
  SavedBefore = TRUE
  Overlap = FALSE
  MaxCalls = 3
  MaxEdits = 1
  MaxTroubles = 1
PROPERTIES ServerWins
