SPECIFICATION Spec
CONSTANTS
  Clients = {c1, c2}
  Keys = {k1}
  Skip = Skip
  None = None
  Overlap = TRUE
  MaxVersion = 2
  MaxRows = 2
  Cols <- MCCols
  Vals <- MCVals
  Valid <- MCValid
  ZoneConflicts <- MCNoZones
  Edits <- MCEdits
  Edit <- MCEdit
SYMMETRY MCSymmetry
PROPERTIES InvalidOnlyMerged PublishedStaysPublished ResetIsFinal
