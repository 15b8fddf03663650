SPECIFICATION Spec
CONSTANTS
  Clients = {c1, c2}
  Keys = {k1, k2}
  Skip = Skip
  None = None
  Overlap = FALSE
  MaxVersion = 3
  MaxRows = 1
  Cols <- MCCols
  Vals <- MCVals
  Valid <- MCValid
  ZoneConflicts <- MCZones
  Edits <- MCEdits
  Edit <- MCEdit
SYMMETRY MCBothSymmetry
INVARIANTS TypeOK
PROPERTIES ChangesAreTold SaveReplacesWhatWasLoaded
