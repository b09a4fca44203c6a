\* Two runs over three files, serial or overlapping, with a replaced file.
CONSTANTS
  r1 = r1
  r2 = r2
  None = None
  Runs = {r1, r2}
  Files <- MCFiles
  Approved <- MCApproved
  MayHold <- MCMayHold
  Archives <- MCArchives
  Histories <- MCHistories
  WorkerCounts = {2}
  BoxPlayers <- MCBoxPlayers
  Reference <- MCReference
  MaxChanges = 1
  NONE = None
SPECIFICATION Spec
SYMMETRY Symmetry
INVARIANTS
  CoreIsUnion
  ReportIsTrue
  PassMeansExact
CHECK_DEADLOCK FALSE
