\* Two team pages, a player page and one audit.
CONSTANTS
  None = None
  NONE = None
  Files <- MCFiles
  MayHold <- MCMayHold
  Caches <- MCCaches
  Histories <- MCHistories
  MaxLoads = 5
SPECIFICATION Spec
CONSTRAINT Auditing
INVARIANTS
  PassMeansCovered
  PassMeansCurrent
  HonestLoadPasses
CHECK_DEADLOCK FALSE
