\* Two or three backfill runs over cached pages, serial or overlapping, with crashes.
CONSTANTS
  r1 = r1
  r2 = r2
  r3 = r3
  None = None
  Runs = {r1, r2, r3}
  Commands = {"stats", "player-stats", "player-postseason-stats"}
  Rows <- MCRows
  Paths <- MCPaths
  PageLists <- MCPageLists
  TeamPages <- MCTeamPages
  Roster <- MCRoster
  NONE = None
SPECIFICATION MCSpec
CONSTRAINT Bound
SYMMETRY Symmetry
INVARIANTS
  RowsAreReported
  LoadedRowsPersist
  DuplicatesNeitherWin
  RowIsOneParse
  CleanExitMeansLoaded
CHECK_DEADLOCK FALSE
