\* A season that is over and one in progress.
CONSTANTS
  None = None
  NONE = None
  Seasons <- MCSeasons
  Calendar <- MCCalendar
  Months <- MCMonths
  Windows <- MCWindows
  EXPECTED_SELECTED_GAMES <- MCExpected
  REGULAR_SEASON_GAMES_PER_TEAM = 2
  MAX_SEASON_URLS = 6
  FirstDay = 10
  LastDay = 18
  FirstPages <- MCFirstPages
  Foreign <- MCForeign
  MaxSlips = 1
SPECIFICATION PlanSpec
INVARIANT SelectionIsExact
PROPERTIES
  FetchedAsApproved
  SeasonGetsAcquired
CHECK_DEADLOCK FALSE
