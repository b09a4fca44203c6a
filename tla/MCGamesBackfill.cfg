CONSTANTS
    home = home
    away = away
    other = other
    p = p
    q = q
    here = here
    abroad = abroad
    NoCity = NoCity
    Nothing = Nothing
    NumGames = 3
    Teams <- MCTeams
    Home <- MCHome
    Players <- MCPlayers
    Cities <- MCCities
    Boxes <- MCBoxes
    Selections <- MCSelections
    MaxChanges = 4
SPECIFICATION Spec
INVARIANTS
    GamesAreWhole
    ReportIsTrue
PROPERTIES
    WritesAreDue
