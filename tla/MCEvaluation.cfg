\* Two overlapping evaluations over a database that changes.
CONSTANTS
  None = None
  NONE = None
  METRICS = {"efg_pct"}
  WINDOWS = {1, None}
  RESULTS_CUTOFF_DAYS = 2
  REST_DAYS_CAP = 7
  DENSITY_DAYS = 7
  FIRST_HISTORY_SEASON = 2020
  FIRST_TRAINING_SEASON = 2021
  VALIDATION_SEASONS = {2022, 2023}
  CALIBRATION_SEASON = 2023
  SELECTION_SEASON = 2024
  TEST_SEASON = 2025
  TrainingWindows <- MCTrainingWindows
  Specs <- MCSpecs
  SIMPLICITY_ORDER <- MCSimplicityOrder
  GAME_INVENTORY <- MCInventory
  Loss <- MCLoss
  Clearly <- MCClearly
  fit_sigmoid <- MCSigmoid
  Bytes <- MCBytes
  Runs = {1, 2}
  FirstDatabases <- MCFirstDatabases
  Late <- MCLate
  Corrected = {4, 9, 11}
  MaxChanges = 1
  MaxKills = 1
SPECIFICATION EvaluationSpec
INVARIANTS
  NothingLeaks
  PublishedIsSound
PROPERTY ReportGetsPublished

\* A history with a blank score is refused until somebody fills it.
CHECK_DEADLOCK FALSE
