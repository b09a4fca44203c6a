CONSTANTS
    all = all
    All = all
    NotThere = NotThere
    TeamPages = {1}
    PlayerPages = {2, 3}
    PilotPages = {4, 5}
    Years = {2000}
    Files <- MCFiles
    Options <- MCOptions
    Max5xx = 1
    Max429 = 1
    MaxRedirects = 1
SPECIFICATION Spec
INVARIANTS
    DamageIsBounded
    ReportIsHonest
PROPERTIES
    ArchiveIsKept
    ArchiveGetsFilled
CHECK_DEADLOCK FALSE
