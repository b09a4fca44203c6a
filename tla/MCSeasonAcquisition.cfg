CONSTANTS
    p1 = p1
    p2 = p2
    none = none
    NoBudget = none
    Operators <- MCOperators
    Budgets <- MCBudgets
    Pages = 2
    Max5xx = 1
SPECIFICATION Spec
INVARIANTS
    BudgetIsKept
    CompletedMeansCached
    ReportCountsRequests
    RunsResume
PROPERTIES
    SeasonGetsDone
