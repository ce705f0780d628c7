CONSTANTS
    Calls = {q1, q2, a1, a2}
    Questions = {q1, q2}
    Costs = {1, 2}
    DailyBudget = 3
    MonthlyBudget = 4
    MaxDay = 1
SPECIFICATION Spec
SYMMETRY Symmetries
CHECK_DEADLOCK FALSE
INVARIANTS
    TypeOK
    DailyBudgetHeld
    BooksBalance
