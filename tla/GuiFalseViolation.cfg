SPECIFICATION GuiSpec
CONSTANTS
  v1 = v1
  v2 = v2
  Budgets <- MCBudgets
  Grace = 1
  Threads = 24
  RecentRows = 2
  MaxNow = 1
INVARIANTS RecentAreViolations
CHECK_DEADLOCK FALSE
