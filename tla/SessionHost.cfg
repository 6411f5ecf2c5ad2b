CONSTANTS
  Dialogs = {d1, d2}
  Panels = {p1}
  MaxOpened = 4
  Budgets <- FourBudgets
  MaxEpochs = 2
SPECIFICATION BothSpec
INVARIANTS RepairedWholly TimersFollowHumans
PROPERTIES FeedContract NothingWaitsForever
CHECK_DEADLOCK FALSE
