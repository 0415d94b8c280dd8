SPECIFICATION TrimmedSpec
CONSTANTS
  a1 = a1
  w1 = w1
  w2 = w2
  None = None
  Alerts <- OneAlert
  Workers <- TwoWorkers
  MaxAttempts = 2
CHECK_DEADLOCK FALSE
INVARIANTS
  BudgetBoundsSends
  OneSenderPerAttempt
  DuplicateNeedsFault
PROPERTY NoAlertForgotten
