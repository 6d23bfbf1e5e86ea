CONSTANTS
  i1 = i1
  i2 = i2
  x = x
  y = y
  Stores = {i1, i2}
  Texts = {x, y}
  NoText = NoText
  InWorktree = FALSE
  TakeTurns = TRUE
  WritesFail = FALSE
  maxRevisions = 3
  MaxEdits = 2
  MaxLines = 2
  MaxStarts = 0
SPECIFICATION PlanSpec
PROPERTY NoneOverwritten
CHECK_DEADLOCK FALSE
