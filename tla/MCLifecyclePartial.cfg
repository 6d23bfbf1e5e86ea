CONSTANTS
  c1 = c1
  c2 = c2
  l1 = l1
  l2 = l2
  Callers = {c1, c2}
  Wideners = {c1}
  Loaders = {l1}
  Windows = {5}
  InitWindow = 3
  Everything = 9
  Keepalive = TRUE
  MaxCalls = 3
SPECIFICATION Spec
INVARIANT CompleteAnswers
CHECK_DEADLOCK FALSE
