CONSTANTS
  c1 = c1
  c2 = c2
  l1 = l1
  l2 = l2
  Callers = {c1, c2}
  Wideners = {c1}
  Loaders = {l1, l2}
  Windows = {2, 5}
  InitWindow = 3
  Everything = 9
  Keepalive = TRUE
  MaxCalls = 4
SPECIFICATION FairSpec
INVARIANT TypeOK
INVARIANT KeepaliveSafe
INVARIANT PeriodSound
INVARIANT NothingSkipped
INVARIANT WidenerAnswersComplete
PROPERTY KeepsContract
PROPERTY WaitEnds
CHECK_DEADLOCK FALSE
