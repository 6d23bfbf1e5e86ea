CONSTANTS
  i1 = i1
  i2 = i2
  clean = clean
  t1 = t1
  t2 = t2
  Instances = {i1}
  Trees = {clean, t1}
  Clean = clean
  Buffer = 3
  WritesFail = FALSE
  Busy = FALSE
  MaxTurns = 2
  MaxTip = 1
  MaxStarts = 0
SPECIFICATION DiffFairSpec
PROPERTY EachTurnIsDiffed
CHECK_DEADLOCK FALSE
