CONSTANTS
  i1 = i1
  i2 = i2
  s1 = s1
  s2 = s2
  d1 = d1
  d2 = d2
  g1 = g1
  g2 = g2
  x = x
  y = y
  None = None
  Pollers = {i1, i2}
  PollSessions = {s1}
  Dirs = {d1}
  Cwd <- CwdSame
  Repos = {g1}
  GitDir <- GitSame
  DiffTexts = {x, y}
  PublishFails = FALSE
  MaxPollEdits = 2
  MaxPollStarts = 1
SPECIFICATION PollFairSpec
PROPERTY EventuallyCurrent
CHECK_DEADLOCK FALSE
