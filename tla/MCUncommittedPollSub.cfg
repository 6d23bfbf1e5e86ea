CONSTANTS
  i1 = i1
  i2 = i2
  s1 = s1
  s2 = s2
  d1 = d1
  d2 = d2
  g1 = g1
  g2 = g2
  x = x
  y = y
  None = None
  Pollers = {i1}
  PollSessions = {s1, s2}
  Dirs = {d1, d2}
  Cwd <- CwdEach
  Repos = {g1}
  GitDir <- GitSame
  DiffTexts = {x, y}
  PublishFails = FALSE
  MaxPollEdits = 0
  MaxPollStarts = 0
SPECIFICATION PollSpec
INVARIANT ShownIsOwn
CHECK_DEADLOCK FALSE
