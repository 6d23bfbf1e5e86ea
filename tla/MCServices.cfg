CONSTANTS
  a = a
  e = e
  c1 = c1
  c2 = c2
  r1 = r1
  Chars = {a, e}
  Width <- MCWidth
  Size = 4
  Callers = {c1, c2}
  Ids = {r1}
  Pages <- MCPages
  Requests <- MCRequests
  TextOf <- MCTextOf
  MaxChanges <- MCMaxChanges
  i1 = i1
  s1 = s1
  s2 = s2
  d1 = d1
  d2 = d2
  g1 = g1
  g2 = g2
  x = x
  y = y
  None = None
  Stores = {i1}
  Texts = {x, y}
  NoText = None
  InWorktree = FALSE
  TakeTurns = FALSE
  WritesFail = TRUE
  maxRevisions = 2
  MaxEdits = 2
  MaxLines = 2
  MaxStarts = 1
  Pollers = {i1}
  PollSessions = {s1, s2}
  Dirs = {d1, d2}
  Cwd <- MCCwd
  Repos = {g1, g2}
  GitDir <- MCGitDir
  DiffTexts = {x, y}
  PublishFails = TRUE
  MaxPollEdits = 1
  MaxPollStarts = 1
  t1 = t1
  t2 = t2
  u1 = u1
  u2 = u2
  main = main
  a1 = a1
  Main = main
  Subagents = {a1}
  Plans = {x, y}
  NoPlan = None
  Models = {u1, u2}
  NoModel = None
  maxPendingCalls = 1
  maxPlanRevisions = 2
  MaxRead = 5
  Savers = {t1, t2}
  Keys = {u1, u2}
  Values = {x}
  Unset = None
  Bad = y
  Garbage = Garbage
  MaxSaves = 2
  MaxConfigCrashes = 1
  MaxConfigStarts = 1
  Sessions = {s1}
  Instances = {i1}
  Retention = 2
  SnapshotRetention = 1
  RecordRetention = 1
  MaxWrites = 3
  MaxSteps = 2
  MaxStateCrashes = 1
  StatSessions = {t1, t2}
  ToolUses = {u1, u2}
  NoUse = None
  Points = {1}
  Decisions <- MCDecisions
  Persists = TRUE
  maxSessions = 1
  maxPermissionRequests = 2
  maxPendingCommands = 1
  MaxRecords = 4
  MaxMishaps = 1
  Clients = {t1, t2}
  Agents = {u1, u2}
  AllAgents = None
  maxSSEClients = 1
  subscriberBuffer = 1
  MaxEvents = 3
  MaxVisits = 2
SPECIFICATION Spec
SYMMETRY Symmetry
INVARIANT TypeOK
INVARIANT OneHistory
INVARIANT ShownIsOwn
INVARIANT StatsKept
INVARIANT CommandsMatch
INVARIANT VerdictsExact
INVARIANT ProposedPlansKept
INVARIANT EditsKept
INVARIANT RowComesTrue
INVARIANT FilesKept
INVARIANT FeedInOrder
INVARIANT PagesOnce
INVARIANT PartsAgree
INVARIANT ChunksJoin
CHECK_DEADLOCK FALSE
