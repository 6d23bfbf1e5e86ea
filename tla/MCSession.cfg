CONSTANTS
  main = main
  a1 = a1
  f1 = f1
  p1 = p1
  p2 = p2
  i1 = i1
  clean = clean
  l1 = l1
  k1 = k1
  x = x
  y = y
  NoTitle = NoTitle
  Claude = {l1}
  Codex = {k1}
  Titles = {x, y}
  Plain <- MCPlain
  IsIn <- MCIsIn
  MaxWrites = 3
  MaxStops = 1
  NoId = NoId
  Calls = {p1, p2}
  Sources = {"config", "user_abort", "user_temporary"}
  denialBudget = 2
  maxPermissionRequests = 2
  MaxRecords = 4
  MaxMishaps = 1
  Main = main
  Agents = {a1}
  Instances = {i1}
  Trees = {clean, p1, p2}
  Clean = clean
  Buffer = 1
  WritesFail = TRUE
  Busy = TRUE
  MaxTurns = 3
  MaxTip = 2
  MaxStarts = 1
  NoTool = NoTool
  NoRequest = NoRequest
  NoMode = NoMode
  NoModel = NoModel
  MaxPending = 2
  Requests = {p1, p2}
  Paths = {f1}
  Prompts <- MCPrompts
  Chunks <- MCChunks
  Denials = {"", "user-rejected"}
  Notices = {"plan_mode_exit"}
  MaxSkills = 2
  MaxSubagents = 1
  MaxTouched = 1
  Depth = 1
  SubDepth = 2
  DenialBudget = 1
  OtherBudget = 2
  MaxLines <- MCMaxLines
  MaxTotal = 5
SYMMETRY Symmetry
SPECIFICATION SessionSpec
INVARIANT TypesOK
INVARIANT Conserved
INVARIANT UsageExact
INVARIANT CountersExact
INVARIANT DenialsKept
INVARIANT ResultsFindCalls
INVARIANT LastWorkServed
INVARIANT TitleSettles
INVARIANT FoundByTitle
INVARIANT DenialsReconciled
PROPERTY BaseStays
PROPERTY NeverGoesBack
CHECK_DEADLOCK FALSE
