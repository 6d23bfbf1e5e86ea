CONSTANTS
  root = root
  project = project
  subagents = subagents
  p = p
  s = s
  Parents = {p}
  Subs = {s}
  Dirs = {root, project, subagents}
  Root = root
  ParentOf <- MCParentOf
  In <- MCIn
  Place <- MCPlace
  Horizon = TRUE
  CanOverflow = TRUE
  MaxSize = 4
  MaxStops = 1
SPECIFICATION Spec
INVARIANT TypeOK
INVARIANT InOrderOnce
INVARIANT SubsHaveSession
PROPERTY LoadIsComplete
