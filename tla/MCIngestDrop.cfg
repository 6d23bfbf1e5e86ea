CONSTANTS
  root = root
  project = project
  subagents = subagents
  p = p
  s = s
  Parents = {p}
  Subs = {s}
  Dirs = {root, subagents}
  Root = root
  ParentOf <- MCParentOf
  In <- FlatIn
  Place <- FlatPlace
  Horizon = FALSE
  CanOverflow = FALSE
  MaxSize = 2
  MaxStops = 0
SPECIFICATION Spec
INVARIANT NoSubDropped
CHECK_DEADLOCK FALSE
