CONSTANTS
  root = root
  project = project
  subagents = subagents
  p = p
  s = s
  Parents = {p}
  Subs = {s}
  Dirs = {root, project, subagents}
  Root = root
  ParentOf <- MCParentOf
  In <- MCIn
  Place <- MCPlace
  Horizon = TRUE
  CanOverflow = TRUE
  MaxSize = 2
  MaxStops = 0
SPECIFICATION FairSpec
PROPERTY EventuallyRead
PROPERTY EventuallyWatched
