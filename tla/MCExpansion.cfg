CONSTANTS
  s = s
  p = p
  q = q
  r = r
  Node <- MCNode
  Seed = s
  Finds <- MCFinds
  Depth = 3
  Workers = 2
  TopN = 2
  Bar = 2
  Famous = {p}
  Attempts = 1

SPECIFICATION ExpansionSpec

INVARIANTS
  NoOrphans

PROPERTIES
  CancelWins
  WalkEnds

CHECK_DEADLOCK FALSE
