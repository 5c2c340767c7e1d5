CONSTANTS
  w1 = w1
  w2 = w2
  Worker = {w1, w2}
  Topics <- MCTopics
  Tries = 2
  Slots = 1
  TtlPage = 1
  TtlSearch = 2
  TtlWiki = 2
  TtlHeadcount = 1
  MaxAsks <- MCAsks
  MaxFailures = 1
  LastDay = 3

SPECIFICATION LookupsSpec

INVARIANTS
  FreshEnough
  OutageForgotten

PROPERTIES
  LookupsEnd

CHECK_DEADLOCK FALSE
