CONSTANTS
  w1 = w1
  w2 = w2
  q1 = q1
  serper = serper
  wikipedia = wikipedia
  duckduckgo = duckduckgo
  Worker <- MCWorker
  Query <- MCQuery
  Metered <- MCMetered
  Keyed <- MCMetered
  Wikipedia = wikipedia
  DuckDuckGo = duckduckgo
  Routes <- MCRoutes
  Quota = 2
  Threshold = 1
  Endpoints = 2

SPECIFICATION HistorySpec

INVARIANTS
  QuotaBounded
  RefusalHeeded
  RepeatsBounded

SYMMETRY Workers
