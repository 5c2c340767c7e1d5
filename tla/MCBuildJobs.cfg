CONSTANTS
  c1 = c1
  s1 = s1
  b1 = b1
  Ticket <- MCTicket
  Background <- MCBackground
  SearchJobs <- MCSearchJobs
  CapacityArg <- MCCapacityArg
  MaxQueuedArg <- MCMaxQueuedArg
  ReservedArg <- MCReservedArg
  Full = 2
  MaxSides = 2

SPECIFICATION FairJobsSpec

INVARIANTS
  NoTicketAbandoned
  CancelHonoured
  WorkerListed
  ExitSettles

PROPERTIES
  NeverGoesBack
  EveryJobEnds
