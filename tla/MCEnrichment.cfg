\* Two tasks of one kind, each with two attempts, and one crash or database
\* fault, anywhere.
CONSTANTS
  Ticket = {e1, e2, i1, i2}
  Background = {e1, e2}
  CapacityArg = 2
  MaxQueuedArg = 0
  ReservedArg = 1
  Tasks = 2
  Org = {1, 2}
  MaxAttempts = 2
  MaxMishaps = 1

SPECIFICATION FairEnrichSpec

CONSTRAINT Company

INVARIANTS
  TicketsFollowExecutors
  DoneMeansSettled

PROPERTIES
  SettledStays
  ExecutorEnds
