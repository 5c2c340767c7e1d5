CONSTANTS
  i1 = i1
  i2 = i2
  i3 = i3
  b1 = b1
  b2 = b2
  Ticket <- MCTicket
  Background <- MCBackground
  CapacityArg <- MCCapacityArg
  MaxQueuedArg <- MCMaxQueuedArg
  ReservedArg <- MCReservedArg

SPECIFICATION FairQueueSpec

INVARIANTS
  SlotsAccounted
  WithinLimits

PROPERTIES
  FairOrder
  ImplementsSlotPool
  InteractiveServed
  BackgroundServed
