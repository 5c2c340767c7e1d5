CONSTANTS
  w1 = w1
  w2 = w2
  pru = pru
  ann = ann
  bob = bob
  cy = cy
  junk = junk
  Worker = {w1, w2}
  Person = {ann, bob, cy, junk}
  Batch <- MCBatch
  Stored = {cy, junk}
  Ties <- MCTies
  Junk = {junk, cy, bob}
  Pruner = pru
  InPlace = 1
  NodeRetries = 1
  DeleteTries = 2

SPECIFICATION StoreSpec

INVARIANTS
  NoDanglingEdge
  OwnWorkStays

PROPERTIES
  StoreSettles

CHECK_DEADLOCK FALSE
