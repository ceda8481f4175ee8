\* Batches of 2, 0, 2 and 1 transactions, a refused one, and catch-ups.
SPECIFICATION Spec
CONSTANTS
  Size <- SizesWithEmpty
  StartModes = {TRUE, FALSE}
  RefusedSizes = {1, 2}
  MaxRefused = 1
  MaxCatchups = 2
CHECK_DEADLOCK FALSE
INVARIANTS TypeOK  UncommittedTracksBatches
