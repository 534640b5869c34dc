CONSTANTS
  Radix = 2
  Limit = 1
  Costs = {1}
  Programs <- CascadePrograms
  Values <- AllBytes
  Readers = {0}
  Stray = FALSE
  MaxBacklog = 2
SPECIFICATION Spec
INVARIANTS LatchedReads
PROPERTIES OutOnTime
