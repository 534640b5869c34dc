CONSTANTS
  Radix = 4
  Limit = 2
  Costs = {1, 2}
  Programs <- ModePrograms
  Values <- AllBytes
  Readers = {}
  Stray = TRUE
  MaxBacklog = 3
SPECIFICATION Spec
PROPERTIES OutOnTime
