CONSTANTS
  SameLabel = FALSE
  QueueSize = 3
  Devices = {"timer", "fdc"}
  PortWrites <- ControllerWrites
  Instructions <- SomeInstructions
  SoftInts = {}
SPECIFICATION Spec
INVARIANTS MasterSettled SecondarySettled LinesLatched
PROPERTIES NestsByPriority AcksDescend NoLossWithIF
