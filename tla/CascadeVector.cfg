CONSTANTS
  SameLabel = FALSE
  QueueSize = 3
  Devices = {"vsync", "timer", "fdc"}
  PortWrites <- CascadeWrites
  Instructions <- SomeInstructions
  SoftInts = {}
SPECIFICATION Spec
PROPERTIES VectorFromSecondary
