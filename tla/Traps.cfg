CONSTANTS
  SameLabel = FALSE
  QueueSize = 3
  Devices = {"parity", "debugger", "vsync", "keyboard"}
  PortWrites <- TrapWrites
  Instructions <- AllInstructions
  SoftInts = {3}
SPECIFICATION FairSpec
PROPERTIES TakenInOrder FillsHeldOff HeldOff AcceptedIsTaken
