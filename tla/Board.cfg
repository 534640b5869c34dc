CONSTANTS
  Columns = 2
  Rows = 3
  Pitch = 3
  PlaneSize = 12
  StartRow = 2
  Codes = {97, 89, 74, 32, 8, 10, 13, 27, 200}
  SectorSize = 2
  SectorsPerTrack = 2
  Half = 2
  MemorySize = 2
  Values = {0, 1}
  Sectors = {0, 1}
  Tracks = {0, 1}
  Names = {"a.cpm", "_b.img"}
  Protected = {"_b.img"}
  Floppies = {"_b.img"}
  FirstFiles <- SomeFiles
  FirstNames <- SomeNames
  MaxKeys = 2
SPECIFICATION FairSpec
INVARIANTS Coherent StopsSoon
PROPERTIES WritesOneSector PauseAnswered ActsAsTerminal
