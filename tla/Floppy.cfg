CONSTANTS
  Cylinders = 2
  Heads = 2
  Sectors = 2
  SectorLength = 2
  SizeOf <- Sizes
  SyncLength = 2
  ZeroRun = 2
  PrefixLength = 1
  GapLength = 1
  IdLimit = 3
  DataLimit = 5
  VerifyPulses = 2
  AddressPulses = 2
  IdlePulses = 2
  PulseBytes = 1
  Gap4a = 1
  FirstByte = 3
  Clobbered = 0
  Junk = {78}
  Stale = {0}
  Image <- Disks
  Protected = {1}
  Programs <- AllPrograms
  Lowest <- BelowTrack0
  Highest = 3
SPECIFICATION Spec
INVARIANTS Coherent
PROPERTIES EndsWithInterrupt InterruptsForReason WholeSectors Arrives VerifiedTrack WritesOneSector SearchesFully
