CONSTANTS
  Ring = 4
  Pressed <- OneLetter
  Commands = {"clear"}
  Cpm = TRUE
SPECIFICATION FairSpec
INVARIANTS KeyAnnounced
PROPERTIES KeyTraps ReceiveReturns
