CONSTANTS
  MaxPrefixes = 3
  Programs <- AllPrograms
  Boot <- BootProgram
  Vectors <- Interrupts40
  Answers <- SomeAnswers
SPECIFICATION FairSpec
INVARIANTS Calculations Conditions StringsScan Undisturbed
PROPERTIES Coherent InterruptsUndone Finishes
