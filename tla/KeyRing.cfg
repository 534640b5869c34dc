CONSTANTS
  Ring = 3
  Pressed <- Typed
  Commands = {"clear", "reset"}
  Cpm = TRUE
SPECIFICATION Spec
PROPERTIES ImplementsQueue
