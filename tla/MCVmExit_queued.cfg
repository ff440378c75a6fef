SPECIFICATION Spec
CONSTANTS
  Insns = {"plain", "iret", "ud"}
  MaxDepth = 2
  VectoringInfo <- AllVectoring
  AsyncInStep = FALSE
  GuestBtf = FALSE
PROPERTIES QueuedIsTheOther
