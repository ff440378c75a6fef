SPECIFICATION Spec
CONSTANTS
  Insns = {"plain", "iret", "version", "lapic"}
  MaxDepth = 2
  VectoringInfo <- NoVectoring
  AsyncInStep = FALSE
  GuestBtf = TRUE
PROPERTIES BtfReenabled
