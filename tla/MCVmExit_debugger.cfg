\* A guest that single-steps itself; nothing is queued.
SPECIFICATION Spec
CONSTANTS
  Insns = {"plain", "popf", "iret", "version", "lapic", "ud", "sysGp"}
  MaxDepth = 2
  VectoringInfo <- NoVectoring
  AsyncInStep = FALSE
  GuestBtf = FALSE
INVARIANTS FlagsInv
PROPERTIES ImplementsBareMetal
