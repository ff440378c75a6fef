SPECIFICATION FairSpec
CONSTANTS
  Insns = {"plain", "iret", "version", "lapic", "cpuid", "ud"}
  MaxDepth = 2
  VectoringInfo <- NoVectoring
  AsyncInStep = TRUE
  GuestBtf = TRUE
INVARIANTS OneForcedContext ForcedInv MappedIffStepping
PROPERTIES StepCompletes
