SPECIFICATION Spec
CONSTANTS
  NumProcessors = 3
  Images <- MCImages
INVARIANTS
  TypeOK
  OwnContext
  OwnResources
  GuestStateKept
  AllOrNothing
  EveryThreadVirtualised
PROPERTIES
  RunningUntouched
  LaunchCompletes
CHECK_DEADLOCK FALSE
