CONSTANTS
  Documents <- MCDocuments
  Words <- MCWords
  Recased <- MCRecased
SPECIFICATION Spec
INVARIANTS
  TypeOK
  EveryShapeHasItsPositionsName
  RejectedForCause
PROPERTY
  Terminates
\* A document that is accepted or rejected is done.
CHECK_DEADLOCK FALSE
