CONSTANTS
  N = 3
  Body <- MCBody
SPECIFICATION Spec
INVARIANTS
  TypeOK
  RejectionIsSound
  AcceptanceIsComplete
  PathIsLasso
PROPERTY Terminates
\* The check stops with a verdict.
CHECK_DEADLOCK FALSE
