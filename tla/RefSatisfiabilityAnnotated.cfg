CONSTANTS
  N = 3
  Body <- MCBody
SPECIFICATION Spec
INVARIANT AcceptedModelsHaveValues
\* The check stops with a verdict.
CHECK_DEADLOCK FALSE
