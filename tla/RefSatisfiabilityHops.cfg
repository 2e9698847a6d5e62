CONSTANTS
  N = 3
  Body <- MCBody
SPECIFICATION Spec
INVARIANT EveryHopIsMandatory
\* The check stops with a verdict.
CHECK_DEADLOCK FALSE
