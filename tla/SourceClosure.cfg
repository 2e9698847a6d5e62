CONSTANTS
  Files <- MCFiles
  Absolute = Absolute
  InputSets <- MCInputSets
  ReferenceGraphs <- MCReferenceGraphs
  Disks <- MCDisks
  SchemaNames <- MCSchemaNames
  Stem <- MCStem
  Reserved = {"note.txt"}
  ReservedAtTop = {"definitions"}
SPECIFICATION Spec
INVARIANTS
  TypeOK
  AcceptedIsClosure
  RejectedForCause
  Reproducible
PROPERTY Terminates
\* A load stops with a verdict.
CHECK_DEADLOCK FALSE
