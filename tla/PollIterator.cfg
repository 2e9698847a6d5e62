CONSTANTS
  MaxOffset = 3
  PageSize = 2
  MaxFailures = 1
  MaxCrashes = 1
  None = None
SPECIFICATION Spec
INVARIANTS
  TypeOK
  NothingSkipped
  InLockstep
  ResumesAfterTheLastItem
  RepeatsOnePage
  NeverYieldsTwice
PROPERTIES
  SavedMovesForward
  ImplementsItemDelivery
  EveryRecordIsHandedOut
\* A stopped iterator of a complete service has nothing left to do.
CHECK_DEADLOCK FALSE
