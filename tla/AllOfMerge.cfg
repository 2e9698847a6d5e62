CONSTANTS
  SafeInteger = 6
  LargestInteger = 10
  Contained <- MCContained
  Rejected = Rejected
  Open = Open
  Closed = Closed
  BranchLists <- MCBranchLists
  Target <- MCTarget
  Values <- MCValues
  MergeBelow <- MCMergeBelow
  ConjunctsBelow <- MCConjunctsBelow
  AcceptsBelow <- MCAcceptsBelow
  CauseBelow <- MCCauseBelow
  MaxBranches <- MCMaxBranches
  Children <- MCChildren
  Schemas <- MCSchemas
  Nesting <- MCNesting
SPECIFICATION Spec
INVARIANTS
  TypeOK
  MergedIsConjunction
  OrderDoesNotMatter
  UnmergeableForCause
  AcceptedNodesHaveValues
\* A node that is accepted or rejected is done.
CHECK_DEADLOCK FALSE
