CONSTANTS
  Files = {"a", "b"}
  Models <- MCModels
  Names = {"p", "q"}
  Nodes <- MCNodes
  Target <- MCTarget
  AllOf <- MCAllOf
  Nesting <- MCNesting
  MaxNesting = 1
  Own <- MCOwn
  Child <- MCChild
  Unions <- MCUnions
  Bodies <- MCBodies
  Orders <- MCOrders
  Here = Here
  None = None
  MaxDepth = 5
  Horizon = 7
SPECIFICATION Spec
INVARIANT ReferencesKeepTheirMeaning
\* A load stops with a verdict, or at the bound of the recursion.
CHECK_DEADLOCK FALSE
