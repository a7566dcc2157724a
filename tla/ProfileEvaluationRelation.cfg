SPECIFICATION Spec
CONSTANTS
  none = none
  NoId = none
  Documents <- MCDocuments
INVARIANT
  GrandparentsAreNotParents
CHECK_DEADLOCK FALSE
