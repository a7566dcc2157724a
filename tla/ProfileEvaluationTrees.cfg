SPECIFICATION Spec
CONSTANTS
  none = none
  NoId = none
  Documents <- MCDocuments
INVARIANTS
  TypeOK
  EveryProfileRunsOnce
  ParentsAreAbove
  ChildrenAreAggregated
  ScoresFollowRatings
CHECK_DEADLOCK FALSE
