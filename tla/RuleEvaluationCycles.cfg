SPECIFICATION Spec
CONSTANTS
  root = root
  left = left
  right = right
  twin = twin
  Codes = {"A", "B", "R", "X"}
  Nodes <- TwinNodes
  CodeOf <- TwinCodeOf
  Preorder <- TwinPreorder
  Postorder <- TwinPostorder
  RuleTables <- MCCycleTables
  Prefilled <- TwinsGiven
  MaxEvaluations = 2
INVARIANTS
  TypeOK
  ComputingIsTheCallStack
  CyclesNeverSucceed
  WorkIsBounded
  DoneIsFresh
PROPERTIES
  CycleReportsAreReal
  EvaluationEnds
CHECK_DEADLOCK FALSE
