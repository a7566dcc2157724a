SPECIFICATION Spec
CONSTANTS
  top = top
  left = left
  mid = mid
  leaf = leaf
  Codes = {"A", "B", "C", "T", "X"}
  Nodes <- MCNodes
  CodeOf <- MCCodeOf
  Preorder <- MCPreorder
  Postorder <- MCPostorder
  TopLevel = {top}
  RuleTables <- MCTables
  Prefilled <- OutputsGiven
  MaxEvaluations = 2
INVARIANTS
  TypeOK
  DoneIsRight
  EarlyResultsDoNotSpread
  ComputingIsTheCallStack
  CirclesNeverSucceed
CHECK_DEADLOCK FALSE
