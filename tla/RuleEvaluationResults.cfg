SPECIFICATION Spec
CONSTANTS
  root = root
  left = left
  right = right
  twin = twin
  Codes = {"A", "B", "R", "X"}
  Nodes <- MCNodes
  CodeOf <- MCCodeOf
  Preorder <- MCPreorder
  Postorder <- MCPostorder
  RuleTables <- MCScoreTables
  Prefilled <- OutputsGiven
  MaxEvaluations = 2
INVARIANTS
  DoneIsFresh
PROPERTIES
  FreshStaysFresh
  ImplementsDependencyOrder
CHECK_DEADLOCK FALSE
