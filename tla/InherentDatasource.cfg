SPECIFICATION Spec
CONSTANTS
  p = p
  q = q
  n = n
  Names = {p, q, n}
  Codes = {"A", "B", "X"}
  CodeOf <- MCCodeOf
  Rows <- MCRows
  RuleTables <- MCTables
  StackLimit = 5
  MaxEvaluations = 2
INVARIANTS
  TypeOK
  LookingBackIsSafe
  ConsolidationsSeeEveryRow
  CirclesOverflow
  InputsAreOfTheLastScript
PROPERTIES
  EvaluationEnds
CHECK_DEADLOCK FALSE
