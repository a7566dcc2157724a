SPECIFICATION Spec
CONSTANTS
  a = a
  b = b
  bank = bank
  insurer = insurer
  typeless = typeless
  NoSandi = NoSandi
  Sandis = {a, b}
  Companies = {bank, insurer, typeless}
  TypeOf <- MCTypeOf
  Documents <- MCDocuments
  MaxCalls = 2
INVARIANTS
  SourceEvaluationsSucceed
CHECK_DEADLOCK FALSE
