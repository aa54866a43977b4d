\* Two refreshes of three devices by pools of two.
SPECIFICATION Spec
CONSTANTS
  Ids = {1, 2, 3}
  Reqs = {r1, r2}
  Concurrency = 2
  FreshFor = 2
  RetryAfter = 1
  Null = Null
  Deleted = Deleted
  MaxVersion = 2
  MaxTime = 2
SYMMETRY ReqSymmetry
CHECK_DEADLOCK FALSE
INVARIANTS OneVersionPerStatus WaitsAreServed
PROPERTIES NobodyForgotten LookupsSpaced
