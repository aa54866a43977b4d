\* A suspension and a shutdown, delivered in any order, one of them twice.
SPECIFICATION FairSpec
CONSTANTS
  m1 = m1  m2 = m2  m3 = m3  d1 = d1  d2 = d2  d3 = d3  k1 = k1  k2 = k2  k3 = k3
  Msgs = {m1, m2}
  Deliveries = {d1, d2, d3}
  Action <- MixedActions
  Secrets = {k1}
  Null = Null
  Window = 0
  Retention = 0
  Cooldown = 1
  Stall = 0
  MaxSkew = 0
  MaxRuns = 1
  MaxTime = 2
INVARIANTS CommandsSpaced SuccessIsReal
PROPERTIES RefusedForCause RequestsEnd
CHECK_DEADLOCK FALSE
