\* Duplicates, skewed clocks, stalled goroutines, rotations, restarts.
SPECIFICATION Spec
CONSTANTS
  m1 = m1  m2 = m2  m3 = m3  d1 = d1  d2 = d2  d3 = d3  k1 = k1  k2 = k2  k3 = k3
  Msgs = {m1}
  Deliveries = {d1, d2}
  Action <- AllStatus
  Secrets = {k1, k2, k3}
  Null = Null
  Window = 1
  Retention = 3
  Cooldown = 2
  Stall = 1
  MaxSkew = 1
  MaxRuns = 2
  MaxTime = 4
INVARIANTS AcceptedOnce ShownCodeDurable
SYMMETRY DeliverySymmetry
CHECK_DEADLOCK FALSE
