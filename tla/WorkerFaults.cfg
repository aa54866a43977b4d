\* Two workers and every fault.
SPECIFICATION Spec
CONSTANTS
  Workers = {w1, w2}
  Null = Null
  Faults = {"write", "sleep", "slow", "crash", "reboot", "linger"}
  MaxRelease = 1
  MaxDays = 1
  MaxRuns = 3
SYMMETRY WorkerSymmetry
CHECK_DEADLOCK FALSE
INVARIANTS RunningReleaseKept
PROPERTIES OutcomeTruthful
