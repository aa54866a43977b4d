\* Two workers over two days; statuses are written, the PC does not sleep.
SPECIFICATION FairSpec
CONSTANTS
  Workers = {w1, w2}
  Null = Null
  Faults = {"slow", "crash", "reboot"}
  MaxRelease = 1
  MaxDays = 1
  MaxRuns = 3
CHECK_DEADLOCK FALSE
INVARIANTS WorkIsVisible
PROPERTIES KnownFailureRests UpdateEnds
