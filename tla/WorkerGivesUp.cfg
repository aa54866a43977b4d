\* A service that stops too late.
SPECIFICATION FairSpec
CONSTANTS
  Workers = {w1}
  Null = Null
  Faults = {"slow"}
  MaxRelease = 1
  MaxDays = 0
  MaxRuns = 3
CHECK_DEADLOCK FALSE
PROPERTIES PreviousServiceKept
