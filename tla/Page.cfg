\* A page whose device is edited and updated while it is refreshed.
SPECIFICATION FairSpec
CHECK_DEADLOCK FALSE
CONSTANTS
  here = here
  there = there
  Clients = {here, there}
  Here = here
  Null = Null
  MaxEdits = 2
  MaxChecks = 2
  MaxFaults = 1
INVARIANTS ClaimReleased
PROPERTIES StatusNeverOlder PageConverges
