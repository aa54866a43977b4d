\* Two runs in turn that may be signalled, killed or cut off by a reboot.
SPECIFICATION FairSpec
CONSTANTS
  Updaters = {u1, u2}
  AtOnce = 1
  Schema <- Migrating
  Faults = {"signal", "kill", "reboot"}
  MaxRelease = 2
  MaxWrites = 2
CHECK_DEADLOCK FALSE
INVARIANTS AlwaysBootable NoWriteLost
PROPERTIES ReportsServing RecordedMoveUndone OutageEnds
