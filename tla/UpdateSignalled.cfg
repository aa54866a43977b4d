\* One run that is signalled.
SPECIFICATION Spec
CONSTANTS
  Updaters = {u1}
  AtOnce = 1
  Schema <- Migrating
  Faults = {"signal"}
  MaxRelease = 1
  MaxWrites = 1
CHECK_DEADLOCK FALSE
PROPERTIES RollbackRestores
