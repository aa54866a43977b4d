\* The tray of one session, next to another session that changes the code.
SPECIFICATION FairTraySpec
CHECK_DEADLOCK FALSE
CONSTANTS
  tray1 = tray1
  other = other
  Tray = tray1
  Callers = {tray1, other}
  Reliable = {tray1}
  OtherActions = {"rotate"}
  Phases = {"active", "failed"}
  Nobody = Nobody
  Attempts = 2
  MaxCodes = 2
  MaxFaults = 1
INVARIANTS ShownCodeRevealed StatusFollowedUp NothingBehindDialog
PROPERTIES CallsKeepPromise SilentRecovery
