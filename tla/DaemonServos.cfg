CONSTANTS
  jog1 = jog1
  jog2 = jog2
  policy = policy
  Clients <- one_Client
  NameOf <- const_NameOf
  NoClient = NoClient
  Motors = {1, 2}
  DampMotors = {2}
  CommFailMax = 2
  EntryTimeout = 1
  PowerMode = TRUE
  ReleaseOnExit = FALSE
SPECIFICATION Spec
INVARIANTS TypeOK LatchedHasNoLease EntryIsExclusive PowerCapNeedsTare
PROPERTIES FailedResetIsInert DampedNeverReenergised DampingOnlyEndsInOff ResumeDropsOldTarget TorqueOnIsSafe
