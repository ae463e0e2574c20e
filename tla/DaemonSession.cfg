CONSTANTS
  jog1 = jog1
  jog2 = jog2
  policy = policy
  Clients <- const_Clients
  NameOf <- const_NameOf
  NoClient = NoClient
  Motors = {1}
  DampMotors = {1}
  CommFailMax = 2
  EntryTimeout = 1
  PowerMode = FALSE
  ReleaseOnExit = TRUE
SPECIFICATION FairSpec
INVARIANT StreamBelongsToLease
PROPERTIES KeepsSession CommLossIsCaught EntryEnds
