\* One trajectory and an operator's command line beside it.
CONSTANTS
  g1 = g1
  g2 = g2
  cli = cli
  Goals <- one_Goal
  Others <- const_Others
  Clients <- one_Clients
  Nobody = Nobody
  None = None
SPECIFICATION Spec
INVARIANTS SawActionIsMine SuccessHolds
PROPERTIES HoldSurvives
CHECK_DEADLOCK FALSE
