CONSTANTS
  Servos <- const_Servos
  Ids = {1, 2, 3}
  NewIds = {2, 3}
  Arm <- const_Arm
  Bounded = {1}
  Terminals = {t1, t2}
  Speeds = {"1M", "500k"}
  Speed = "1M"
  Starts = 3
  None = None
SPECIFICATION Spec
INVARIANTS ProtectedWhenOn LeftLocked
PROPERTIES SuccessMeansSet DemoEndsLimp
CHECK_DEADLOCK FALSE
SYMMETRY const_Symmetry
