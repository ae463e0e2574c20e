CONSTANTS
  Joints <- const_Joints
  Positions <- const_Positions
  Watchdog = 1
  None = None
SPECIFICATION Spec
PROPERTY HoldIsFromThisSession 
