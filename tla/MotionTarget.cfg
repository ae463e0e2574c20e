CONSTANTS
  Joints <- const_Joints
  Positions <- const_Positions
  Watchdog = 1
  None = None
  Rev = 8
  BrakeZone = 4
  BrakeMin = 2
  Lo = 2
  Hi = 4
  SoftStep = 1
  MaxStep = 3
  Arrival = 2
  EntryMargin = 1
  Offsets = {0, 1}
SPECIFICATION MotionFairSpec
PROPERTIES NoCreep ResumesFromPose SilenceIsHeld StepIsSafe SettledIsAtTarget SoftStartEnds
