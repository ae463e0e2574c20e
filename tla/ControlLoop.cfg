CONSTANTS
  Rev = 8
  BrakeZone = 3
  BrakeMin = 2
  HomeAbs = 4
  Range = 3
  Shifts = {0, 1}
  Speed = 3
  SoftStep = 1
  MaxStep = 3
  Arrival = 2
  Dwell = 1
  TestTicks = 2
  Arrive = 1
  Lead = 2
  JogSteps = {1, 2}
  Waypoints <- const_Waypoints
  None = None
SPECIFICATION FairSpec
INVARIANT CableIsSafe
PROPERTIES ResumesSoftly WaypointsEnd
