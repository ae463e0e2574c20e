CONSTANTS
  Positions <- three_Positions
  Motors = {1}
  SatTime = 2
  Progress = 1
  AccelStep = 2
  AccelTime = 1
  Lo = 0
  Hi = 2
  Margin = 0
  LimitTime = 2
  PairTime = 2
  ForceTime = 2
  CommFailMax = 2
  TempConfirm = 2
  HoldTol = 1
  ForceMotor = 1
  Top = 3
  Inputs = {"goal", "load"}
SPECIFICATION Spec
PROPERTY ProgressIsNoCollision
