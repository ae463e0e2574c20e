CONSTANTS
  Positions <- four_Positions
  Motors = {1}
  SatTime = 2
  Progress = 1
  AccelStep = 2
  AccelTime = 1
  Lo = 2
  Hi = 2
  Margin = 1
  LimitTime = 2
  PairTime = 2
  ForceTime = 1
  CommFailMax = 2
  TempConfirm = 1
  HoldTol = 1
  ForceMotor = 1
  Top = 3
  Inputs = {"pair", "force"}
SPECIFICATION FairSpec
PROPERTIES StrayIsCaught PairTripNeedsDwell
