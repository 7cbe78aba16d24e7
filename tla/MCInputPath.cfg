SPECIFICATION Spec
CONSTANTS
  Scale = 510
  Capabilities <- MCCapabilities
  Reported <- MCReported
  Pressed <- MCPressed
  MaxReports = 2
  MaxButtons = 2
  Pads <- MCPads
  Positions <- MCPositions
  left_stick_normalized <- MCLeftNormalized
  right_stick_normalized <- MCRightNormalized
  Configs <- MCConfigs
  None = None
INVARIANTS
  TypeOK
  StickAsConfigured
  EndsReachGame
  ArrowsForwarded
  XInputForwarded
