SPECIFICATION RainbowFairSpec
CONSTANTS
  Base = 4
  Width = 2
  Period = 2
  MaxLag = 1
INVARIANTS
  RainbowTypeOK
  ShowsARotation
PROPERTY
  KeepsTurning
