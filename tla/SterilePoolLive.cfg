CONSTANTS
  k1 = k1
  k2 = k2
  c2 = c2
  Cells = {c1, c2}
  Claims = {k2}
  Fenced <- MCFenced
  NoClaim = NoClaim
  Target = 2
  MaxProvisioning = 1
  ReadyFloor = 1
  MaxReleases = 1
  Ageing = TRUE
SPECIFICATION LiveSpec
CHECK_DEADLOCK FALSE
PROPERTY TornDown
