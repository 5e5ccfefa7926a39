CONSTANTS
  Codes <- MCKeys
  MAX_TYPED = 2
  Devices <- MCTimerOnly
  Faults <- MCNoFaults
  NMI = FALSE
SPECIFICATION FairSpec
PROPERTIES
  PauseEndsOnKey
