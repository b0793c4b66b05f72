SPECIFICATION Spec
CONSTANTS
  MAX_DEVICES = 3
  INACTIVITY_TIME = 1
  Address = {a1, a2, a3}
  NoAddress = none
  Quality = {1}
PROPERTY
  SweepDropsOnlyInactive
CHECK_DEADLOCK FALSE
