SPECIFICATION FairSpec
CONSTANTS
  MAX_DEVICES = 3
  INACTIVITY_TIME = 1
  Address = {a1, a2, a3, a4}
  NoAddress = none
  Quality = {1, 2}
INVARIANTS
  TypeOK
  TableConsistent
  SweepWithinCount
PROPERTIES
  ImplementsKnownDevices
  EvictsWorst
  StaleDevicesLeave
CHECK_DEADLOCK FALSE
