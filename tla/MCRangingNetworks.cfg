SPECIFICATION Spec
CONSTANTS
  Tags = {t1, t2}
  Anchors = {a1, a2}
  Networks <- Threes
  NoAddress = none
  MAX_DEVICES = 2
  INACTIVITY_TIME = 1
  Quality = {1}
  RandomSlots = {1}
  SEQ_MOD = 256
  BLINK_INTERVAL = 2
  devicePerPollTransmit = 4
  devicePerTransmit = 6
  RESET_PERIOD = 1
  RECOVERY_TIME = 2
  Prompt = TRUE
  Reliable = FALSE
  MaxTime = 4
  MaxRestarts = 0
SYMMETRY NodeSymmetry
INVARIANTS
  RangeOfOneExchange
  TablesConsistent
  ServedOncePerPoll
  SlotsDisjoint
  NoOrphanRange
PROPERTIES
  RangesTwoWay
CHECK_DEADLOCK FALSE
