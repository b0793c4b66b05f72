SPECIFICATION Spec
CONSTANTS
  Tags = {t1}
  Anchors = {a1}
  Networks <- Everybody
  NoAddress = none
  MAX_DEVICES = 2
  INACTIVITY_TIME = 1
  Quality = {1}
  RandomSlots = {1, 2}
  SEQ_MOD = 256
  BLINK_INTERVAL = 2
  devicePerPollTransmit = 4
  devicePerTransmit = 6
  RESET_PERIOD = 1
  RECOVERY_TIME = 2
  Prompt = TRUE
  Reliable = FALSE
  MaxTime = 9
  MaxRestarts = 0
PROPERTY
  WatchdogRestoresReception
CHECK_DEADLOCK FALSE
