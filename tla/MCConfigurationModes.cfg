SPECIFICATION Spec
CONSTANTS
  Lengths = {64, 128, 2048}
  Channels = {3, 5, 7}
  Codes = {9}
  MaxCalls = 5
PROPERTIES
  ModesGoTogether
CHECK_DEADLOCK FALSE
