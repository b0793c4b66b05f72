SPECIFICATION Spec
CONSTANTS
  Lengths = {64, 2048}
  Channels = {3, 7}
  Codes = {9}
  MaxCalls = 8
INVARIANTS
  TypeOK
  ConfigureNetworkForgets
  RegistersCoherent
  ChannelSetsFittingCode
CHECK_DEADLOCK FALSE
