SPECIFICATION Spec
CONSTANTS
  TIME_OVERFLOW = 32
  INT_LIMIT = 442
  GRAIN = 4
  antennaDelay = 3
  replyDelay = 6
  Replies = {6, 16}
  Lags = {0, 5}
  Pauses = {11}
  Flight = {0, 2}
  MaxError = 1
  MaxWait = 16
INVARIANTS
  TypeOK
  DurationsTrue
  NoOverflow
  FlightExact
  FlightWithinError
