SPECIFICATION FairSpec
CONSTANTS
  Builds <- ThreeBuilds
INVARIANTS
  TypeOK
  NoLostWakeUp
  ListensAtRest
  ConfigurationKept
PROPERTIES
  FlagsTellEvents
  LineFalls
  ReceiverReturns
