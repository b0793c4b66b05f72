SPECIFICATION Spec
CONSTANTS
  Builds <- OneCoreWhole
INVARIANT
  MessageDelayed
