SPECIFICATION FairSpec
CONSTANTS
  LastCommand = 3
  Setups <- mcSetups
INVARIANTS
  TypeOK
  Synchronised
  ScramAgrees
  NeverStuck
PROPERTIES
  ImplementsChannel
  CountsDown
  SessionEnds
CHECK_DEADLOCK FALSE
