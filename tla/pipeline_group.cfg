SPECIFICATION FairSpec
CONSTANTS
  Msgs = {1, 2}
  GroupOf <- mcGroupOf
  KeyOf <- mcKeyOf
  NoKey = "none"
  Unparseable = {2}
  Workers = {"w1", "w2"}
  TaskOf <- mcTaskOf
  MaxReceive = 3
  MaxPoll = 2
  MaxConcurrent = 2
INVARIANTS
  OneEffectPerReceive
  NoOvertaking
  OneOwnerPerGroup
PROPERTIES
  ImplementsDelivery
  EveryMessageSettles
CHECK_DEADLOCK FALSE
