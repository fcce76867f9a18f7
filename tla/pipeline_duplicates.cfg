SPECIFICATION Spec
CONSTANTS
  Msgs = {1, 3}
  GroupOf <- mcGroupOf
  KeyOf <- mcKeyOf
  NoKey = "none"
  Unparseable = {}
  Workers = {"w1", "w2"}
  TaskOf <- mcTaskOf
  MaxReceive = 2
  MaxPoll = 2
  MaxConcurrent = 2
INVARIANTS
  TypeOK
  OneRowPerKey
  DeletedIsAccounted
PROPERTIES
  ImplementsDelivery
CHECK_DEADLOCK FALSE
