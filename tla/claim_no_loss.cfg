SPECIFICATION Spec
CONSTANTS
  Msgs = {1, 3}
  GroupOf <- mcGroupOf
  KeyOf <- mcKeyOf
  NoKey = "none"
  Unparseable = {}
  Workers = {"w1", "w2"}
  TaskOf <- mcTaskOf
  MaxReceive = 3
  MaxPoll = 2
  MaxConcurrent = 2
INVARIANTS
  NoMessageLoss
CHECK_DEADLOCK FALSE
