SPECIFICATION UnboundedCallsSpec
CONSTANTS
  Msgs = {1}
  GroupOf <- mcGroupOf
  KeyOf <- mcKeyOf
  NoKey = "none"
  Unparseable = {}
  Workers = {"w1", "w2"}
  TaskOf <- mcTaskOf
  MaxReceive = 3
  MaxPoll = 2
  MaxConcurrent = 1
PROPERTIES
  DeliveryContinues
CHECK_DEADLOCK FALSE
