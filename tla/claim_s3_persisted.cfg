SPECIFICATION Spec
CONSTANTS
  Events = {"e1", "test"}
  RecordsOf <- mcRecordsOf
  Keys = {"a", "b"}
  EncodedKeys = {"b"}
  Workers = {"w1"}
  MaxExpiries = 0
  MaxCrashes = 0
  MaxDeletes = 0
INVARIANTS
  DeletedIsPersisted
CHECK_DEADLOCK FALSE
