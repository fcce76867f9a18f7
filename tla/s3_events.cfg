SPECIFICATION FairSpec
CONSTANTS
  Events = {"e1", "e2"}
  RecordsOf <- mcRecordsOf
  Keys = {"a", "b"}
  EncodedKeys = {}
  Workers = {"w1", "w2"}
  MaxExpiries = 1
  MaxCrashes = 1
  MaxDeletes = 1
INVARIANTS
  TypeOK
  RowsAreCurrent
  RowsFollowRecords
  LostOnlyByFailure
PROPERTIES
  EveryEventLeaves
CHECK_DEADLOCK FALSE
