CONSTANTS
  Byte = {"p", "s", "e", "n"}
  Chunk = 2
  MaxBytes = 4
  MaxPending = 1
  LogBytes = 4
  MaxCrashes = 1
  Page = 2
  MaxLine = 3
  Limit = 1
  Seeks = 2
SPECIFICATION RSpec
INVARIANTS LogFaithful 
PROPERTIES SettledWithAll Settles
CHECK_DEADLOCK FALSE
