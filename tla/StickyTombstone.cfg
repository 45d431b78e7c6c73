\* A key is deleted and inserted again; nothing fails.
CONSTANTS
  Key = {1, 2}
  api = api
  tailer = tailer
  Proc <- MCProc
  FullBatch = 3
  IncrBatch = 3
  Timestamped = TRUE
  SharedTimes = FALSE
  Changes = {"insert", "delete"}
  MaxVersion = 4
  MaxClock = 1
  MaxSchema = 0
  MaxRebuildFaults = 0
  MaxOtherFaults = 0
  KeysReused = TRUE
  Breaks = {}
  MaxBreaks = 0
SPECIFICATION TailSpec
INVARIANT TombstonesDoNotStick
CHECK_DEADLOCK FALSE
