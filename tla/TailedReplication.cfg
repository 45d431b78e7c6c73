\* Keys are not used again; the stream breaks, tombstones and syncs fail, the server
\* restarts.
CONSTANTS
  Key = {1}
  api = api
  tailer = tailer
  Proc <- MCProc
  FullBatch = 3
  IncrBatch = 3
  Timestamped = TRUE
  SharedTimes = FALSE
  Changes = {"insert", "update", "delete"}
  MaxVersion = 3
  MaxClock = 1
  MaxSchema = 0
  MaxRebuildFaults = 0
  MaxOtherFaults = 1
  KeysReused = FALSE
  Breaks = {"stream", "tombstone", "load", "restart"}
  MaxBreaks = 2
SPECIFICATION TailSpec
INVARIANT GhostsAreExplained
PROPERTY NudgesServed
CHECK_DEADLOCK FALSE
