\* One full sync fails, or the server restarts, while its rows stream.
CONSTANTS
  Key = {1, 2}
  api = api
  poller = poller
  Proc <- MCProc
  FullBatch = 3
  IncrBatch = 3
  Timestamped = TRUE
  SharedTimes = TRUE
  Changes = {"insert", "update"}
  MaxVersion = 3
  MaxClock = 3
  MaxSchema = 0
  MaxRebuildFaults = 1
  MaxOtherFaults = 0
SYMMETRY ProcSymmetry
SPECIFICATION Spec
CHECK_DEADLOCK FALSE
INVARIANT NoLostRows
