\* The mixed load, paged row by row; MCPolledReplication gives the other one its
\* own changes, versions and failures.
CONSTANTS
  Key = {1, 2}
  api = api
  poller = poller
  Proc <- MCProc
  FullBatch = 3
  IncrBatch = 1
  Timestamped = TRUE
  SharedTimes = FALSE
  Changes = {"insert", "update", "delete", "alter"}
  MaxVersion = 3
  MaxShrinkVersion = 4
  MaxClock = 1
  MaxSchema = 0
  MaxRebuildFaults = 0
  MaxOtherFaults = 1
  QuietStart = FALSE
  Failing = {"increment", "cycle", "restart"}
SPECIFICATION LoadSpec
INVARIANT GhostsAreNoticed
PROPERTIES RowsArrive DeletedRowsGo
