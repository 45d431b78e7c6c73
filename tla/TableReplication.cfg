\* A page holds the whole table, and writes of one second share their timestamp.
\* The system stops when the bounds are used up and a leaked lock has disabled every sync.
CONSTANTS
  Key = {1, 2}
  api = api
  poller = poller
  Proc <- MCProc
  FullBatch = 3
  IncrBatch = 3
  Timestamped = TRUE
  SharedTimes = TRUE
  Changes = {"insert", "update", "delete", "alter"}
  MaxVersion = 4
  MaxClock = 3
  MaxSchema = 1
  MaxRebuildFaults = 0
  MaxOtherFaults = 1
SYMMETRY ProcSymmetry
SPECIFICATION Spec
CHECK_DEADLOCK FALSE
INVARIANTS TypeOK NoLostRows ViewOverTable PagesFit
PROPERTIES NoRegression IncrementalKeepsCoverage
