\* The services: the database is added twice, under the same id. The dashboard:
\* two databases, two batches of a bulk deletion. The record: two tables, two
\* single syncs, one lock left behind. The sign-in: two tabs, two tokens.
CONSTANTS
  d1 = d1
  d2 = d2
  Db <- MCDb
  PathPrefix <- MCPathPrefix
  MaxBatches = 2
  MaxLives = 2
  MaxRestartAttempts = 1
  MaxChecks = 1
  Tables = 2
  Single = {s1, s2}
  MaxLeaks = 1
  Tab = {t1, t2}
  MaxTokens = 2
SPECIFICATION ConsoleSpec
INVARIANTS RecordIsTrue 
PROPERTIES  PagesCatchUp HeaderCatchesUp SignOutReachesAll
CHECK_DEADLOCK FALSE
