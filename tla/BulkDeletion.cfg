\* The instance of Console.cfg.
CONSTANTS
  d1 = d1
  d2 = d2
  Db <- MCDb
  PathPrefix <- MCPathPrefix
  MaxBatches = 2
  MaxLives = 2
  MaxRestartAttempts = 1
  MaxChecks = 1
  Tables = 2
  Single = {s1, s2}
  MaxLeaks = 1
  Tab = {t1, t2}
  MaxTokens = 2
SPECIFICATION ConsoleSpec
INVARIANT TablesStayHome
CHECK_DEADLOCK FALSE
