\* The governor: two slots, three waiters, two turns of the high lane in a row.
\* Query slots: two, three requests, and time for two queries to outlive their
\* entries. Streams: three slots, four requests. The window: three windows and a
\* half. The pool: two workers and two replacements.
CONSTANTS
  Caller = {a, b, c, d, e}
  MaxConcurrent = 2
  MaxQueue = 3
  MaxHigh = 2
  Query = {q1, q2, q3}
  MaxInFlight = 2
  StaleTtl = 2
  MaxTime = 5
  MaxGeneration = 4
  Stream = {s1, s2, s3, s4}
  MaxStreams = 3
  Window = 2
  Limit = 4
  Cost = {1, 3}
  MaxMoment = 7
  Request = {r1, r2, r3}
  PoolSize = 2
  MaxThread = 4
SPECIFICATION QueryPathSpec
INVARIANTS BooksExact NoIdleSlot YoungQueriesLimited SharesKept PoolManned
PROPERTIES NoStarvation OthersUnharmed EverythingSettles
CHECK_DEADLOCK FALSE
