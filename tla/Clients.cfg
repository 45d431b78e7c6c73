\* The SDK: two calls, two attempts to reconnect. The wire protocol: two clients
\* for one place, two databases, one prepared statement. The
\* process: two databases, two connections.
CONSTANTS
  Call = {q1, q2}
  MaxReconnectAttempts = 2
  Conn = {c1, c2}
  Database = {main, other}
  Default = main
  Statement <- MCStatement
  MaxConnections = 1
  MaxStatements = 1
  Hosted = {h1, h2}
  Socket = {k1, k2}
SPECIFICATION ClientsSpec
INVARIANTS  LimitUnlessRaced
PROPERTIES CallsKept CutIsNoticed NobodyHangs StartsAndStops
CHECK_DEADLOCK FALSE
