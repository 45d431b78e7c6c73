\* The registry: two keys, and two databases one after the other, of one id or of
\* two. The bucket: three places; a backup expires after its interval. The
\* internal tables: two, and three initializations. The comparison: two rows, three
\* shapes of the table, one change of the source.
CONSTANTS
  Key = {k1, k2}
  Setting = {s1}
  MaxIds = 2
  MaxBorn = 2
  Backup = {b1, b2, b3}
  Interval = 2
  Retention = 2
  Run = {r1, r2, r3}
  Tables = 2
  RowId = {1, 2}
  Shape <- MCShape
  MaxChanges = 1
SPECIFICATION StoresSpec
INVARIANTS KeysKept MarkerIsTrue SomethingToRestore TablesThere 
