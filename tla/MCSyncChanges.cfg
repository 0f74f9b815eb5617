\* Files are written and removed while polls run and may be faulty; a listing may
\* fail.
SPECIFICATION Spec
CONSTANTS
  r1 = r1  r2 = r2  d1 = d1
  Route = {r1, r2}
  Resource = {d1}
  Initial = {r1, r2, d1}
  Editable = {r1, r2}
  SqlEditable = {r1}
  Removable = {r1, d1}
  Kinds = {"good", "uninitialised"}
  MaxVersion = 2
  MaxSql = 1
  MaxFaults = 1
INVARIANT SyncSound
PROPERTY ServedForward
PROPERTY Converges
\* The change detection stops when it is closed.
CHECK_DEADLOCK FALSE
