\* A rule is removed.
SPECIFICATION Spec
CONSTANTS
  r1 = r1  r2 = r2  d1 = d1
  Route = {r1, r2}
  Resource = {d1}
  Initial = {r1, r2, d1}
  Editable = {}
  SqlEditable = {}
  Removable = {r1}
  Kinds = {"good"}
  MaxVersion = 2
  MaxSql = 1
  MaxFaults = 1
PROPERTY CloseStops
\* The change detection stops when it is closed.
CHECK_DEADLOCK FALSE
