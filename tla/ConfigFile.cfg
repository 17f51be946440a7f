\* Two processes that save one file, an editor, and the monitor.
CONSTANTS
  Parsers = {p1, p2}
  Keys = {k1}
  Values = {v1}
  MaxChanges = 4
SPECIFICATION Spec
INVARIANTS TypeOK LoadedIsWhole
PROPERTIES ChangeNotified
\* Everybody may leave.
CHECK_DEADLOCK FALSE
