\* Five keys in a window of four: a move or an edit, failing calls, a rescan.
CONSTANTS
  a = a  b = b  c = c  d = d  e = e  f = f
  None = None
  Keys = {a, b, c, d, e, f}
  Found <- FiveKeys
  W = 4
  Near = 1
  Edited = {a, c}
  Edits = {"reload", "drop", "rename"}
  CanFail = {"value", "bulk"}
  MaxMoves = 1
  MaxSessions = 2
SPECIFICATION LiveSpec
INVARIANTS ValueIsOfPage PageIsNewestRequest
PROPERTY PaneSettles
CHECK_DEADLOCK FALSE
