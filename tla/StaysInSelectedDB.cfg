\* A database is selected and two edits made; nothing fails and nobody is in a hurry.
CONSTANTS
  NoText = NoText
  Kinds = {"string"}
  Values <- OneValue
  Typed = {}
  Fields = {}
  DBs = {0, 1}
  Home = 0
  Expiries = {0}
  TTLs = {}
  CanFail = {}
  Others = FALSE
  None = None
  MaxActs = 3
  MaxMishaps = 0
SPECIFICATION Spec
INVARIANT StaysInSelectedDB
CHECK_DEADLOCK FALSE
