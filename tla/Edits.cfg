\* Two databases, two edits, one move.
CONSTANTS
  NoText = NoText
  Kinds = {"string", "hash"}
  Values <- SomeValues
  Typed <- SomeTexts
  Fields = {"g"}
  DBs = {0, 1}
  Home = 0
  Expiries = {9}
  TTLs = {0}
  CanFail = {"select", "hset", "expire", "meta"}
  Others = TRUE
  None = None
  MaxActs = 2
  MaxMishaps = 1
SPECIFICATION Spec
INVARIANTS StraysNeedSecondLink   
CHECK_DEADLOCK FALSE
