\* A list of five items, one client and a user who waits for each page; a stream
\* of five entries, another client and an impatient user: two writes each.
CONSTANTS
  Kinds = {"list", "stream"}
  Values = {1, 2}
  Initial <- Five
  PageLen = 2
  Others = TRUE
  Patient = {"list"}
  MaxWrites = 2
  MaxFetches = 2
SPECIFICATION LiveSpec
INVARIANTS  StreamMissesNothing
 
CHECK_DEADLOCK FALSE
