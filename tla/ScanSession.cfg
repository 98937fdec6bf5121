CONSTANTS
  a = a
  b = b
  star = star
  aOnly = aOnly
  p1 = p1
  Keys = {a, b}
  Patterns = {star, aOnly}
  All = star
  Match <- MCMatch
  Profiles = {p1, p2}
  SkipConfirm = {p2}
  Starts <- OneFull
  Slots = {m1}
  MaxSessions = 2
  MaxConns = 2
  MaxEnv = 1
SPECIFICATION Spec
INVARIANTS TypeOK SeenIsShown CompleteWhenDone FilteredList OneRowPerSeenKey
PROPERTY SupersededIsInert
CHECK_DEADLOCK FALSE
