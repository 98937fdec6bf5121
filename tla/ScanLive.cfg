\* Liveness: every scan goroutine ends, with rescans and reconnects
\* cancelling it; mutations are left out (no slot), they touch no scan.
CONSTANTS
  a = a
  b = b
  star = star
  aOnly = aOnly
  p1 = p1
  Keys = {a, b}
  Patterns = {star, aOnly}
  All = star
  Match <- MCMatch
  Profiles = {p1, p2}
  SkipConfirm = {p2}
  Starts <- FullServers
  Slots = {}
  MaxSessions = 2
  MaxConns = 2
  MaxEnv = 1
SPECIFICATION LiveSpec
PROPERTY ScanEnds
CHECK_DEADLOCK FALSE
