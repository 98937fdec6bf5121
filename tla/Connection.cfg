\* Three dials of every kind of profile, finishing in any order.
CONSTANTS
  Profiles <- AllProfiles
  MaxDials = 3
SPECIFICATION DialLiveSpec
INVARIANTS NothingLeaks InUseIsAlive
PROPERTIES HandsOver 
CHECK_DEADLOCK FALSE
