SPECIFICATION LifeSafety
CONSTANTS
  h1 = h1
  h2 = h2
  h3 = h3
  e1 = e1
  e2 = e2
  s1 = s1
  s2 = s2
  None = None
  Proc <- MCProc
  Ensures <- MCOneEnsure
  Stops <- MCNoStop
  MaxFaults = 1
  MaxUserHubs = 2
  SlowHubs = TRUE
  PidReuse = FALSE
INVARIANT OneHolder
CHECK_DEADLOCK FALSE
