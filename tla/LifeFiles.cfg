SPECIFICATION LifeSpec
CONSTANTS
  h1 = h1
  h2 = h2
  h3 = h3
  e1 = e1
  e2 = e2
  s1 = s1
  s2 = s2
  None = None
  Proc <- MCProc
  Ensures <- MCOneEnsure
  Stops <- MCOneStop
  MaxFaults = 2
  MaxUserHubs = 1
  SlowHubs = TRUE
  PidReuse = TRUE
INVARIANTS
  LifeTypeOK
  PidFileNeverMisleads
  StoppedIsDead
  StopMissesOnlyForRival
PROPERTY StopsEnd
CHECK_DEADLOCK FALSE
