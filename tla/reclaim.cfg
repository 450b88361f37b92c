CONSTANTS
  main = main
  t1 = t1
  t2 = t2
  h = h
  r1 = r1
  r2 = r2
  r3 = r3
  r4 = r4
  r5 = r5
  Schemes = {"REG", "MEM", "CON"}
  Threads = {main, t1}
  MainThread = main
  Regions = {h, r1, r2, r3, r4}
  Hardcoded = h
  Mirror <- MCMirror
  Late = {t1}
  FiniCode = TRUE
  Failing = TRUE
  MaxDepth = 1
  None = None
  Free = Free
  Other = Other
SPECIFICATION FairSpec
INVARIANT MirrorBlame
PROPERTY Reclaimed
CHECK_DEADLOCK FALSE
