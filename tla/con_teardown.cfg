CONSTANTS
  main = main
  t1 = t1
  t2 = t2
  h = h
  r1 = r1
  r2 = r2
  r3 = r3
  r4 = r4
  r5 = r5
  Schemes = {"CON"}
  Threads = {main, t1}
  MainThread = main
  Regions = {h, r1, r2, r3, r4, r5}
  Hardcoded = h
  Mirror <- MCMirror
  Late = {}
  FiniCode = FALSE
  Failing = FALSE
  MaxDepth = 1
  None = None
  Free = Free
  Other = Other
SPECIFICATION Spec
INVARIANT FindsStack
CHECK_DEADLOCK FALSE
