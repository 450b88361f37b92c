CONSTANTS
  Variants <- MCPkeyTails
  StackTop = 18
  Entry = 18
  ShadowBase = 100
  ClaveBase = 200
  RedZone = 3
  MaxSignals = 0
  MaxNest = 1
SPECIFICATION Spec
CHECK_DEADLOCK FALSE
INVARIANTS ResultsKept
