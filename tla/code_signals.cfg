CONSTANTS
  Variants <- MCSound
  StackTop = 18
  Entry = 18
  ShadowBase = 100
  ClaveBase = 200
  RedZone = 3
  MaxSignals = 2
  MaxNest = 2
SPECIFICATION Spec
CHECK_DEADLOCK FALSE
INVARIANTS ArgsKept ResultsKept ShadowLocked AccessGranted SafeReturn TrapBlame KillBlame EntryPushed PointerBalanced
