SPECIFICATION Spec
CHECK_DEADLOCK FALSE
CONSTANTS
  Fns <- MCFns
  Body <- MCBody
  Attrs <- MCAttrs
  Ctors = {"ctor"}
  Dtors = {"dtor"}
  Main = "main"
  Thunk = "thunk"
  MaxFns = 3
  Builds <- MCBuilds
  DefaultCPU = "x86-64"
  DefaultFS <- MCDefaultFS
INVARIANTS UnguardedBlame  BalanceBlame ShapeBlame SubtargetBlame
