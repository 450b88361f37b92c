CONSTANTS
  crt = crt main = main raise = raise ctor = ctor a = a b = b lib = lib
  x = x y = y null = null header = header
  Scheme = "REG"
  StackWords = 10
  Sites = {x, y}
  Null = null
  Header = header
  Fns <- MCFns
  Crt = crt
  Main = main
  Raise = raise
  InitFns = {ctor}
  FiniFns = {ctor}
  Ctors = {ctor}
  Unsafe <- MCUnsafe
  Clobbers = {crt, lib}
  Calls <- MCCalls
  TailCalls <- MCTails
  SetJmps = {main, a}
  Handlers = {main, b}
  Frame <- MCFrame
SPECIFICATION Spec
CHECK_DEADLOCK FALSE
INVARIANTS ShadowSync SafeReturn NoBlindAccess JumpTrapExact IInv
PROPERTY GuardSpec
