CONSTANTS
  libc = libc main = main ctor = ctor raise = raise a = a b = b lib = lib
  x = x y = y null = null
  StackWords = 8
  Sites = {x, y}
  Null = null
  Fns <- MCFns
  Libc = libc
  Roots = {ctor, main}
  Starts = {a, b}
  Reloads = {ctor, main}
  Bare = {ctor}
  Unsafe <- MCUnsafe
  Raise = raise
  Clobbers = {libc, lib}
  Calls <- MCCalls
  TailCalls <- MCTails
  SetJmps = {main, a}
  Handlers = {main, b}
  Frame <- MCFrame
SPECIFICATION Spec
CHECK_DEADLOCK FALSE
INVARIANTS MirrorSync BlindBlame
PROPERTIES NoFrameSkipped GuardSpec
