CONSTANTS
  StackWords = 10
  Sites = {x, y}
  Null = null
  Header = header
  Crt = crt Main = main Raise = raise ctor = ctor a = a b = b lib = lib
SPECIFICATION Spec
CHECK_DEADLOCK FALSE
INVARIANTS LiveEntriesKept WildBlame
