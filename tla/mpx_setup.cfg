CONSTANTS
  Schemes = {"REG", "MEM", "SEG"}
  Space = 40
  Ptr = 22
  Practical = 10
  Sizes = {8, 10, 12}
  MaxDepth = 3
SPECIFICATION Spec
INVARIANTS RangeExact NeverRefused DirectoryMapped ClaveExact
CHECK_DEADLOCK FALSE
