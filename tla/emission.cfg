SPECIFICATION Spec
CHECK_DEADLOCK FALSE
CONSTANTS
  MaxInstrs = 3
  ShadowSizes = {4, 20}
  PatchSizes = {5, 13}
  SrcRegs <- MCSrcRegs
  Scratch = {"rax", "r11"}
  Samples <- MCSamples
INVARIANTS ShadowBlame ShadowRoom PiecesExact ArgsExact LowerFaithful EpilogBlame
