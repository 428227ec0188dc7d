SPECIFICATION CtxSpec
CONSTANTS
  Attached = {"RAM", "IO", "ROM"}
  Garbage <- MCGarbage
  Programs <- Branching
  Devices = {}
  Lines <- NoLines
  MaxStack = 0
PROPERTIES BranchesAsDocumented
CHECK_DEADLOCK FALSE
