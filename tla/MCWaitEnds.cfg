SPECIFICATION FairSpec
CONSTANTS
  Attached = {"RAM", "IO", "ROM"}
  Garbage <- MCGarbage
  Programs <- Waiting
  Devices = {d1}
  Lines <- AllLines
  MaxStack = 3
PROPERTIES WaitEnds
