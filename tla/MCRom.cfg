SPECIFICATION RomFairSpec
CONSTANTS
  Attached = {"RAM", "IO", "ROM"}
  Garbage <- MCGarbage
  Programs <- MCPrograms
  Devices = {}
  Lines <- NoLines
  MaxStack = 0
  Events <- MCEvents
PROPERTIES
  RomPlaysPong
  FrameDrawn
  RoutinesReturn
