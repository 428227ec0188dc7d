SPECIFICATION FairSpec
CONSTANTS
  Attached = {"RAM", "IO", "ROM"}
  Garbage <- MCGarbage
  Programs <- MCPrograms
  Devices = {d1}
  Lines <- AllLines
  MaxStack = 3
PROPERTIES LinesSafety LinesLive IRQServed WaitEndsWhenTicking
CHECK_DEADLOCK FALSE
