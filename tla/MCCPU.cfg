SPECIFICATION CtxSpec
CONSTANTS
  Attached = {"RAM", "IO", "ROM"}
  Garbage <- MCGarbage
  Programs <- MCPrograms
  Devices = {d1}
  Lines <- IrqNmi
  MaxStack = 3
INVARIANTS
  TypeOK
  ConstantFlagSet
  FramesIntact
  NoNestedIRQ
PROPERTIES
  InterruptTransparent
  SubroutineReturns
  AdcAdds
  ComparesOrder
  ShiftsLoseNoBit
  FlagsAsDocumented
  WritesOnlyOperandAndStack
  FollowedByNext
CHECK_DEADLOCK FALSE
