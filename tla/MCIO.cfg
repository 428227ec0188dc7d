SPECIFICATION FairSpec
CONSTANTS
  Clocks <- MCClocks
  Timers <- MCTimers
  Counters <- MCCounters
  Programs <- MCPrograms
  Keys <- MCKeys
  MaxKeys <- MCMaxKeys
  MaxWrites <- MCMaxWrites
  AudioSettings <- MCSettings
INVARIANTS
  EventNotForgotten
  StopSilences
  SoleChannelAsSet
PROPERTIES
  KeyHandled
  ClockServed
  SwitchedOffStops
  StopReturns
CHECK_DEADLOCK FALSE
