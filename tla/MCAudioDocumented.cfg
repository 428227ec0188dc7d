SPECIFICATION Spec
CONSTANTS
  Clocks <- NoSources
  Timers <- NoSources
  Counters <- NoSources
  Programs <- ChannelsOnly
  Keys <- NoSources
  MaxKeys <- MCMaxKeys
  MaxWrites <- MCMaxWrites
  AudioSettings <- PongSettings
INVARIANTS AudioAsDocumented
CHECK_DEADLOCK FALSE
