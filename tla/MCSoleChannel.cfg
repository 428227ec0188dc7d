SPECIFICATION Spec
CONSTANTS
  Clocks <- NoSources
  Timers <- NoSources
  Counters <- NoSources
  Programs <- SoleChannel
  Keys <- NoSources
  MaxKeys <- MCMaxKeys
  MaxWrites <- MCMaxWrites
  AudioSettings <- MCSettings
INVARIANTS SoleChannelSounds
CHECK_DEADLOCK FALSE
