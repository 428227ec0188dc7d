-------------------------------- MODULE MCIO --------------------------------
(***************************************************************************)
(* One clock, one timer and one counter, of which a program writes one or  *)
(* two; a key is pressed with a clock or a timer running; a channel is set *)
(* to silence, and to a sound with the sine or the square wave.            *)
(***************************************************************************)
EXTENDS IOChip

MCClocks    == {kIOClock1}
MCTimers    == {kIOTimer1Lo}
MCCounters  == {kIOCounter1}
MCPrograms  == {{kIOClock1}, {kIOTimer1Lo}, {kIOClock1, kIOTimer1Lo}, {kIOCounter1},
                {kIOAudioChannel1}}
MCMaxKeys   == [p \in Programs |-> IF p \in {{kIOClock1}, {kIOTimer1Lo}} THEN 1 ELSE 0]
MCMaxWrites == [p \in Programs |-> CASE p = {kIOTimer1Lo}         -> 1
                                     [] kIOAudioChannel1 \in p -> 3
                                     [] OTHER                  -> 2]
MCKeys      == {\h16}
MCSettings  == {\h19, \hC9, \hD9}

(* The programs that write to the channels alone. *)
NoSources    == {}
SoleChannel  == {{kIOAudioChannel1}}
ChannelsOnly == {{kIOAudioChannel1, kIOAudioChannel2}}
PongSettings == {\h19, \hD9}
=============================================================================
