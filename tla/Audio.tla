-------------------------------- MODULE Audio --------------------------------
(***************************************************************************)
(* The audio channels of the IO chip (update_audio in src/src/iochip.cpp). *)
(* A write to the register of a channel is decoded and applied to the      *)
(* sound of the channel, as far as it differs from the settings in a cache *)
(* - which is audio_cache1 for all three channels.                         *)
(***************************************************************************)
EXTENDS Bytes

CONSTANT AudioSettings     \* the bytes the program writes to the channels

kIOAudioChannel1 == \h908
kIOAudioChannel2 == \h909
kIOAudioChannel3 == \h90A

Channels == {kIOAudioChannel1, kIOAudioChannel2, kIOAudioChannel3}

ASSUME AudioAssumption == AudioSettings \subseteq Byte

VARIABLES
  channel,         \* the bytes of the registers
  audio_cache1,    \* decoded settings
  sound,           \* per channel, the settings of its sound and whether it plays
  used,            \* history: the channels that were written ...
  varied           \* ... and the settings some byte had other than byte 0 has them

audioVars == <<channel, audio_cache1, sound, used, varied>>

-----------------------------------------------------------------------------
(* Volume in per cent, pitch in fortieths: 0.2 + (raw / 16) * 2.           *)
decode(data) ==
  [volume        |-> <<0, 25, 50, 100>>[data \div \h40 + 1],
   wave_function |-> (data \div \h10) % 4,
   pitch         |-> 8 + 5 * (data % \h10)]

Settable == {"volume", "pitch", "wave_function"}

Varies(data) == {setting \in Settable : decode(data)[setting] # decode(0)[setting]}

NoBuffer == 4

(* sf::Sound: its initial settings, and the methods update_audio calls.  A *)
(* change of the buffer stops the sound; without a buffer it cannot play.  *)
NewSound == [volume |-> 100, wave_function |-> NoBuffer, pitch |-> 40, playing |-> FALSE]

pause(s)        == [s EXCEPT !.playing = FALSE]
setVolume(s, v) == [s EXCEPT !.volume = v]
setPitch(s, p)  == [s EXCEPT !.pitch = p]
setBuffer(s, w) == [s EXCEPT !.wave_function = w, !.playing = FALSE]
play(s)         == [s EXCEPT !.playing = s.wave_function # NoBuffer]

(* A slip: a volume of 0 does not pause the sound. *)
ApplyVolumeOnly(s, d, cache) == IF d.volume # cache.volume THEN setVolume(s, d.volume) ELSE s

(* The four steps of update_audio, in their order. *)
ApplyVolume(s, d, cache) ==
  IF d.volume = cache.volume THEN s
  ELSE IF d.volume = 0 THEN setVolume(pause(s), 0) ELSE setVolume(s, d.volume)

ApplyPitch(s, d, cache) == IF d.pitch # cache.pitch THEN setPitch(s, d.pitch) ELSE s

ApplyWave(s, d, cache) ==
  IF d.wave_function # cache.wave_function THEN setBuffer(s, d.wave_function) ELSE s

ApplyPlay(s, d) == IF d.volume # 0 THEN play(s) ELSE s

-----------------------------------------------------------------------------
AudioInit ==
  /\ channel = [c \in Channels |-> 0]
  /\ audio_cache1 = decode(0)
  /\ sound = [c \in Channels |-> NewSound]
  /\ used = {} /\ varied = {}

update_audio(c, value) ==
  LET d == decode(value)
  IN  /\ channel' = [channel EXCEPT ![c] = value]
      /\ sound' = [sound EXCEPT ![c] =
           ApplyPlay(ApplyWave(ApplyPitch(ApplyVolume(@, d, audio_cache1), d, audio_cache1),
                               d, audio_cache1), d)]
      /\ audio_cache1' = d
      /\ used' = used \cup {c}
      /\ varied' = varied \cup Varies(value)

AudioNext == \E c \in Channels, value \in AudioSettings : update_audio(c, value)

AudioSpec == AudioInit /\ [][AudioNext]_audioVars

-----------------------------------------------------------------------------
Decoded(c) == decode(channel[c])

(***************************************************************************)
(* What a program that uses one channel hears, after any sequence of       *)
(* bytes: a setting that it ever varied is the one of the last byte; one   *)
(* that it never varied is that of a new sound, which is not what any of   *)
(* the bytes say; and the sound plays exactly if the last volume is not 0  *)
(* and the wave was varied, as without that there is no buffer             *)
(* (update_audio and its cache, which begins as byte 0 while the sounds    *)
(* do not; the program in ROM uses channel 1 alone).                       *)
(***************************************************************************)
SoleChannelAsSet ==
  \A c \in Channels :
    used = {c} =>
      /\ \A setting \in varied : sound[c][setting] = Decoded(c)[setting]
      /\ \A setting \in Settable \ varied : sound[c][setting] = NewSound[setting]
      /\ sound[c].playing <=> Decoded(c).volume # 0 /\ "wave_function" \in varied

(***************************************************************************)
(* Documentation (src/include/iochip.h): channels "which can each play a   *)
(* configurable sound", 00 of the wave being one of its values, and only   *)
(* "Setting the volume to 0 will stop playing the audio".  But a channel   *)
(* that has always been set to wave 0, the one in the cache, has no buffer.*)
(***************************************************************************)
SoleChannelSounds ==
  \A c \in Channels : used = {c} => (sound[c].playing <=> Decoded(c).volume # 0)

(***************************************************************************)
(* Documentation (src/include/iochip.h): "distinct audio channels which    *)
(* can each play a configurable sound" and "Setting the volume to 0 will   *)
(* stop playing the audio".  With one cache for three channels a setting   *)
(* is not applied to a channel if the last write to any channel had it.    *)
(***************************************************************************)
AudioAsDocumented ==
  \A c \in Channels :
    /\ Decoded(c).volume = 0 => ~sound[c].playing
    /\ sound[c].playing =>
         \A setting \in Settable : sound[c][setting] = Decoded(c)[setting]
=============================================================================
