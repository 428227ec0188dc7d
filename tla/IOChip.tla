------------------------------- MODULE IOChip -------------------------------
(***************************************************************************)
(* The event sources, the lifecycle and the audio channels of the IO chip  *)
(* together: IOChip::write starts a thread or updates a sound, so a write  *)
(* to a channel counts as one of the writes of the program.                *)
(***************************************************************************)
EXTENDS IOThreads, Audio

ioVars == <<threadVars, audioVars>>

Init == ThreadsInit /\ AudioInit

write_channel(c, value) ==
  /\ Running /\ Writes(c)
  /\ update_audio(c, value)
  /\ UNCHANGED <<eventVars, workVars, mainVars, cpu, register, handled>>

Next ==
  \/ ThreadsNext /\ UNCHANGED audioVars
  \/ \E c \in Channels, value \in AudioSettings : write_channel(c, value)

Spec == Init /\ [][Next]_ioVars

FairSpec == Spec /\ ThreadsFairness
=============================================================================
