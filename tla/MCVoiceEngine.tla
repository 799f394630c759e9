--------------------------- MODULE MCVoiceEngine ---------------------------
(***************************************************************************)
(* Small instances of VoiceEngine for TLC.                                 *)
(***************************************************************************)
EXTENDS VoiceEngine

CONSTANT Lower    \* a MIDI channel

TwoKeys == {0, 1}
OneKey == {0}

\* Two emulators on one channel: every note is played by both.
Layered == << Lower, Lower >>
LayeredCounts == << 1, 2 >>

\* One channel, and an emulator that listens to every channel.
OmniLayer == << OMNI, Lower >>
=============================================================================
