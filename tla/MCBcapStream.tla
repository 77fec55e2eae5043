---------------------------- MODULE MCBcapStream ----------------------------
(* BcapStream with a check sum and bodies for TLC. *)
EXTENDS BcapStream, SequencesExt

\* A body may hold a terminator, a header, or what looks like a short packet.
StreamBodies == {<<>>, <<4>>, <<1, 2>>, <<1, 4>>}
LineNoise == {<<>>, <<0>>}
SumOf7(bytes) == 10 + (FoldLeft(+, 0, bytes) % 7)
=============================================================================
