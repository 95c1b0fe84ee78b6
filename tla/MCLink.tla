------------------------------- MODULE MCLink -------------------------------
(* A link that comes and goes and loses frames, settings changed at will.  *)
(* The socket build: the serial line only lacks the reconnections.         *)
EXTENDS LinkFreshness

\* Values wider than the bytes they are stored in count as well.
MCWaterActions == {0, 1}
MCTemperatures == {256}
MCYields == {65537}
MCCoolStates == {0}
MCFlags == {FALSE}
=============================================================================
