---------------------------- MODULE MCModeStore -----------------------------
EXTENDS ModeRestart
CONSTANT s1
\* One setting: the lists still differ by their length and by which of the
\* modes are default ones, and two saves may wait to reach the disk.
MCSettings == {s1}
=============================================================================
