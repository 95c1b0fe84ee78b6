------------------------------- MODULE MCRecv -------------------------------
EXTENDS RecvWatch
MCBodies == {"a", "b"}
=============================================================================
