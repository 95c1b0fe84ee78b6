---------------------------- MODULE MCSocketLink ----------------------------
EXTENDS SocketLink
\* One more than are ever in use, so that a leaked one shows.
MCSockets == 1..2
=============================================================================
