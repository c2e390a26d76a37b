---------------------------- MODULE MCEchoSession ----------------------------
\* Instances of EchoSession for TLC; the sizes are in the .cfg files.
EXTENDS EchoSession
=============================================================================
