---------------------------- MODULE MCReplayReader ----------------------------
EXTENDS ReplayReader
MCOutputSizes == 0 .. 31
=============================================================================
