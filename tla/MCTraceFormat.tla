---------------------------- MODULE MCTraceFormat ----------------------------
EXTENDS TraceFormat

MCThreads == {0, 1023}
MCSizes == {1, 4080}
MCAlignments == {64, 4096}
MCTokens == {1, 4090}
MCStamps == {[ts |-> 65535, cpu |-> 6]}
MCFills == {0, 15}
=============================================================================
