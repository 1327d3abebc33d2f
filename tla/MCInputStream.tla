---------------------------- MODULE MCInputStream ----------------------------
EXTENDS InputStream

EmptyBuf == [type |-> "Buf", words |-> <<1, 1, 1>>, payload |-> 0]
SmallBuf == [type |-> "Buf", words |-> <<2, 3, 1>>, payload |-> 3]
LargeBuf == [type |-> "Buf", words |-> <<1, 3, 2>>, payload |-> 11]
Death == [type |-> "Death", words |-> <<1, 3>>, payload |-> 0]
SyncBarrier == [type |-> "SyncBarrier", words |-> <<1, 2>>, payload |-> 0]
End == [type |-> "End", words |-> <<1>>, payload |-> 0]

\* Traces of four rounds.
MCRounds == {<<>>, <<SmallBuf>>, <<LargeBuf>>, <<EmptyBuf, Death>>}
MCEnds == MCRounds \cup {<<End>>}
MCInputs ==
  {a \o <<SyncBarrier>> \o b \o <<SyncBarrier>> \o c \o <<SyncBarrier>> \o d :
     a \in MCRounds, b \in MCRounds, c \in MCRounds, d \in MCEnds}
=============================================================================
