------------------------------ MODULE TraceData ------------------------------
(***************************************************************************)
(* What a malloc trace is made of: the part of its format that the order   *)
(* of replay depends on.  Sizes, alignments and the varint encoding are    *)
(* left out.                                                               *)
(***************************************************************************)
EXTENDS Naturals, Sequences

CONSTANTS
  Threads,     \* ids of the traced threads
  NoThread,    \* kInvalidThreadID
  Tokens,      \* the tokens that name allocations; one is never used twice
  NoTok,       \* "no token", in the field an event does not have
  Times, Cpus, \* what a stamp holds
  NDEBUG       \* whether the build of the tools leaves assert() out

ASSUME ThreadsAssumption == NoThread \notin Threads
ASSUME TokensAssumption == NoTok \notin Tokens
ASSUME TimesAssumption == Times \subseteq Nat /\ Times # {}
ASSUME CpusAssumption == Cpus \subseteq Nat /\ Cpus # {}
ASSUME NDEBUGAssumption == NDEBUG \in BOOLEAN

(***************************************************************************)
(* Malloc and Memalign make the token `new', Free and FreeSized release    *)
(* the token `old', Realloc does both.                                     *)
(***************************************************************************)
NoEvent == [old |-> NoTok, new |-> NoTok]
Events == [old : Tokens \cup {NoTok}, new : Tokens \cup {NoTok}] \ {NoEvent}

\* A time and a cpu: the payload of a Tok item, and of the header of a Buf.
Stamps == [ts : Times, cpu : Cpus]

\* What the bytes of a Buf decode to.  A Buf is modelled as its items and
\* then the stamp of its header, which the decoder applies last.
Items == Events \cup Stamps
=============================================================================
